------------------------- MODULE AuthSessionsProofs -------------------------
(***************************************************************************)
(* Proofs about AuthSessions: for any sets of requests and processes and   *)
(* under every fault.                                                      *)
(***************************************************************************)
EXTENDS AuthSessions, TLAPS

-----------------------------------------------------------------------------
(* What one step of a request q does to the history and the other requests *)
(* (Moves), to the table (RowsMove), and what holds when q enters the      *)
(* positions that the invariant speaks of (Enters).                        *)

Moves(q) ==
    /\ pc[q] \notin Answered /\ pc'[q] # "idle"
    /\ pc[q] \in Retiring => pc'[q] \in Retiring \cup {"accepted"}
    /\ \A o \in Requests \ {q} :
          /\ pc'[o] = pc[o] /\ token'[o] = token[o]
          /\ before'[o] = before[o] /\ found'[o] = found[o]
    /\ pc[q] # "idle" => token'[q] = token[q] /\ before'[q] = before[q]
    /\ pc[q] = "idle" => /\ before'[q] = {o \in Requests : pc[o] \in Answered}
                         /\ q \in Refreshes \cup Logouts =>
                               token'[q] \in Handed \/ pc'[q] = "rejected"

RowsMove(q) ==
    \A j \in Sessions :
        /\ row'[j] = "active" => row[j] = "active" \/ (j = q /\ pc[q] = "saved")
        /\ row'[j] # "none"
             => row[j] # "none" \/ pc'[j] \in Retiring \cup {"accepted", "aborted"}

Enters(q) ==
    /\ q \in Refreshes \cup Logouts /\ pc'[q] \in Retiring \cup {"accepted"}
         => \/ pc[q] \in Retiring
            \/ pc[q] # "idle" /\ row'[token[q]] # "active"
    /\ q \in Refreshes /\ pc'[q] \in Issuing \cup Retiring \cup {"accepted"}
         => \/ pc[q] \in Issuing \cup Retiring
            \/ pc[q] = "checked" /\ row[token[q]] = "active"
    /\ q \in Revocations /\ pc'[q] = "marking"
         => row' = row /\ \A j \in Sessions : row[j] = "active" => j \in found'[q]
    /\ q \in Revocations /\ pc'[q] \in Dropping \cup {"accepted"}
         => \/ pc[q] \in Dropping
            \/ pc[q] = "marking" /\ \A j \in found[q] : row'[j] # "active"

StepFacts(q) ==
    TypeOK' /\ PositionsFit' /\ Moves(q) /\ RowsMove(q) /\ Enters(q)

(* Every step of a request satisfies them: one case per action.            *)
LEMMA RequestStepFacts ==
    ASSUME TypeOK, PositionsFit, TokensAreHanded, RowsAreIssued,
           NEW q \in Requests, Arrive(q) \/ RequestStep(q)
    PROVE  StepFacts(q)
<1> USE AuthAssumption
    DEF Begin, Move, Goto, storeVars, Issuing, Retiring, Dropping, Answered,
        Handed, Kinds
<1>1. CASE Login(q)
  <2>1. TypeOK'
    BY <1>1 DEF Login, TypeOK, Positions, Sessions, Requests
  <2>2. PositionsFit'
    BY <1>1 DEF Login, TypeOK, PositionsFit, Sessions, Requests
  <2>3. Moves(q) /\ RowsMove(q) /\ Enters(q)
    BY <1>1 DEF Login, TypeOK, PositionsFit, TokensAreHanded, RowsAreIssued,
                 Moves, RowsMove, Enters, Sessions, Requests
  <2> QED BY <2>1, <2>2, <2>3 DEF StepFacts
<1>2. CASE Refuse(q)
  <2>1. TypeOK'
    BY <1>2 DEF Refuse, TypeOK, Positions, Sessions, Requests
  <2>2. PositionsFit'
    BY <1>2 DEF Refuse, TypeOK, PositionsFit, Sessions, Requests
  <2>3. Moves(q) /\ RowsMove(q) /\ Enters(q)
    BY <1>2 DEF Refuse, TypeOK, PositionsFit, TokensAreHanded, RowsAreIssued,
                 Moves, RowsMove, Enters, Sessions, Requests
  <2> QED BY <2>1, <2>2, <2>3 DEF StepFacts
<1>3. CASE Refresh(q)
  <2>1. TypeOK'
    BY <1>3 DEF Refresh, TypeOK, Positions, Sessions, Requests
  <2>2. PositionsFit'
    BY <1>3 DEF Refresh, TypeOK, PositionsFit, Sessions, Requests
  <2>3. Moves(q) /\ RowsMove(q) /\ Enters(q)
    BY <1>3 DEF Refresh, TypeOK, PositionsFit, TokensAreHanded, RowsAreIssued,
                 Moves, RowsMove, Enters, Sessions, Requests
  <2> QED BY <2>1, <2>2, <2>3 DEF StepFacts
<1>4. CASE Logout(q)
  <2>1. TypeOK'
    BY <1>4 DEF Logout, TypeOK, Positions, Sessions, Requests
  <2>2. PositionsFit'
    BY <1>4 DEF Logout, TypeOK, PositionsFit, Sessions, Requests
  <2>3. Moves(q) /\ RowsMove(q) /\ Enters(q)
    BY <1>4 DEF Logout, TypeOK, PositionsFit, TokensAreHanded, RowsAreIssued,
                 Moves, RowsMove, Enters, Sessions, Requests
  <2> QED BY <2>1, <2>2, <2>3 DEF StepFacts
<1>5. CASE Revoke(q)
  <2>1. TypeOK'
    BY <1>5 DEF Revoke, TypeOK, Positions, Sessions, Requests
  <2>2. PositionsFit'
    BY <1>5 DEF Revoke, TypeOK, PositionsFit, Sessions, Requests
  <2>3. Moves(q) /\ RowsMove(q) /\ Enters(q)
    BY <1>5 DEF Revoke, TypeOK, PositionsFit, TokensAreHanded, RowsAreIssued,
                 Moves, RowsMove, Enters, Sessions, Requests
  <2> QED BY <2>1, <2>2, <2>3 DEF StepFacts
<1>6. CASE Enable(q)
  <2>1. TypeOK'
    BY <1>6 DEF Enable, TypeOK, Positions, Sessions, Requests
  <2>2. PositionsFit'
    BY <1>6 DEF Enable, TypeOK, PositionsFit, Sessions, Requests
  <2>3. Moves(q) /\ RowsMove(q) /\ Enters(q)
    BY <1>6 DEF Enable, TypeOK, PositionsFit, TokensAreHanded, RowsAreIssued,
                 Moves, RowsMove, Enters, Sessions, Requests
  <2> QED BY <2>1, <2>2, <2>3 DEF StepFacts
<1>7. CASE Delete(q)
  <2>1. TypeOK'
    BY <1>7 DEF Delete, TypeOK, Positions, Sessions, Requests
  <2>2. PositionsFit'
    BY <1>7 DEF Delete, TypeOK, PositionsFit, Sessions, Requests
  <2>3. Moves(q) /\ RowsMove(q) /\ Enters(q)
    BY <1>7 DEF Delete, TypeOK, PositionsFit, TokensAreHanded, RowsAreIssued,
                 Moves, RowsMove, Enters, Sessions, Requests
  <2> QED BY <2>1, <2>2, <2>3 DEF StepFacts
<1>8. CASE CheckKey(q)
  <2>1. TypeOK'
    BY <1>8 DEF CheckKey, TypeOK, Positions, Sessions, Requests
  <2>2. PositionsFit'
    BY <1>8 DEF CheckKey, TypeOK, PositionsFit, Sessions, Requests
  <2>3. Moves(q) /\ RowsMove(q) /\ Enters(q)
    BY <1>8 DEF CheckKey, TypeOK, PositionsFit, TokensAreHanded, RowsAreIssued,
                 Moves, RowsMove, Enters, Sessions, Requests
  <2> QED BY <2>1, <2>2, <2>3 DEF StepFacts
<1>9. CASE CheckRow(q)
  <2>1. TypeOK'
    BY <1>9 DEF CheckRow, TypeOK, Positions, Sessions, Requests
  <2>2. PositionsFit'
    BY <1>9 DEF CheckRow, TypeOK, PositionsFit, Sessions, Requests
  <2>3. Moves(q) /\ RowsMove(q) /\ Enters(q)
    BY <1>9 DEF CheckRow, TypeOK, PositionsFit, TokensAreHanded, RowsAreIssued,
                 Moves, RowsMove, Enters, Sessions, Requests
  <2> QED BY <2>1, <2>2, <2>3 DEF StepFacts
<1>10. CASE InsertRow(q)
  <2>1. TypeOK'
    BY <1>10 DEF InsertRow, TypeOK, Positions, Sessions, Requests
  <2>2. PositionsFit'
    BY <1>10 DEF InsertRow, TypeOK, PositionsFit, Sessions, Requests
  <2>3. Moves(q) /\ RowsMove(q) /\ Enters(q)
    BY <1>10 DEF InsertRow, TypeOK, PositionsFit, TokensAreHanded, RowsAreIssued,
                 Moves, RowsMove, Enters, Sessions, Requests
  <2> QED BY <2>1, <2>2, <2>3 DEF StepFacts
<1>11. CASE SaveKey(q)
  <2>1. TypeOK'
    BY <1>11 DEF SaveKey, TypeOK, Positions, PositionsFit, Sessions, Requests
  <2>2. PositionsFit'
    BY <1>11 DEF SaveKey, TypeOK, PositionsFit, Sessions, Requests
  <2>3. Moves(q) /\ RowsMove(q) /\ Enters(q)
    BY <1>11 DEF SaveKey, TypeOK, PositionsFit, TokensAreHanded, RowsAreIssued,
                 Moves, RowsMove, Enters, Sessions, Requests
  <2> QED BY <2>1, <2>2, <2>3 DEF StepFacts
<1>12. CASE IndexKey(q)
  <2>1. TypeOK'
    BY <1>12 DEF IndexKey, TypeOK, Positions, PositionsFit, Sessions, Requests
  <2>2. PositionsFit'
    BY <1>12 DEF IndexKey, TypeOK, PositionsFit, Sessions, Requests
  <2>3. Moves(q) /\ RowsMove(q) /\ Enters(q)
    BY <1>12 DEF IndexKey, TypeOK, PositionsFit, TokensAreHanded, RowsAreIssued,
                 Moves, RowsMove, Enters, Sessions, Requests
  <2> QED BY <2>1, <2>2, <2>3 DEF StepFacts
<1>13. CASE SaveFails(q)
  <2>1. TypeOK'
    BY <1>13 DEF SaveFails, TypeOK, Positions, PositionsFit, Sessions, Requests
  <2>2. PositionsFit'
    BY <1>13 DEF SaveFails, TypeOK, PositionsFit, Sessions, Requests
  <2>3. Moves(q) /\ RowsMove(q) /\ Enters(q)
    BY <1>13 DEF SaveFails, TypeOK, PositionsFit, TokensAreHanded, RowsAreIssued,
                 Moves, RowsMove, Enters, Sessions, Requests
  <2> QED BY <2>1, <2>2, <2>3 DEF StepFacts
<1>14. CASE CloseSession(q)
  <2>1. TypeOK'
    BY <1>14 DEF CloseSession, TypeOK, Positions, Sessions, Requests
  <2>2. PositionsFit'
    BY <1>14 DEF CloseSession, TypeOK, PositionsFit, Sessions, Requests
  <2>3. Moves(q) /\ RowsMove(q) /\ Enters(q)
    BY <1>14 DEF CloseSession, TypeOK, PositionsFit, TokensAreHanded, RowsAreIssued,
                 Moves, RowsMove, Enters, Sessions, Requests
  <2> QED BY <2>1, <2>2, <2>3 DEF StepFacts
<1>15. CASE CommitLogin(q)
  <2>1. TypeOK'
    BY <1>15 DEF CommitLogin, TypeOK, Positions, Sessions, Requests
  <2>2. PositionsFit'
    BY <1>15 DEF CommitLogin, TypeOK, PositionsFit, Sessions, Requests
  <2>3. Moves(q) /\ RowsMove(q) /\ Enters(q)
    BY <1>15 DEF CommitLogin, TypeOK, PositionsFit, TokensAreHanded, RowsAreIssued,
                 Moves, RowsMove, Enters, Sessions, Requests
  <2> QED BY <2>1, <2>2, <2>3 DEF StepFacts
<1>16. CASE CommitRefresh(q)
  <2>1. TypeOK'
    BY <1>16 DEF CommitRefresh, TypeOK, Positions, Sessions, Requests
  <2>2. PositionsFit'
    BY <1>16 DEF CommitRefresh, TypeOK, PositionsFit, Sessions, Requests
  <2>3. Moves(q) /\ RowsMove(q) /\ Enters(q)
    BY <1>16 DEF CommitRefresh, TypeOK, PositionsFit, TokensAreHanded, RowsAreIssued,
                 Moves, RowsMove, Enters, Sessions, Requests
  <2> QED BY <2>1, <2>2, <2>3 DEF StepFacts
<1>17. CASE CommitSessionFails(q)
  <2>1. TypeOK'
    BY <1>17 DEF CommitSessionFails, TypeOK, Positions, Sessions, Requests
  <2>2. PositionsFit'
    BY <1>17 DEF CommitSessionFails, TypeOK, PositionsFit, Sessions, Requests
  <2>3. Moves(q) /\ RowsMove(q) /\ Enters(q)
    BY <1>17 DEF CommitSessionFails, TypeOK, PositionsFit, TokensAreHanded, RowsAreIssued,
                 Moves, RowsMove, Enters, Sessions, Requests
  <2> QED BY <2>1, <2>2, <2>3 DEF StepFacts
<1>18. CASE DeleteKey(q)
  <2>1. TypeOK'
    BY <1>18 DEF DeleteKey, Withdrawn, TypeOK, Positions, Sessions, Requests
  <2>2. PositionsFit'
    BY <1>18 DEF DeleteKey, Withdrawn, TypeOK, PositionsFit, Sessions, Requests
  <2>3. Moves(q) /\ RowsMove(q) /\ Enters(q)
    BY <1>18 DEF DeleteKey, Withdrawn, TypeOK, PositionsFit, TokensAreHanded, RowsAreIssued,
                 Moves, RowsMove, Enters, Sessions, Requests
  <2> QED BY <2>1, <2>2, <2>3 DEF StepFacts
<1>19. CASE UnindexKey(q)
  <2>1. TypeOK'
    BY <1>19 DEF UnindexKey, Withdrawn, TypeOK, Positions, Sessions, Requests
  <2>2. PositionsFit'
    BY <1>19 DEF UnindexKey, Withdrawn, TypeOK, PositionsFit, Sessions, Requests
  <2>3. Moves(q) /\ RowsMove(q) /\ Enters(q)
    BY <1>19 DEF UnindexKey, Withdrawn, TypeOK, PositionsFit, TokensAreHanded, RowsAreIssued,
                 Moves, RowsMove, Enters, Sessions, Requests
  <2> QED BY <2>1, <2>2, <2>3 DEF StepFacts
<1>20. CASE RevokeKeyFails(q)
  <2>1. TypeOK'
    BY <1>20 DEF RevokeKeyFails, Withdrawn, TypeOK, Positions, Sessions, Requests
  <2>2. PositionsFit'
    BY <1>20 DEF RevokeKeyFails, Withdrawn, TypeOK, PositionsFit, Sessions, Requests
  <2>3. Moves(q) /\ RowsMove(q) /\ Enters(q)
    BY <1>20 DEF RevokeKeyFails, Withdrawn, TypeOK, PositionsFit, TokensAreHanded, RowsAreIssued,
                 Moves, RowsMove, Enters, Sessions, Requests
  <2> QED BY <2>1, <2>2, <2>3 DEF StepFacts
<1>21. CASE CommitLogout(q)
  <2>1. TypeOK'
    BY <1>21 DEF CommitLogout, TypeOK, Positions, Sessions, Requests
  <2>2. PositionsFit'
    BY <1>21 DEF CommitLogout, TypeOK, PositionsFit, Sessions, Requests
  <2>3. Moves(q) /\ RowsMove(q) /\ Enters(q)
    BY <1>21 DEF CommitLogout, TypeOK, PositionsFit, TokensAreHanded, RowsAreIssued,
                 Moves, RowsMove, Enters, Sessions, Requests
  <2> QED BY <2>1, <2>2, <2>3 DEF StepFacts
<1>22. CASE CheckFails(q)
  <2>1. TypeOK'
    BY <1>22 DEF CheckFails, TypeOK, Positions, Sessions, Requests
  <2>2. PositionsFit'
    BY <1>22 DEF CheckFails, TypeOK, PositionsFit, Sessions, Requests
  <2>3. Moves(q) /\ RowsMove(q) /\ Enters(q)
    BY <1>22 DEF CheckFails, TypeOK, PositionsFit, TokensAreHanded, RowsAreIssued,
                 Moves, RowsMove, Enters, Sessions, Requests
  <2> QED BY <2>1, <2>2, <2>3 DEF StepFacts
<1>23. CASE ReadActiveRows(q)
  <2>1. TypeOK'
    BY <1>23 DEF ReadActiveRows, TypeOK, Positions, Sessions, Requests
  <2>2. PositionsFit'
    BY <1>23 DEF ReadActiveRows, TypeOK, PositionsFit, Sessions, Requests
  <2>3. Moves(q) /\ RowsMove(q) /\ Enters(q)
    BY <1>23 DEF ReadActiveRows, TypeOK, PositionsFit, TokensAreHanded, RowsAreIssued,
                 Moves, RowsMove, Enters, Sessions, Requests
  <2> QED BY <2>1, <2>2, <2>3 DEF StepFacts
<1>24. CASE CommitRevocation(q)
  <2>1. TypeOK'
    BY <1>24 DEF CommitRevocation, TypeOK, Positions, Sessions, Requests
  <2>2. PositionsFit'
    BY <1>24 DEF CommitRevocation, TypeOK, PositionsFit, Sessions, Requests
  <2>3. Moves(q) /\ RowsMove(q) /\ Enters(q)
    BY <1>24 DEF CommitRevocation, TypeOK, PositionsFit, TokensAreHanded, RowsAreIssued,
                 Moves, RowsMove, Enters, Sessions, Requests
  <2> QED BY <2>1, <2>2, <2>3 DEF StepFacts
<1>25. CASE CommitRevocationFails(q)
  <2>1. TypeOK'
    BY <1>25 DEF CommitRevocationFails, TypeOK, Positions, Sessions, Requests
  <2>2. PositionsFit'
    BY <1>25 DEF CommitRevocationFails, TypeOK, PositionsFit, Sessions, Requests
  <2>3. Moves(q) /\ RowsMove(q) /\ Enters(q)
    BY <1>25 DEF CommitRevocationFails, TypeOK, PositionsFit, TokensAreHanded, RowsAreIssued,
                 Moves, RowsMove, Enters, Sessions, Requests
  <2> QED BY <2>1, <2>2, <2>3 DEF StepFacts
<1>26. CASE ListKeys(q)
  <2>1. TypeOK'
    BY <1>26 DEF ListKeys, TypeOK, Positions, Sessions, Requests
  <2>2. PositionsFit'
    BY <1>26 DEF ListKeys, TypeOK, PositionsFit, Sessions, Requests
  <2>3. Moves(q) /\ RowsMove(q) /\ Enters(q)
    BY <1>26 DEF ListKeys, TypeOK, PositionsFit, TokensAreHanded, RowsAreIssued,
                 Moves, RowsMove, Enters, Sessions, Requests
  <2> QED BY <2>1, <2>2, <2>3 DEF StepFacts
<1>27. CASE DropKeys(q)
  <2>1. TypeOK'
    BY <1>27 DEF DropKeys, TypeOK, Positions, Sessions, Requests
  <2>2. PositionsFit'
    BY <1>27 DEF DropKeys, TypeOK, PositionsFit, Sessions, Requests
  <2>3. Moves(q) /\ RowsMove(q) /\ Enters(q)
    BY <1>27 DEF DropKeys, TypeOK, PositionsFit, TokensAreHanded, RowsAreIssued,
                 Moves, RowsMove, Enters, Sessions, Requests
  <2> QED BY <2>1, <2>2, <2>3 DEF StepFacts
<1>28. CASE DropIndex(q)
  <2>1. TypeOK'
    BY <1>28 DEF DropIndex, TypeOK, Positions, Sessions, Requests
  <2>2. PositionsFit'
    BY <1>28 DEF DropIndex, TypeOK, PositionsFit, Sessions, Requests
  <2>3. Moves(q) /\ RowsMove(q) /\ Enters(q)
    BY <1>28 DEF DropIndex, TypeOK, PositionsFit, TokensAreHanded, RowsAreIssued,
                 Moves, RowsMove, Enters, Sessions, Requests
  <2> QED BY <2>1, <2>2, <2>3 DEF StepFacts
<1>29. CASE DropFails(q)
  <2>1. TypeOK'
    BY <1>29 DEF DropFails, TypeOK, Positions, Sessions, Requests
  <2>2. PositionsFit'
    BY <1>29 DEF DropFails, TypeOK, PositionsFit, Sessions, Requests
  <2>3. Moves(q) /\ RowsMove(q) /\ Enters(q)
    BY <1>29 DEF DropFails, TypeOK, PositionsFit, TokensAreHanded, RowsAreIssued,
                 Moves, RowsMove, Enters, Sessions, Requests
  <2> QED BY <2>1, <2>2, <2>3 DEF StepFacts
<1>30. CASE DeleteUser(q)
  <2>1. TypeOK'
    BY <1>30 DEF DeleteUser, TypeOK, Positions, Sessions, Requests
  <2>2. PositionsFit'
    BY <1>30 DEF DeleteUser, TypeOK, PositionsFit, Sessions, Requests
  <2>3. Moves(q) /\ RowsMove(q) /\ Enters(q)
    BY <1>30 DEF DeleteUser, TypeOK, PositionsFit, TokensAreHanded, RowsAreIssued,
                 Moves, RowsMove, Enters, Sessions, Requests
  <2> QED BY <2>1, <2>2, <2>3 DEF StepFacts
<1> QED BY <1>1, <1>2, <1>3, <1>4, <1>5, <1>6, <1>7, <1>8, <1>9, <1>10, <1>11, <1>12, <1>13, <1>14, <1>15, <1>16, <1>17, <1>18, <1>19, <1>20, <1>21, <1>22, <1>23, <1>24, <1>25, <1>26, <1>27, <1>28, <1>29, <1>30 DEF Arrive, RequestStep

(* A token in use has been handed out; what has ended stays as it ended.   *)
LEMMA HistoryStep ==
    ASSUME AuthInvariant, NEW q \in Requests, StepFacts(q)
    PROVE  /\ Handed \subseteq Handed'
           /\ \A o \in Requests : pc[o] \in Answered => pc'[o] = pc[o]
           /\ TokensAreHanded' /\ EndedStaysEnded' /\ RowsAreIssued'
<1> USE AuthAssumption DEF AuthInvariant, StepFacts, Moves
<1>1. \A o \in Requests : pc[o] \in Answered => pc'[o] = pc[o]
  OBVIOUS
<1>2. Handed \subseteq Handed'
  BY <1>1 DEF Handed, Sessions, Requests, Answered
<1>3. TokensAreHanded'
  <2> SUFFICES ASSUME NEW o \in Refreshes \cup Logouts,
                      pc'[o] \notin {"idle", "rejected"}
               PROVE  token'[o] \in Handed'
    BY DEF TokensAreHanded
  <2>1. o \in Requests
    BY DEF Requests, Sessions
  <2>2. CASE o = q /\ pc[q] = "idle"
    BY <1>2, <2>2
  <2>3. CASE ~(o = q /\ pc[q] = "idle")
    BY <1>2, <2>1, <2>3 DEF TokensAreHanded, Answered
  <2> QED BY <2>2, <2>3
<1>4. EndedStaysEnded'
  <2> SUFFICES ASSUME NEW o \in Requests, NEW b \in before'[o]
               PROVE  pc'[b] \in Answered
    BY DEF EndedStaysEnded
  <2>1. pc[b] \in Answered /\ b \in Requests
    BY DEF EndedStaysEnded, TypeOK
  <2> QED BY <1>1, <2>1
<1>5. RowsAreIssued'
  <2> SUFFICES ASSUME NEW j \in Sessions, row'[j] # "none"
               PROVE  pc'[j] \in Retiring \cup {"accepted", "aborted"}
    BY DEF RowsAreIssued
  <2>1. j \in Requests
    BY DEF Requests
  <2>2. CASE row[j] = "none"
    BY <2>2 DEF RowsMove
  <2>3. CASE row[j] # "none" /\ j # q
    BY <2>1, <2>3 DEF RowsAreIssued
  <2>4. CASE row[j] # "none" /\ j = q
    <3>1. pc[q] \in Retiring
      BY <2>4 DEF RowsAreIssued, Answered
    <3> QED BY <2>4, <3>1
  <2> QED BY <2>2, <2>3, <2>4
<1> QED BY <1>1, <1>2, <1>3, <1>4, <1>5

(* No step brings a dead row back to life once its token was handed out.   *)
LEMMA DeadStaysDead ==
    ASSUME AuthInvariant, NEW q \in Requests, StepFacts(q), NEW j \in Handed
    PROVE  row'[j] = "active" => row[j] = "active"
BY DEF AuthInvariant, StepFacts, RowsMove, Handed

(* A token that was exchanged or logged out is dead.                       *)
LEMMA UsedTokensStep ==
    ASSUME AuthInvariant, NEW q \in Requests, StepFacts(q)
    PROVE  UsedTokensAreDead'
<1> USE DEF AuthInvariant, StepFacts
<1> SUFFICES ASSUME NEW o \in Refreshes \cup Logouts,
                    pc'[o] \in Retiring \cup {"accepted"}
             PROVE  row'[token'[o]] # "active"
  BY DEF UsedTokensAreDead
<1>1. o \in Requests
  BY DEF Requests, Sessions
<1>2. ASSUME pc[o] \in Retiring \cup {"accepted"}, token'[o] = token[o]
      PROVE  row'[token'[o]] # "active"
  <2>1. token[o] \in Handed /\ row[token[o]] # "active"
    BY <1>2 DEF TokensAreHanded, UsedTokensAreDead, Retiring
  <2> QED BY <1>2, <2>1, DeadStaysDead
<1>3. CASE o # q
  BY <1>1, <1>2, <1>3 DEF Moves
<1>4. CASE o = q
  <2>1. CASE pc[q] \in Retiring
    BY <1>2, <1>4, <2>1 DEF Moves, Retiring
  <2>2. CASE pc[q] \notin Retiring
    BY <1>4, <2>2 DEF Enters, Moves
  <2> QED BY <2>1, <2>2
<1> QED BY <1>3, <1>4

(* A revocation reads what was handed out before it began and marks it.    *)
LEMMA RevocationsStep ==
    ASSUME AuthInvariant, NEW q \in Requests, StepFacts(q)
    PROVE  RevocationsReach'
<1> USE DEF AuthInvariant, StepFacts
<1> SUFFICES ASSUME NEW o \in Revocations, NEW j \in before'[o] \cap Handed',
                    row'[j] = "active"
             PROVE  /\ pc'[o] \notin Dropping \cup {"accepted"}
                    /\ pc'[o] = "marking" => j \in found'[o]
  BY DEF RevocationsReach
<1>1. o \in Requests /\ j \in Requests
  BY DEF Requests, Handed
<1>2. pc[j] \in Answered
  BY <1>1 DEF Moves, EndedStaysEnded, TypeOK
<1>3. j \in Handed /\ row[j] = "active"
  <2>1. j \in Handed
    BY <1>1, <1>2, HistoryStep DEF Handed
  <2> QED BY <2>1, DeadStaysDead
<1>4. CASE o # q
  BY <1>1, <1>3, <1>4 DEF Moves, RevocationsReach
<1>5. CASE o = q /\ pc[q] # "idle"
  <2>1. before'[q] = before[q]
    BY <1>5 DEF Moves
  <2>2. pc[q] \notin Dropping /\ (pc[q] = "marking" => j \in found[q])
    BY <1>3, <1>5, <2>1 DEF RevocationsReach
  <2> QED BY <1>3, <1>5, <2>2 DEF Enters, Handed
<1>6. CASE o = q /\ pc[q] = "idle"
  BY <1>3, <1>6 DEF Enters, Handed, Dropping
<1> QED BY <1>4, <1>5, <1>6

(* What passes the check of the row is not among what has ended before.    *)
LEMMA DeadTokensStep ==
    ASSUME AuthInvariant, NEW q \in Requests, StepFacts(q)
    PROVE  DeadTokensStayOut'
<1> USE DEF AuthInvariant, StepFacts
<1> SUFFICES ASSUME NEW r \in Refreshes, NEW o \in before'[r],
                    pc'[r] \in Issuing \cup Retiring \cup {"accepted"},
                    pc'[o] = "accepted"
             PROVE  /\ o \in Refreshes \cup Logouts => token'[r] # token'[o]
                    /\ o \in Revocations => token'[r] \notin before'[o]
  BY DEF DeadTokensStayOut, Succeeded
<1>1. r \in Requests /\ o \in Requests
  BY DEF Requests, Sessions, Moves, TypeOK
<1>2. pc[o] \in Answered
  BY <1>1 DEF Moves, EndedStaysEnded
<1>3. /\ pc[o] = "accepted" /\ o # q
      /\ token'[o] = token[o] /\ before'[o] = before[o]
  BY <1>1, <1>2, HistoryStep DEF Moves
<1>4. ASSUME pc[r] \in Issuing \cup Retiring \cup {"accepted"},
             token'[r] = token[r], before'[r] = before[r]
      PROVE  /\ o \in Refreshes \cup Logouts => token'[r] # token'[o]
             /\ o \in Revocations => token'[r] \notin before'[o]
  BY <1>3, <1>4 DEF DeadTokensStayOut, Succeeded
<1>5. CASE r # q
  BY <1>1, <1>4, <1>5 DEF Moves
<1>6. CASE r = q /\ pc[q] \in Issuing \cup Retiring
  BY <1>4, <1>6 DEF Moves, Issuing, Retiring
<1>7. CASE r = q /\ pc[q] = "checked" /\ row[token[q]] = "active"
  <2>1. token'[r] = token[r] /\ token[r] \in Handed
    BY <1>7 DEF Moves, TokensAreHanded
  <2>2. o \in Refreshes \cup Logouts => token[r] # token[o]
    BY <1>3, <1>7 DEF UsedTokensAreDead
  <2>3. o \in Revocations => token[r] \notin before[o]
    BY <1>3, <1>7, <2>1 DEF RevocationsReach
  <2> QED BY <1>3, <2>1, <2>2, <2>3
<1> QED BY <1>5, <1>6, <1>7 DEF Enters

(* A crash answers nothing and undoes nothing that was committed.          *)
LEMMA ApiCrashStep ==
    ASSUME AuthInvariant, NEW p \in Processes, ApiCrash(p)
    PROVE  AuthInvariant'
<1> USE AuthAssumption DEF ApiCrash, storeVars
<1>1. \A o \in Requests :
         \/ pc'[o] = pc[o]
         \/ pc'[o] = "aborted" /\ pc[o] \notin Answered \cup {"idle"}
  BY DEF AuthInvariant, TypeOK
<1>2. Handed' = Handed
  BY <1>1 DEF Handed, Requests, Answered
<1>3. TypeOK'
  BY DEF AuthInvariant, TypeOK, Positions, Answered
<1>4. PositionsFit'
  BY <1>1 DEF AuthInvariant, PositionsFit, Answered, Requests, Sessions
<1>5. TokensAreHanded'
  BY <1>1, <1>2 DEF AuthInvariant, TokensAreHanded, Requests, Sessions,
                    Answered
<1>6. EndedStaysEnded'
  BY <1>1 DEF AuthInvariant, TypeOK, EndedStaysEnded, Answered
<1>7. RowsAreIssued'
  BY <1>1 DEF AuthInvariant, RowsAreIssued, Requests
<1>8. UsedTokensAreDead'
  BY <1>1 DEF AuthInvariant, UsedTokensAreDead, Requests, Sessions, Retiring
<1>9. RevocationsReach'
  BY <1>1, <1>2 DEF AuthInvariant, RevocationsReach, Requests, Dropping
<1>10. DeadTokensStayOut'
  <2> SUFFICES ASSUME NEW r \in Refreshes, NEW o \in before[r],
                      pc'[r] \in Issuing \cup Retiring \cup {"accepted"},
                      pc'[o] = "accepted"
               PROVE  /\ o \in Refreshes \cup Logouts => token[r] # token[o]
                      /\ o \in Revocations => token[r] \notin before[o]
    BY DEF DeadTokensStayOut, Succeeded
  <2>1. r \in Requests /\ o \in Requests
    BY DEF Requests, Sessions, AuthInvariant, TypeOK
  <2>2. pc[r] = pc'[r] /\ pc[o] = "accepted"
    BY <1>1, <2>1 DEF Issuing, Retiring
  <2> QED BY <2>2 DEF AuthInvariant, DeadTokensStayOut, Succeeded
<1> QED BY <1>3, <1>4, <1>5, <1>6, <1>7, <1>8, <1>9, <1>10 DEF AuthInvariant

-----------------------------------------------------------------------------
(* Nothing has been issued, used up or revoked yet.                        *)
LEMMA AuthInvariantInit == Init => AuthInvariant
BY AuthAssumption
   DEF Init, AuthInvariant, TypeOK, PositionsFit, TokensAreHanded,
       EndedStaysEnded, RowsAreIssued, UsedTokensAreDead, RevocationsReach,
       DeadTokensStayOut, Positions, Issuing, Retiring, Dropping, Handed,
       Requests, Sessions

(* A step of any request, and a crash of any process.                      *)
LEMMA AuthInvariantStep == AuthInvariant /\ [Next]_vars => AuthInvariant'
<1> SUFFICES ASSUME AuthInvariant, [Next]_vars PROVE AuthInvariant'
  OBVIOUS
<1>1. ASSUME NEW q \in Requests, Arrive(q) \/ RequestStep(q)
      PROVE  AuthInvariant'
  <2>1. StepFacts(q)
    BY <1>1, RequestStepFacts DEF AuthInvariant
  <2> QED BY <2>1, HistoryStep, UsedTokensStep, RevocationsStep, DeadTokensStep
          DEF AuthInvariant, StepFacts
<1>2. ASSUME NEW p \in Processes, ApiCrash(p) PROVE AuthInvariant'
  BY <1>2, ApiCrashStep
<1>3. CASE UNCHANGED vars
  BY <1>3 DEF vars, AuthInvariant, TypeOK, PositionsFit, TokensAreHanded,
              EndedStaysEnded, RowsAreIssued, UsedTokensAreDead,
              RevocationsReach, DeadTokensStayOut, Handed, Succeeded
<1> QED BY <1>1, <1>2, <1>3 DEF Next

(***************************************************************************)
(* The inductive invariant holds in every reachable state.                 *)
(***************************************************************************)
THEOREM AuthInvariantHolds == Spec => []AuthInvariant
BY AuthInvariantInit, AuthInvariantStep, PTL DEF Spec

(***************************************************************************)
(* A token whose logout was answered is never accepted again by a refresh  *)
(* that begins later, for any number of requests and processes and under   *)
(* every fault of Redis, the database and the processes.                   *)
(***************************************************************************)
THEOREM LogoutFinal == Spec => []LogoutIsFinal
<1>1. AuthInvariant => LogoutIsFinal
  BY DEF AuthInvariant, DeadTokensStayOut, LogoutIsFinal, RefreshedAfter,
         Succeeded
<1> QED BY <1>1, AuthInvariantHolds, PTL

(***************************************************************************)
(* A token that was exchanged is never exchanged again by a refresh that   *)
(* begins after the first one was answered.                                *)
(***************************************************************************)
THEOREM RotationFinal == Spec => []RotationIsFinal
<1>1. AuthInvariant => RotationIsFinal
  BY DEF AuthInvariant, DeadTokensStayOut, RotationIsFinal, RefreshedAfter,
         Succeeded
<1> QED BY <1>1, AuthInvariantHolds, PTL

(***************************************************************************)
(* After a logout-all, a new password or a disabling was answered, tokens  *)
(* that had been handed out before it began are never accepted again.      *)
(***************************************************************************)
THEOREM RevocationFinal == Spec => []RevocationIsFinal
<1>1. AuthInvariant => RevocationIsFinal
  BY DEF AuthInvariant, DeadTokensStayOut, RevocationIsFinal, RefreshedAfter,
         Succeeded
<1> QED BY <1>1, AuthInvariantHolds, PTL

-----------------------------------------------------------------------------
(* What one step of a request q takes from a session: its key or its row,  *)
(* as a request that ends it, or its own key, as a request that gives up.  *)
Spares(q) ==
    \A j \in Sessions :
        /\ j \in keys \ keys' =>
               \/ pc[q] # "idle" /\ Ends(q, j)
               \/ j = q /\ pc'[q] \notin Saved
        /\ row[j] = "active" /\ row'[j] # "active" =>
               pc[q] # "idle" /\ Ends(q, j)

(* A request that goes on has saved its key, and then committed its row.   *)
Stores(q) ==
    q \in Sessions =>
        /\ pc'[q] \in Saved => pc[q] \in Saved \/ q \in keys'
        /\ pc'[q] \in Retiring \cup {"accepted"} =>
               pc[q] \in Retiring \/ row'[q] = "active"

(* Every step of a request does no more and no less: one case per action.  *)
LEMMA RequestStepSpares ==
    ASSUME TypeOK, PositionsFit, TokensAreHanded,
           NEW q \in Requests, Arrive(q) \/ RequestStep(q)
    PROVE  Spares(q) /\ Stores(q)
<1> USE AuthAssumption
    DEF Begin, Move, Goto, storeVars, Issuing, Retiring, Dropping, Answered, Saved,
        Handed, Spares, Stores, Ends, TypeOK, PositionsFit, Sessions, Requests
<1>1. CASE Login(q)
  BY <1>1 DEF Login
<1>2. CASE Refuse(q)
  BY <1>2 DEF Refuse
<1>3. CASE Refresh(q)
  BY <1>3 DEF Refresh
<1>4. CASE Logout(q)
  BY <1>4 DEF Logout
<1>5. CASE Revoke(q)
  BY <1>5 DEF Revoke
<1>6. CASE Enable(q)
  BY <1>6 DEF Enable
<1>7. CASE Delete(q)
  BY <1>7 DEF Delete
<1>8. CASE CheckKey(q)
  BY <1>8 DEF CheckKey
<1>9. CASE CheckRow(q)
  BY <1>9 DEF CheckRow
<1>10. CASE InsertRow(q)
  BY <1>10 DEF InsertRow
<1>11. CASE SaveKey(q)
  BY <1>11 DEF SaveKey
<1>12. CASE IndexKey(q)
  BY <1>12 DEF IndexKey
<1>13. CASE SaveFails(q)
  BY <1>13 DEF SaveFails
<1>14. CASE CloseSession(q)
  BY <1>14 DEF CloseSession
<1>15. CASE CommitLogin(q)
  BY <1>15 DEF CommitLogin
<1>16. CASE CommitRefresh(q)
  BY <1>16 DEF CommitRefresh, TokensAreHanded
<1>17. CASE CommitSessionFails(q)
  BY <1>17 DEF CommitSessionFails
<1>18. CASE DeleteKey(q)
  BY <1>18 DEF DeleteKey, Withdrawn, TokensAreHanded
<1>19. CASE UnindexKey(q)
  BY <1>19 DEF UnindexKey, Withdrawn
<1>20. CASE RevokeKeyFails(q)
  BY <1>20 DEF RevokeKeyFails, Withdrawn, TokensAreHanded
<1>21. CASE CommitLogout(q)
  BY <1>21 DEF CommitLogout, TokensAreHanded
<1>22. CASE CheckFails(q)
  BY <1>22 DEF CheckFails
<1>23. CASE ReadActiveRows(q)
  BY <1>23 DEF ReadActiveRows
<1>24. CASE CommitRevocation(q)
  BY <1>24 DEF CommitRevocation
<1>25. CASE CommitRevocationFails(q)
  BY <1>25 DEF CommitRevocationFails
<1>26. CASE ListKeys(q)
  BY <1>26 DEF ListKeys
<1>27. CASE DropKeys(q)
  BY <1>27 DEF DropKeys
<1>28. CASE DropIndex(q)
  BY <1>28 DEF DropIndex
<1>29. CASE DropFails(q)
  BY <1>29 DEF DropFails
<1>30. CASE DeleteUser(q)
  BY <1>30 DEF DeleteUser
<1> QED
  BY <1>1, <1>2, <1>3, <1>4, <1>5, <1>6, <1>7, <1>8, <1>9, <1>10, <1>11, <1>12, <1>13,
     <1>14, <1>15, <1>16, <1>17, <1>18, <1>19, <1>20, <1>21, <1>22, <1>23, <1>24, <1>25,
     <1>26, <1>27, <1>28, <1>29, <1>30 DEF Arrive, RequestStep

(* Who ends a session that has begun still ends it after a step: neither   *)
(* what was over when the session began nor the token presented changes.   *)
LEMMA EndersRemain ==
    ASSUME AuthInvariant, NEW q \in Requests, Moves(q),
           NEW j \in Sessions, pc[j] # "idle",
           IsEnded(j) \/ (pc[q] # "idle" /\ Ends(q, j))
    PROVE  IsEnded(j)'
<1> USE DEF Sessions, Requests
<1>1. before'[j] = before[j]
  BY DEF Moves
<1>2. PICK o \in Requests : /\ pc[o] # "idle" /\ o \notin before[j]
                            /\ Ends(o, j)
  <2>1. q \notin before[j]
    BY DEF Moves, AuthInvariant, EndedStaysEnded
  <2> QED BY <2>1 DEF IsEnded
<1>3. pc'[o] # "idle" /\ token'[o] = token[o]
  BY <1>2 DEF Moves
<1> QED BY <1>1, <1>2, <1>3 DEF IsEnded, Ends

(* Nothing is saved yet.                                                   *)
LEMMA SessionsAreKeptInit == Init => SessionsAreKept
BY AuthAssumption DEF Init, SessionsAreKept, Saved, Retiring, Sessions, Requests

(* A saved key and a committed row go only with a request that ends them.  *)
LEMMA SessionsAreKeptStep ==
    AuthInvariant /\ SessionsAreKept /\ [Next]_vars => SessionsAreKept'
<1> SUFFICES ASSUME AuthInvariant, SessionsAreKept, [Next]_vars
             PROVE  SessionsAreKept'
  OBVIOUS
<1>1. ASSUME NEW q \in Requests, Arrive(q) \/ RequestStep(q)
      PROVE  SessionsAreKept'
  <2>1. Moves(q)
    BY <1>1, RequestStepFacts DEF AuthInvariant, StepFacts
  <2>2. Spares(q) /\ Stores(q)
    BY <1>1, RequestStepSpares DEF AuthInvariant
  <2> SUFFICES ASSUME NEW j \in Sessions
               PROVE  /\ pc'[j] \in Saved => j \in keys' \/ IsEnded(j)'
                      /\ pc'[j] \in Retiring \cup {"accepted"} =>
                             row'[j] = "active" \/ IsEnded(j)'
    BY DEF SessionsAreKept
  <2>3. j \in Requests
    BY DEF Requests
  <2>4. CASE pc[j] \in Saved
    <3>1. pc[j] # "idle"
      BY <2>4 DEF Saved, Retiring
    <3>2. IsEnded(j) \/ (pc[q] # "idle" /\ Ends(q, j)) => IsEnded(j)'
      BY <2>1, <3>1, EndersRemain
    <3>3. pc'[j] \in Saved => j \in keys' \/ IsEnded(j)'
      BY <2>2, <2>4, <3>2 DEF SessionsAreKept, Spares
    <3>4. ASSUME pc'[j] \in Retiring \cup {"accepted"}
          PROVE  row'[j] = "active" \/ IsEnded(j)'
      <4>1. CASE pc[j] \in Retiring \cup {"accepted"}
        BY <2>2, <3>2, <4>1 DEF SessionsAreKept, Spares
      <4>2. CASE pc[j] \notin Retiring \cup {"accepted"}
        <5>1. j = q
          BY <2>1, <2>3, <3>4, <4>2 DEF Moves
        <5> QED BY <2>2, <3>4, <4>2, <5>1 DEF Stores
      <4> QED BY <4>1, <4>2
    <3> QED BY <3>3, <3>4
  <2>5. ASSUME pc[j] \notin Saved, pc'[j] \in Saved
        PROVE  /\ j \in keys'
               /\ pc'[j] \in Retiring \cup {"accepted"} => row'[j] = "active"
    <3>1. j = q
      BY <2>1, <2>3, <2>5 DEF Moves
    <3> QED BY <2>2, <2>5, <3>1 DEF Stores, Saved
  <2> QED BY <2>4, <2>5 DEF Saved
<1>2. ASSUME NEW p \in Processes, ApiCrash(p) PROVE SessionsAreKept'
  <2> SUFFICES ASSUME NEW j \in Sessions
               PROVE  /\ pc'[j] \in Saved => j \in keys' \/ IsEnded(j)'
                      /\ pc'[j] \in Retiring \cup {"accepted"} =>
                             row'[j] = "active" \/ IsEnded(j)'
    BY DEF SessionsAreKept
  <2>1. \A o \in Requests : pc'[o] = pc[o]
                            \/ (pc'[o] = "aborted" /\ pc[o] # "idle")
    BY <1>2 DEF ApiCrash, AuthInvariant, TypeOK
  <2>2. IsEnded(j) => IsEnded(j)'
    BY <1>2, <2>1 DEF ApiCrash, IsEnded, Ends
  <2>3. pc'[j] \in Saved => pc'[j] = pc[j]
    BY <2>1 DEF Saved, Retiring, Requests
  <2>4. keys' = keys /\ row' = row
    BY <1>2 DEF ApiCrash, storeVars
  <2> QED BY <2>2, <2>3, <2>4 DEF SessionsAreKept, Saved
<1>3. CASE UNCHANGED vars
  BY <1>3 DEF vars, SessionsAreKept, IsEnded, Ends
<1> QED BY <1>1, <1>2, <1>3 DEF Next

(***************************************************************************)
(* A session that was handed out stays good in both stores, unless a       *)
(* request that was not over when its own began uses up its token or ends  *)
(* all sessions: however the calls of the others interleave or fail.       *)
(***************************************************************************)
THEOREM SessionsLastUntilEnded == Spec => []SessionsLast
<1>1. AuthInvariant /\ SessionsAreKept => SessionsLast
  BY DEF AuthInvariant, TypeOK, SessionsAreKept, SessionsLast, Handed, Saved
<1> QED BY <1>1, AuthInvariantHolds, SessionsAreKeptInit, SessionsAreKeptStep,
           PTL DEF Spec
=============================================================================
