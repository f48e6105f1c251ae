---------------------------- MODULE AuthSessions ----------------------------
(***************************************************************************)
(* The refresh sessions of one user: what AuthService and UserService do   *)
(* with the row of the user, the table refresh_sessions and the two Redis  *)
(* structures of RefreshSessionStore (a key per session, a set that        *)
(* indexes them).  A session is named by the request that issues it.       *)
(* Statements between two awaits run with the event loop held; only the    *)
(* Redis calls are awaited.                                                *)
(***************************************************************************)
EXTENDS Naturals, FiniteSets

CONSTANTS
    Logins, Refreshes, Logouts,
    Revocations,  \* logout-all, password change or reset, disabling
    Enablings,    \* the user is enabled again
    Deletions,    \* the user is deleted
    Kind,         \* what a revocation is
    Processes,    \* the API processes
    ProcessOf,    \* the process that serves a request
    Faults,       \* the faults the environment may produce
    NoToken       \* a request that presented no usable token

Sessions == Logins \cup Refreshes
Requests ==
    Sessions \cup Logouts \cup Revocations \cup Enablings \cup Deletions

Kinds       == {"logout_all", "change_password", "reset_password", "disable"}
SelfService == {"logout_all", "change_password"}

ASSUME AuthAssumption ==
    /\ Logins \cap (Refreshes \cup Logouts) = {}
    /\ Refreshes \cap Logouts = {}
    /\ (Sessions \cup Logouts)
          \cap (Revocations \cup Enablings \cup Deletions) = {}
    /\ Revocations \cap (Enablings \cup Deletions) = {}
    /\ Enablings \cap Deletions = {}
    /\ Kind \in [Revocations -> Kinds]
    /\ ProcessOf \in [Requests -> Processes]
    /\ Faults \subseteq {"api_crash", "database", "redis"}
    /\ NoToken \notin Requests

VARIABLES
    user,    \* the row of the user
    row,     \* the committed rows of refresh_sessions: revoked_at set or not
    keys,    \* the sessions whose Redis key exists
    index,   \* the Redis set of the user's sessions
    pc,      \* where a request is; the last position tells its answer
    token,   \* the session whose refresh token a request presents
    found,   \* the sessions a revocation read
    before   \* the requests that had ended when a request began (a history)

storeVars == <<user, row, keys, index>>
vars      == <<user, row, keys, index, pc, token, found, before>>

-----------------------------------------------------------------------------
Answered == {"accepted", "rejected", "aborted"}

HoldsLoop(q) == pc[q] \in {"inserting", "marking", "deleting"}

(* The loop of q's process runs no other handler.                          *)
LoopFree(q) ==
    \A o \in Requests : ProcessOf[o] = ProcessOf[q] => ~HoldsLoop(o)

(* Mutant: a failed request leaves its database session open.              *)
InsertingUntilRestart(q) ==
    /\ q \in Sessions
    /\ pc[q] \in {"saving", "indexing", "saved", "unwinding", "rejected"}

(* An uncommitted insertion holds a share lock on the row of the user.     *)
Inserting(q) ==
    /\ q \in Sessions
    /\ pc[q] \in {"saving", "indexing", "saved", "unwinding"}

Goto(q, position) == pc' = [pc EXCEPT ![q] = position]

Move(q, from, to) == pc[q] = from /\ Goto(q, to)

Begin(q, position) ==
    /\ Move(q, "idle", position)
    /\ LoopFree(q)
    /\ before' = [before EXCEPT ![q] =
                     {o \in Requests : pc[o] \in Answered}]

(* The tokens that some client has received.                               *)
Handed == {j \in Sessions : pc[j] = "accepted"}

-----------------------------------------------------------------------------
(* Login and refresh: a row and a Redis key for the new session.           *)

Login(q) ==
    /\ q \in Logins
    /\ user = "active"
    /\ Begin(q, "inserting")
    /\ UNCHANGED <<storeVars, token, found>>

(* Wrong password, no such user or not an active one, a token that is none *)
(* of the user's, or an account that must not be disabled or deleted.      *)
Refuse(q) ==
    /\ Begin(q, "rejected")
    /\ UNCHANGED <<storeVars, token, found>>

Refresh(q) ==
    /\ q \in Refreshes
    /\ \E j \in Handed : token' = [token EXCEPT ![q] = j]
    /\ Begin(q, IF user = "active" THEN "checking" ELSE "rejected")
    /\ UNCHANGED <<storeVars, found>>

(* The Redis key is read while the handler is suspended.                   *)
CheckKey(q) ==
    /\ Move(q, "checking", IF token[q] \in keys THEN "checked" ELSE "rejected")
    /\ UNCHANGED <<storeVars, token, found, before>>

(* Mutant: the row must exist, revoked_at is not looked at.                *)
CheckRowExistsOnly(q) ==
    /\ q \in Refreshes
    /\ pc[q] = "checked" /\ LoopFree(q)
    /\ Goto(q, IF row[token[q]] # "none" THEN "inserting" ELSE "rejected")
    /\ UNCHANGED <<storeVars, token, found, before>>

CheckRow(q) ==
    /\ q \in Refreshes
    /\ pc[q] = "checked" /\ LoopFree(q)
    /\ Goto(q, IF row[token[q]] = "active" THEN "inserting" ELSE "rejected")
    /\ UNCHANGED <<storeVars, token, found, before>>

(* The flush of issue_token_pair; it fails if the user was deleted.        *)
InsertRow(q) ==
    /\ Move(q, "inserting", IF user = "deleted" THEN "rejected" ELSE "saving")
    /\ UNCHANGED <<storeVars, token, found, before>>

SaveKey(q) ==
    /\ Move(q, "saving", "indexing")
    /\ keys' = keys \cup {q}
    /\ UNCHANGED <<user, row, index, token, found, before>>

IndexKey(q) ==
    /\ Move(q, "indexing", "saved")
    /\ index' = index \cup {q}
    /\ UNCHANGED <<user, row, keys, token, found, before>>

(* A Redis call raises, with or without its effect: nothing is undone in   *)
(* Redis, the transaction is rolled back when the session is closed.       *)
SaveFails(q) ==
    /\ "redis" \in Faults
    /\ \/ /\ Move(q, "saving", "unwinding")
          /\ keys' \in {keys, keys \cup {q}}
          /\ UNCHANGED index
       \/ /\ Move(q, "indexing", "unwinding")
          /\ index' \in {index, index \cup {q}}
          /\ UNCHANGED keys
    /\ UNCHANGED <<user, row, token, found, before>>

CloseSession(q) ==
    /\ LoopFree(q)
    /\ Move(q, "unwinding", "rejected")
    /\ UNCHANGED <<storeVars, token, found, before>>

CommitLogin(q) ==
    /\ q \in Logins
    /\ LoopFree(q)
    /\ Move(q, "saved", "accepted")
    /\ row' = [row EXCEPT ![q] = "active"]
    /\ UNCHANGED <<user, keys, index, token, found, before>>

(* Mutant: the presented session is only taken out of Redis.               *)
CommitRefreshInRedisOnly(q) ==
    /\ q \in Refreshes
    /\ LoopFree(q) /\ Move(q, "saved", "forgetting")
    /\ row' = [row EXCEPT ![q] = "active"]
    /\ UNCHANGED <<user, keys, index, token, found, before>>

(* The new row and revoked_at of the presented one in one transaction.     *)
CommitRefresh(q) ==
    /\ q \in Refreshes
    /\ LoopFree(q) /\ Move(q, "saved", "forgetting")
    /\ row' = [row EXCEPT ![q] = "active", ![token[q]] = "revoked"]
    /\ UNCHANGED <<user, keys, index, token, found, before>>

(* The transaction is rolled back, the new Redis key is to be deleted.     *)
CommitSessionFails(q) ==
    /\ "database" \in Faults
    /\ LoopFree(q)
    /\ Move(q, "saved", "withdrawing")
    /\ UNCHANGED <<storeVars, token, found, before>>

-----------------------------------------------------------------------------
(* RefreshSessionStore.revoke_refresh_session, best effort: two calls, and *)
(* whichever raises ends it without changing the answer.                   *)

(* Mutant: a refresh deletes the key it has just created.                  *)
WithdrawnNew(q) == IF q \in Sessions THEN q ELSE token[q]

Withdrawn(q) == IF pc[q] \in {"withdrawing", "unlisting"} THEN q ELSE token[q]

DeleteKey(q) ==
    /\ \/ Move(q, "withdrawing", "unlisting")
       \/ Move(q, "forgetting", "unindexing")
    /\ keys' = keys \ {Withdrawn(q)}
    /\ UNCHANGED <<user, row, index, token, found, before>>

UnindexKey(q) ==
    /\ \/ Move(q, "unlisting", "rejected")
       \/ Move(q, "unindexing", "accepted")
    /\ index' = index \ {Withdrawn(q)}
    /\ UNCHANGED <<user, row, keys, token, found, before>>

RevokeKeyFails(q) ==
    /\ "redis" \in Faults
    /\ \/ pc[q] \in {"withdrawing", "unlisting"} /\ Goto(q, "rejected")
       \/ pc[q] \in {"forgetting", "unindexing"} /\ Goto(q, "accepted")
    /\ \/ UNCHANGED <<keys, index>>
       \/ /\ pc[q] \in {"withdrawing", "forgetting"}
          /\ keys' = keys \ {Withdrawn(q)}
          /\ UNCHANGED index
       \/ /\ pc[q] \in {"unlisting", "unindexing"}
          /\ index' = index \ {Withdrawn(q)}
          /\ UNCHANGED keys
    /\ UNCHANGED <<user, row, token, found, before>>

-----------------------------------------------------------------------------
Logout(q) ==
    /\ q \in Logouts
    /\ user = "active"
    /\ \E j \in Handed : token' = [token EXCEPT ![q] = j]
    /\ Begin(q, "checking")
    /\ UNCHANGED <<storeVars, found>>

(* Mutant: the session is only taken out of Redis.                         *)
CommitLogoutInRedisOnly(q) ==
    /\ q \in Logouts
    /\ pc[q] = "checked" /\ LoopFree(q)
    /\ Goto(q, IF row[token[q]] = "active" THEN "forgetting" ELSE "rejected")
    /\ UNCHANGED <<storeVars, token, found, before>>

CommitLogout(q) ==
    /\ q \in Logouts
    /\ pc[q] = "checked" /\ LoopFree(q)
    /\ IF row[token[q]] = "active"
       THEN /\ Goto(q, "forgetting")
            /\ row' = [row EXCEPT ![token[q]] = "revoked"]
       ELSE /\ Goto(q, "rejected")
            /\ UNCHANGED row
    /\ UNCHANGED <<user, keys, index, token, found, before>>

(* The Redis read of a refresh or a logout raises, or the commit of a      *)
(* logout fails.                                                           *)
CheckFails(q) ==
    /\ \/ "redis" \in Faults /\ Move(q, "checking", "rejected")
       \/ /\ "database" \in Faults
          /\ q \in Logouts
          /\ LoopFree(q)
          /\ Move(q, "checked", "rejected")
    /\ UNCHANGED <<storeVars, token, found, before>>

-----------------------------------------------------------------------------
(* Revocation of all sessions.  The user of a self-service request was     *)
(* authenticated in a thread of its own before the handler starts.         *)

Revoke(q) ==
    /\ q \in Revocations
    /\ user \in IF Kind[q] \in SelfService THEN {"active"}
                                           ELSE {"active", "disabled"}
    /\ Begin(q, "authenticated")
    /\ UNCHANGED <<storeVars, token, found>>

ReadActiveRows(q) ==
    /\ LoopFree(q)
    /\ Move(q, "authenticated", "marking")
    /\ found' = [found EXCEPT ![q] = {j \in Sessions : row[j] = "active"}]
    /\ UNCHANGED <<storeVars, token, before>>

(* Mutant: disabling does not look at the sessions.                        *)
CommitRevocationUnlessDisable(q) ==
    /\ Move(q, "marking", IF user = "deleted" THEN "rejected" ELSE "listing")
    /\ IF user # "deleted" /\ Kind[q] # "disable"
       THEN row' = [j \in Sessions |->
                       IF j \in found[q] /\ row[j] # "none"
                       THEN "revoked" ELSE row[j]]
       ELSE UNCHANGED row
    /\ user' = IF user = "active" /\ Kind[q] = "disable" THEN "disabled"
                                                         ELSE user
    /\ UNCHANGED <<keys, index, token, found, before>>

CommitRevocation(q) ==
    /\ Move(q, "marking", IF user = "deleted" THEN "rejected" ELSE "listing")
    /\ IF user # "deleted"
       THEN row' = [j \in Sessions |->
                       IF j \in found[q] /\ row[j] # "none"
                       THEN "revoked" ELSE row[j]]
       ELSE UNCHANGED row
    /\ user' = IF user = "active" /\ Kind[q] = "disable" THEN "disabled"
                                                         ELSE user
    /\ UNCHANGED <<keys, index, token, found, before>>

CommitRevocationFails(q) ==
    /\ "database" \in Faults
    /\ Move(q, "marking", "rejected")
    /\ UNCHANGED <<storeVars, token, found, before>>

(* RefreshSessionStore.revoke_all_user_sessions.                           *)
ListKeys(q) ==
    /\ Move(q, "listing", IF index = {} THEN "accepted" ELSE "dropping")
    /\ found' = [found EXCEPT ![q] = index]
    /\ UNCHANGED <<storeVars, token, before>>

DropKeys(q) ==
    /\ Move(q, "dropping", "clearing")
    /\ keys' = keys \ found[q]
    /\ UNCHANGED <<user, row, index, token, found, before>>

DropIndex(q) ==
    /\ Move(q, "clearing", "accepted")
    /\ index' = {}
    /\ UNCHANGED <<user, row, keys, token, found, before>>

DropFails(q) ==
    /\ "redis" \in Faults
    /\ pc[q] \in {"listing", "dropping", "clearing"}
    /\ Goto(q, "accepted")
    /\ \/ UNCHANGED <<keys, index>>
       \/ pc[q] = "dropping" /\ keys' = keys \ found[q] /\ UNCHANGED index
       \/ pc[q] = "clearing" /\ index' = {} /\ UNCHANGED keys
    /\ UNCHANGED <<user, row, token, found, before>>

Enable(q) ==
    /\ q \in Enablings
    /\ user # "deleted"
    /\ Begin(q, "accepted")
    /\ user' = "active"
    /\ UNCHANGED <<row, keys, index, token, found>>

Delete(q) ==
    /\ q \in Deletions
    /\ user # "deleted"
    /\ Begin(q, "deleting")
    /\ UNCHANGED <<storeVars, token, found>>

(* DELETE waits for the share locks of uncommitted insertions; the loop of *)
(* the process waits with it.                                              *)
DeleteUser(q) ==
    /\ Move(q, "deleting", "listing")
    /\ \A o \in Requests : ~Inserting(o)
    /\ user' = "deleted"
    /\ row' = [j \in Sessions |-> "none"]
    /\ UNCHANGED <<keys, index, token, found, before>>

-----------------------------------------------------------------------------
(* A process dies: its requests end without an answer, its transactions    *)
(* are rolled back.                                                        *)
ApiCrash(p) ==
    LET dying == {q \in Requests : /\ ProcessOf[q] = p
                                   /\ pc[q] \notin Answered \cup {"idle"}}
    IN  /\ "api_crash" \in Faults
        /\ dying # {}
        /\ pc' = [q \in Requests |-> IF q \in dying THEN "aborted" ELSE pc[q]]
        /\ UNCHANGED <<storeVars, token, found, before>>

Init ==
    /\ user = "active"
    /\ row = [j \in Sessions |-> "none"]
    /\ keys = {} /\ index = {}
    /\ pc = [q \in Requests |-> "idle"]
    /\ token = [q \in Requests |-> NoToken]
    /\ found = [q \in Requests |-> {}]
    /\ before = [q \in Requests |-> {}]

Arrive(q) ==
    \/ Login(q) \/ Refuse(q) \/ Refresh(q) \/ Logout(q)
    \/ Revoke(q) \/ Enable(q) \/ Delete(q)

RequestStep(q) ==
    \/ CheckKey(q) \/ CheckRow(q) \/ InsertRow(q)
    \/ SaveKey(q) \/ IndexKey(q) \/ SaveFails(q) \/ CloseSession(q)
    \/ CommitLogin(q) \/ CommitRefresh(q) \/ CommitSessionFails(q)
    \/ DeleteKey(q) \/ UnindexKey(q) \/ RevokeKeyFails(q)
    \/ CommitLogout(q) \/ CheckFails(q)
    \/ ReadActiveRows(q) \/ CommitRevocation(q) \/ CommitRevocationFails(q)
    \/ ListKeys(q) \/ DropKeys(q) \/ DropIndex(q) \/ DropFails(q)
    \/ DeleteUser(q)

Next ==
    \/ \E q \in Requests : Arrive(q) \/ RequestStep(q)
    \/ \E p \in Processes : ApiCrash(p)

Spec == Init /\ [][Next]_vars

(* Redis and the database answer and the event loop runs what is ready;    *)
(* requests need not arrive.                                               *)
FairSpec == Spec /\ \A q \in Requests : WF_vars(RequestStep(q))

-----------------------------------------------------------------------------
Positions ==
    {"idle", "checking", "checked", "inserting", "saving", "indexing",
     "saved", "unwinding", "withdrawing", "unlisting", "forgetting",
     "unindexing", "authenticated", "marking", "listing", "dropping",
     "clearing", "deleting"} \cup Answered

TypeOK ==
    /\ user \in {"active", "disabled", "deleted"}
    /\ row \in [Sessions -> {"none", "active", "revoked"}]
    /\ keys \subseteq Sessions /\ index \subseteq Sessions
    /\ pc \in [Requests -> Positions]
    /\ token \in [Requests -> Sessions \cup {NoToken}]
    /\ found \in [Requests -> SUBSET Sessions]
    /\ before \in [Requests -> SUBSET Requests]

Succeeded(q) == pc[q] = "accepted"

(* A refresh was accepted although o had been answered before it began.    *)
RefreshedAfter(q, o) ==
    q \in Refreshes /\ Succeeded(q) /\ Succeeded(o) /\ o \in before[q]

(***************************************************************************)
(* Once a logout was answered, no later refresh with its token succeeds,   *)
(* whatever happens to the deletion of the Redis key (AuthService.logout). *)
(***************************************************************************)
LogoutIsFinal ==
    \A q \in Refreshes, o \in Logouts :
        RefreshedAfter(q, o) => token[q] # token[o]

(***************************************************************************)
(* A refresh token that was exchanged cannot be exchanged again by a       *)
(* request that begins later (AuthService.refresh).                        *)
(***************************************************************************)
RotationIsFinal ==
    \A q, o \in Refreshes : RefreshedAfter(q, o) => token[q] # token[o]

(***************************************************************************)
(* After a logout-all, a new password or a disabling was answered, also if *)
(* the user is enabled again, no refresh succeeds with a token that had    *)
(* been handed out before that request began, under every fault of Redis   *)
(* and whatever other sessions are issued at the same time.                *)
(***************************************************************************)
RevocationIsFinal ==
    \A q \in Refreshes, o \in Revocations :
        RefreshedAfter(q, o) => token[q] \notin before[o]

(***************************************************************************)
(* A session that was handed out is good in both stores unless a request   *)
(* that was not over when the session's own request began uses up its      *)
(* token or ends all sessions: a login is never undone by a logout-all     *)
(* that had been answered before, nor by the clean-up of another session   *)
(* (RefreshSessionStore.revoke_all_user_sessions reads the index, deletes  *)
(* the keys and drops the index in three calls).                           *)
(***************************************************************************)
Ends(o, j) == \/ o \in Revocations \cup Deletions
              \/ o \in Refreshes \cup Logouts /\ token[o] = j

IsEnded(j) ==
    \E o \in Requests : pc[o] # "idle" /\ o \notin before[j] /\ Ends(o, j)

SessionsLast ==
    \A j \in Handed :
        (row[j] = "active" /\ j \in keys) \/ IsEnded(j)

(***************************************************************************)
(* Every request is answered: no handler waits forever.                    *)
(***************************************************************************)
EveryAuthRequestAnswered ==
    \A q \in Requests : pc[q] # "idle" ~> pc[q] \in Answered

-----------------------------------------------------------------------------
(* Why a token that was used up or revoked stays dead: the steps of an     *)
(* inductive invariant.                                                    *)

Issuing  == {"inserting", "saving", "indexing", "saved", "unwinding",
             "withdrawing", "unlisting"}
Retiring == {"forgetting", "unindexing"}
Dropping == {"listing", "dropping", "clearing"}

PositionsFit ==
    /\ \A q \in Logins : pc[q] \in {"idle"} \cup Issuing \cup Answered
    /\ \A q \in Refreshes :
          pc[q] \in {"idle", "checking", "checked"} \cup Issuing
                      \cup Retiring \cup Answered
    /\ \A q \in Logouts :
          pc[q] \in {"idle", "checking", "checked"} \cup Retiring \cup Answered
    /\ \A q \in Revocations :
          pc[q] \in {"idle", "authenticated", "marking"} \cup Dropping
                      \cup Answered
    /\ \A q \in Enablings : pc[q] \in {"idle"} \cup Answered
    /\ \A q \in Deletions :
          pc[q] \in {"idle", "deleting"} \cup Dropping \cup Answered

TokensAreHanded ==
    \A q \in Refreshes \cup Logouts :
        pc[q] \notin {"idle", "rejected"} => token[q] \in Handed

EndedStaysEnded ==
    \A q \in Requests : \A o \in before[q] : pc[o] \in Answered

(* A row appears with the commit of the request that issues it.            *)
RowsAreIssued ==
    \A j \in Sessions :
        row[j] # "none" => pc[j] \in Retiring \cup {"accepted", "aborted"}

UsedTokensAreDead ==
    \A o \in Refreshes \cup Logouts :
        pc[o] \in Retiring \cup {"accepted"} => row[token[o]] # "active"

(* What was handed out before a revocation is read by it or dead already.  *)
RevocationsReach ==
    \A o \in Revocations : \A j \in before[o] \cap Handed :
        row[j] = "active" =>
            /\ pc[o] \notin Dropping \cup {"accepted"}
            /\ pc[o] = "marking" => j \in found[o]

DeadTokensStayOut ==
    \A q \in Refreshes : \A o \in before[q] :
        pc[q] \in Issuing \cup Retiring \cup {"accepted"} /\ Succeeded(o)
        => /\ o \in Refreshes \cup Logouts => token[q] # token[o]
           /\ o \in Revocations => token[q] \notin before[o]

(***************************************************************************)
(* The inductive invariant: a row that was answered never becomes active   *)
(* again, so the check of the row tells a refresh all that ended before.   *)
(***************************************************************************)
AuthInvariant ==
    /\ TypeOK
    /\ PositionsFit
    /\ TokensAreHanded
    /\ EndedStaysEnded
    /\ RowsAreIssued
    /\ UsedTokensAreDead
    /\ RevocationsReach
    /\ DeadTokensStayOut

(***************************************************************************)
(* Why a session lasts: its key is there from the moment it was saved and  *)
(* its row from the moment it was committed, unless a request that was not *)
(* over when its own began ends it.                                        *)
(***************************************************************************)
Saved == {"indexing", "saved", "accepted"} \cup Retiring

SessionsAreKept ==
    \A j \in Sessions :
        /\ pc[j] \in Saved => j \in keys \/ IsEnded(j)
        /\ pc[j] \in Retiring \cup {"accepted"} => row[j] = "active" \/ IsEnded(j)
=============================================================================
