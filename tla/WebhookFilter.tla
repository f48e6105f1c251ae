---------------------------- MODULE WebhookFilter ----------------------------
(***************************************************************************)
(* Change requests of a platform, the webhooks that tell of them and what  *)
(* the filter makes of each: which project it is for, whether it is worth  *)
(* a review, whether there is a record of it.  Webhooks arrive in any      *)
(* order and may arrive again.  A delivery is one step: what happens while *)
(* it awaits the queue is the subject of ReviewIntake.                     *)
(***************************************************************************)
EXTENDS ReviewTable

CONSTANT Changes  \* merge requests of GitLab, pull requests of GitHub

VARIABLES
    changes,  \* the change requests on the platform
    sent,     \* the webhooks, in the order of their ids
    arrived,  \* those that were delivered at least once
    refused,  \* those that met no project that could take them
    ready,    \* the heads that were, at some time, fit for a review
    due       \* the heads the platform announced as such

webhookVars == <<changes, sent, arrived, refused, ready, due>>

-----------------------------------------------------------------------------
(* The platform.                                                           *)

Action ==
    [github |-> [open |-> "opened", push |-> "synchronize", edit |-> "edited",
                 close |-> "closed", reopen |-> "reopened"],
     gitlab |-> [open |-> "open", push |-> "update", edit |-> "update",
                 close |-> "close", reopen |-> "reopen"]]

NoChange == [open |-> FALSE, draft |-> "no", target |-> None, head |-> None]

(* A review is worth while on a change request that is no draft, has a     *)
(* commit, and wants to go where the project is looked after.              *)
IsReady(change) ==
    /\ change.draft = "no" /\ change.head # None
    /\ scene.onlyProtected => change.target \in scene.protected

(* The moves after which the webhook carries an action that the filter     *)
(* supports.                                                               *)
Announcing == [github |-> {"open", "push"}, gitlab |-> {"open", "push", "edit"}]

Note(c, move, change) ==
    [kind |-> "change", action |-> Action[scene.platform][move], change |-> c,
     head |-> change.head, draft |-> change.draft, target |-> change.target]

Changed(c, move, change, more) ==
    LET heads == IF IsReady(change) THEN {<<c, change.head>>} ELSE {}
    IN  /\ changes' = [changes EXCEPT ![c] = change]
        /\ sent' = sent \o <<Note(c, move, change)>> \o more
        /\ ready' = ready \cup heads
        /\ due' = IF move \in Announcing[scene.platform] THEN due \cup heads ELSE due

Pushed(c, head) ==
    [kind |-> "push", action |-> "push", change |-> c, head |-> head, draft |-> "no",
     target |-> None]

(* A change request may be opened on a branch that has no commit yet.      *)
Open(c) ==
    /\ changes[c] = NoChange
    /\ \E draft \in scene.drafts, target \in scene.targets, head \in {None, 1} :
          Changed(c, "open", [open |-> TRUE, draft |-> draft, target |-> target,
                              head |-> head], <<>>)

Push(c) ==
    LET head == IF changes[c].head = None THEN 1 ELSE changes[c].head + 1
    IN  /\ changes[c].open
        /\ Changed(c, "push", [changes[c] EXCEPT !.head = head], <<Pushed(c, head)>>)

(* The draft mark, the title or the target changes; also when it is closed.*)
Edit(c) ==
    /\ changes[c] # NoChange
    /\ \E draft \in scene.drafts, target \in scene.targets :
          /\ <<draft, target>> # <<changes[c].draft, changes[c].target>>
          /\ Changed(c, "edit", [changes[c] EXCEPT !.draft = draft, !.target = target],
                     <<>>)

Close(c) ==
    /\ changes[c].open
    /\ Changed(c, "close", [changes[c] EXCEPT !.open = FALSE], <<>>)

Reopen(c) ==
    /\ changes[c] # NoChange /\ ~changes[c].open
    /\ Changed(c, "reopen", [changes[c] EXCEPT !.open = TRUE], <<>>)

(* Somebody comments: a webhook of a kind that parse_webhook refuses.      *)
Comment(c) ==
    /\ changes[c].open
    /\ sent' = Append(sent, [Pushed(c, None) EXCEPT !.kind = "note"])
    /\ UNCHANGED <<changes, ready, due>>

PlatformMove(c) ==
    /\ May("moves") /\ Spend("moves")
    /\ Open(c) \/ Push(c) \/ Edit(c) \/ Close(c) \/ Reopen(c) \/ Comment(c)
    /\ UNCHANGED <<projects, records, now, arrived, refused>>

-----------------------------------------------------------------------------
(* The filter.                                                             *)

Parses(e) == e.kind \in {"change", "push"}

(* A project is found by its URL, else by the name in its settings, else   *)
(* by the id in its settings; two that match alike are a conflict.         *)
Matching(field) ==
    {p \in Existing(projects) :
        /\ projects[p].active /\ projects[p].platform = scene.platform
        /\ projects[p][field] = scene.repository[field]}

Ambiguous ==
    \/ Cardinality(Matching("url")) > 1
    \/ Cardinality(Matching("path")) > 1
    \/ /\ Matching("url") = {} /\ Matching("path") = {}
       /\ Cardinality(Matching("external")) > 1

Located ==
    IF Matching("url") # {} THEN Matching("url")
    ELSE IF Matching("path") # {} THEN Matching("path")
    ELSE Matching("external")

HasRequiredFields(e) ==
    e.head # None /\ (e.kind = "change" => e.target # None)

IsSupported(e) ==
    \/ e.kind = "push"
    \/ scene.platform = "gitlab" /\ e.action \in {"open", "update"}
    \/ scene.platform = "github" /\ e.action \in {"opened", "synchronize"}

IsDraftOrWip(e) == e.draft # "no"

ProtectedBy(row) == IF row.protected # {} THEN row.protected ELSE {row.default}

MatchesTargetPolicy(p, e) ==
    scene.onlyProtected => e.target \in ProtectedBy(projects[p])

IsWanted(p, e) ==
    /\ HasRequiredFields(e)
    /\ IsSupported(e)
    /\ e.kind = "change" => ~IsDraftOrWip(e) /\ MatchesTargetPolicy(p, e)

Subject(e) == <<e.kind, e.change, e.head>>

(* Mutant: only the webhook's id is looked for.                            *)
FoundById(p, id) == OfEvent(p, <<"webhook", id>>)

(* The webhook's id first, then the change request or branch with the      *)
(* commit.                                                                 *)
Found(p, id) ==
    IF OfEvent(p, <<"webhook", id>>) # {} THEN OfEvent(p, <<"webhook", id>>)
    ELSE OfSubject(p, Subject(sent[id]))

(* A record that failed is queued again, any other is a duplicate.         *)
Ingest(p, id) ==
    LET found == Found(p, id) IN
    \/ /\ found = {}
       /\ Insert(NewRecord(p, <<"webhook", id>>, Subject(sent[id]), sent[id].head,
                           "queued", now))
    \/ \E r \in found :
          IF records[r].status = "failed"
          THEN Set(r, [records[r] EXCEPT !.status = "queued"])
          ELSE UNCHANGED records

TakesNothing(id) ==
    \/ Ambiguous \/ Located = {}
    \/ \E p \in Located : ~projects[p].enabled

Receive(id) ==
    LET e == sent[id] IN
    /\ arrived' = arrived \cup {id}
    /\ refused' = IF TakesNothing(id) THEN refused \cup {id} ELSE refused
    /\ \/ /\ ~Parses(e) \/ TakesNothing(id) \/ \E p \in Located : ~IsWanted(p, e)
          /\ UNCHANGED records
       \/ /\ Parses(e) /\ ~TakesNothing(id)
          /\ \E p \in Located : IsWanted(p, e) /\ Ingest(p, id)
    /\ UNCHANGED <<projects, now, changes, sent, ready, due>>

Deliver(id) == id \notin arrived /\ Receive(id) /\ UNCHANGED scene

Redeliver(id) == id \in arrived /\ May("again") /\ Spend("again") /\ Receive(id)

WebhookStep ==
    \/ \E c \in Changes : PlatformMove(c)
    \/ \E id \in DOMAIN sent : Deliver(id) \/ Redeliver(id)

(* History: what was deleted is due no longer.                             *)
Reviewing(h) == {r \in Existing(records) : records[r].subject = <<"change", h[1], h[2]>>}

WatchRecords ==
    due' = {h \in due : Reviewing(h) \subseteq Existing(records')}

WebhookInit ==
    /\ changes = [c \in Changes |-> NoChange]
    /\ sent = <<>> /\ arrived = {} /\ refused = {} /\ ready = {} /\ due = {}
=============================================================================
