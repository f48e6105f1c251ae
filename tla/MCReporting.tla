----------------------------- MODULE MCReporting -----------------------------
(* Instances of Reporting for TLC: scenes of one or two parts each.         *)
EXTENDS Reporting, TLC

CONSTANTS c1, i1, i2, main, dev, here, there, bot, dingtalk, wecom, extra

ChannelOrder == <<dingtalk, wecom, extra>>

(* Sunday 23:58 to Monday 0:03, the fourth and fifth of a month, in a zone *)
(* where a day of UTC ends at one minute past midnight.                    *)
Midnight ==
    [m \in 0 .. 5 |->
        IF m < 2 THEN [minute |-> 58 + m, hour |-> 23, day |-> 4, month |-> 5, weekday |-> 6]
        ELSE [minute |-> m - 2, hour |-> 0, day |-> 5, month |-> 5, weekday |-> 0]]

Days == [m \in 0 .. 5 |-> IF m < 3 THEN 1 ELSE 2]

All == {[kind |-> "all"]}
At(values) == {[kind |-> "value", is |-> v] : v \in values}
Every(n) == {[kind |-> "every", step |-> n]}
From(a, b) == {[kind |-> "range", from |-> a, to |-> b]}

Cron(minute, hour, weekday) ==
    [minute |-> minute, hour |-> hour, day |-> All, month |-> All, weekday |-> weekday]

Never == Cron(At({30}), At({12}), All)

Project(name, repo) ==
    [platform |-> "gitlab", name |-> name, key |-> name, url |-> repo, path |-> None,
     external |-> None, active |-> TRUE, enabled |-> TRUE, protected |-> {},
     default |-> main, bot |-> None]

Budget ==
    [moves |-> 0, again |-> 0, work |-> 0, edits |-> 0, imports |-> 0, ticks |-> 0, starts |-> 0,
     stops |-> 0]

Quiet ==
    [projects |-> <<Project("one", here)>>, records |-> <<>>,
     platform |-> "gitlab", repository |-> [url |-> here, path |-> here, external |-> here],
     onlyProtected |-> FALSE, protected |-> {main}, drafts |-> {"no"}, targets |-> {main},
     newProjects |-> {}, switched |-> {}, deleted |-> {},
     sources |-> <<>>, leftOut |-> {}, pageSize |-> 1, answersGetLost |-> FALSE,
     schedule |-> Never, expected |-> {}, day |-> Days,
     enabled |-> {dingtalk, extra}, scoped |-> [k \in {"one", "two", "three"} |-> {}],
     failing |-> FALSE, left |-> Budget]

-----------------------------------------------------------------------------
OnPlatform(s, platform) ==
    [s EXCEPT !.platform = platform, !.projects = [p \in DOMAIN @ |-> [@[p] EXCEPT !.platform = platform]]]

(* A change request becomes a draft and none, moves between branches,      *)
(* closes and opens, with and without the policy of protected branches.    *)
DraftScene ==
    [Quiet EXCEPT !.drafts = {"no", "draft", "wip"}, !.left.moves = 3, !.left.again = 1,
                  !.left.work = 1]

TargetScene ==
    [Quiet EXCEPT !.onlyProtected = TRUE, !.targets = {main, dev}, !.left.moves = 3,
                  !.left.again = 1, !.left.work = 1]

(* More moves whose webhooks arrive once each.                             *)
LongScenes ==
    {[s EXCEPT !.left.moves = 4, !.left.again = 0, !.left.work = 0] :
        s \in {DraftScene, TargetScene}}

(* The project is told by its path, is switched off and on, and another of *)
(* the same repository appears.                                            *)
OnDev(name) == [Project(name, there) EXCEPT !.protected = {dev}]

SwitchScene ==
    [Quiet EXCEPT !.projects = <<[OnDev("one") EXCEPT !.path = here],
                                 [OnDev("two") EXCEPT !.external = here, !.active = FALSE]>>,
                  !.onlyProtected = TRUE, !.protected = {dev}, !.targets = {dev},
                  !.switched = {1, 2}, !.deleted = {1}, !.newProjects = {[OnDev("three") EXCEPT !.path = here]},
                  !.left.edits = 2, !.left.moves = 2, !.left.again = 1, !.left.work = 1]

-----------------------------------------------------------------------------
Source(id, name, at) == [id |-> id, name |-> name, text |-> 1, at |-> at]

ThreeSources == <<Source("mr:1", "one", 0), Source("push:1", "two", None),
                  Source("push:2", "three", 0)>>

ImportScene ==
    [Quiet EXCEPT !.projects = <<Project("one", here), Project("two", there)>>,
                  !.sources = ThreeSources, !.switched = {1, 2}, !.deleted = {1},
                  !.newProjects = {[Project("two", there) EXCEPT !.key = "three"],
                                   Project("three", there)},
                  !.answersGetLost = TRUE, !.left.imports = 3, !.left.edits = 2]

LeftOutScene == [ImportScene EXCEPT !.leftOut = {"two"}, !.pageSize = 2, !.left.imports = 2]

-----------------------------------------------------------------------------
Reviewed(event, text, at) ==
    [project |-> 1, event |-> <<"import", event>>, subject |-> None, text |-> text,
     status |-> "reviewed", updated |-> at, notice |-> None]

ReportScene(schedule, expected) ==
    [Quiet EXCEPT !.records = <<Reviewed("mr:1", 1, 0), Reviewed("mr:2", 1, 0),
                                Reviewed("mr:3", 2, 8)>>,
                  !.schedule = schedule, !.expected = expected, !.failing = TRUE,
                  !.left.ticks = 11, !.left.starts = 2, !.left.stops = 1]

(* Working days; every other minute; two minutes of one hour.              *)
Schedules ==
    {ReportScene(Cron(At({0, 2}), At({0}), From(1, 5)), {2, 4}),
     ReportScene(Cron(Every(2), All, All), {0, 2, 4}),
     ReportScene(Cron(From(58, 59), At({23}), At({0})), {0, 1}),
     ReportScene(Cron(All, All, At({2})), {})}

(* Reviews come in, are told of and reported on.                           *)
WholeScene ==
    [Quiet EXCEPT !.projects = <<[Project("one", here) EXCEPT !.bot = bot], Project("two", there)>>,
                  !.scoped["two"] = {wecom},
                  !.sources = <<Source("mr:1", "two", None)>>,
                  !.schedule = Cron(All, All, All), !.expected = 0 .. 5, !.failing = TRUE,
                  !.left.moves = 1, !.left.work = 2, !.left.imports = 1, !.left.ticks = 3,
                  !.left.starts = 1]

SomeScenes ==
    {OnPlatform(s, platform) : s \in {DraftScene, TargetScene, SwitchScene} \cup LongScenes,
                               platform \in {"github", "gitlab"}}
        \cup {ImportScene, LeftOutScene, WholeScene} \cup Schedules
=============================================================================
