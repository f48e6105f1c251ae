---------------------------- MODULE ReportWorker ----------------------------
(***************************************************************************)
(* workers/report_worker.py with the report it sends, and the notices that *)
(* a review worker sends of each review: who hears of a review, and when.  *)
(* A day has its minutes, the worker looks at the clock every half minute. *)
(***************************************************************************)
EXTENDS ReviewTable

CONSTANTS
    Channels,  \* what send_env_fallback goes through, in this order
    Calendar   \* the local date of a minute, as datetime tells it

ASSUME ChannelAssumption == Channels \in Seq(Range(Channels)) /\ IsInjective(Channels)

VARIABLES
    reporter,  \* where the worker is
    tried,     \* the attempts to tell a channel of something
    repeated,  \* those that were made more than once
    looked,    \* the scheduled minutes that the worker has served
    excused    \* the minutes it spent off duty or on a report

reportVars == <<reporter, tried, repeated, looked, excused>>

-----------------------------------------------------------------------------
Minute(t) == t \div 2

(* "key" is last_run_key, "at" the time of the last look, "minute" that of *)
(* the report and "next" the channel it goes to next; "life" counts the    *)
(* starts.                                                                 *)
OffDuty(life) ==
    [phase |-> "off", life |-> life, at |-> 0, key |-> None, minute |-> 0, next |-> 1,
     failed |-> FALSE]

(* An expression of crontab is its parts: all, every, range, value.        *)
MatchesPart(value, part) ==
    \/ part.kind = "all"
    \/ part.kind = "every" /\ value % part.step = 0
    \/ part.kind = "range" /\ value \in part.from .. part.to
    \/ part.kind = "value" /\ value = part.is

Matches(value, parts) == \E part \in parts : MatchesPart(value, part)

(* Python counts from Monday, crontab from Sunday.                         *)
CronWeekday(date) == (date.weekday + 1) % 7

IsScheduled(minute) ==
    LET date == Calendar[minute]
        cron == scene.schedule
    IN  /\ Matches(date.minute, cron.minute) /\ Matches(date.hour, cron.hour)
        /\ Matches(date.day, cron.day) /\ Matches(date.month, cron.month)
        /\ Matches(CronWeekday(date), cron.weekday)

(* The reviews that were finished on the present day of UTC; of those with *)
(* one author and the same commits the oldest stands for all.              *)
OfToday ==
    {r \in Existing(records) :
        records[r].status = "reviewed"
            /\ scene.day[Minute(records[r].updated)] = scene.day[Minute(now)]}

ReportRows ==
    {r \in OfToday :
        \A s \in OfToday :
            records[s].text = records[r].text =>
                \/ records[r].updated < records[s].updated
                \/ records[r].updated = records[s].updated /\ r <= s}

AboutReport == <<"report", reporter.life, reporter.minute>>

AllTried == reporter.next > Len(Channels)

Attempts(what, channels) == {[what |-> what, channel |-> c] : c \in channels}

Try(attempts) ==
    /\ tried' = tried \cup attempts
    /\ repeated' = repeated \cup (tried \cap attempts)

-----------------------------------------------------------------------------
(* Mutant: the worker rests for a minute and more.                         *)
RestsLonger == reporter.phase = "asleep" /\ now < reporter.at + 3

(* sleep(30): the worker looks again a half minute later, or, as the time  *)
(* it needs adds up, one half later still.                                 *)
MayRest == reporter.phase = "asleep" /\ now < reporter.at + 2

(* Time passes unless the worker is up to look at the clock.               *)
Tick ==
    /\ May("ticks") /\ Spend("ticks")
    /\ reporter.phase \in {"off", "sending"} \/ MayRest
    /\ now' = now + 1
    /\ excused' = IF reporter.phase \in {"off", "sending"} THEN excused \cup {Minute(now)}
                  ELSE excused
    /\ UNCHANGED <<projects, records, reporter, tried, repeated, looked>>

Start ==
    /\ May("starts") /\ Spend("starts")
    /\ reporter.phase = "off"
    /\ reporter' = [OffDuty(reporter.life + 1) EXCEPT !.phase = "up"]
    /\ UNCHANGED <<projects, records, now, tried, repeated, looked, excused>>

Wake ==
    /\ reporter.phase = "asleep" /\ now > reporter.at
    /\ reporter' = [reporter EXCEPT !.phase = "up"]
    /\ UNCHANGED <<tableVars, tried, repeated, looked, excused>>

IsDue == Minute(now) # reporter.key /\ IsScheduled(Minute(now))

SleepOn(key) ==
    reporter' = [reporter EXCEPT !.phase = "asleep", !.at = now, !.key = key,
                                 !.minute = 0, !.next = 1]

LookAway ==
    /\ reporter.phase = "up" /\ ~IsDue
    /\ SleepOn(reporter.key)
    /\ UNCHANGED <<tableVars, tried, repeated, looked, excused>>

(* A day without reviews has no report; else the model words it, or fails  *)
(* and takes the worker with it.                                           *)
LookAndReport ==
    /\ reporter.phase = "up" /\ IsDue
    /\ looked' = looked \cup {Minute(now)}
    /\ \/ ReportRows = {} /\ SleepOn(Minute(now))
       \/ /\ ReportRows # {}
          /\ reporter' = [reporter EXCEPT !.phase = "sending", !.minute = Minute(now)]
       \/ /\ ReportRows # {} /\ scene.failing
          /\ reporter' = OffDuty(reporter.life)
    /\ UNCHANGED <<tableVars, tried, repeated, excused>>

(* A channel that is set up gets the report or raises; the next one is     *)
(* tried all the same.                                                     *)
SendReport ==
    LET channel == Channels[reporter.next] IN
    /\ reporter.phase = "sending" /\ ~AllTried
    /\ \/ /\ channel \in scene.enabled
          /\ Try(Attempts(AboutReport, {channel}))
          /\ \E failed \in {reporter.failed} \cup IF scene.failing THEN {TRUE} ELSE {} :
                reporter' = [reporter EXCEPT !.next = @ + 1, !.failed = failed]
       \/ /\ channel \notin scene.enabled
          /\ reporter' = [reporter EXCEPT !.next = @ + 1]
          /\ UNCHANGED <<tried, repeated>>
    /\ UNCHANGED <<tableVars, looked, excused>>

(* Mutant: the key of the minute is forgotten.                             *)
FinishForgetful ==
    /\ reporter.phase = "sending" /\ AllTried
    /\ excused' = excused \cup {Minute(now)}
    /\ IF reporter.failed THEN reporter' = OffDuty(reporter.life) ELSE SleepOn(None)
    /\ UNCHANGED <<tableVars, tried, repeated, looked>>

(* Errors are raised together and end the loop of the worker.              *)
FinishReport ==
    /\ reporter.phase = "sending" /\ AllTried
    /\ excused' = excused \cup {Minute(now)}
    /\ IF reporter.failed THEN reporter' = OffDuty(reporter.life)
       ELSE SleepOn(reporter.minute)
    /\ UNCHANGED <<tableVars, tried, repeated, looked>>

Stop ==
    /\ reporter.phase # "off" /\ May("stops") /\ Spend("stops")
    /\ reporter' = OffDuty(reporter.life)
    /\ UNCHANGED <<projects, records, now, tried, repeated, looked, excused>>

-----------------------------------------------------------------------------
(* Notices of single reviews.                                              *)

(* The bot of the project alone, if it has one, else the channels of the   *)
(* environment that have an address for the project or for everybody.      *)
Targets(p) ==
    IF projects[p].bot # None THEN {projects[p].bot}
    ELSE Range(Channels) \cap (scene.enabled \cup scene.scoped[projects[p].key])

Notify(r) ==
    /\ May("work") /\ Spend("work")
    /\ r \in Existing(records)
    /\ records[r].status = "reviewed" /\ records[r].event[1] = "webhook"
    /\ records[r].notice = None
    /\ \E notice \in IF scene.failing THEN {"sent", "failed"} ELSE {"sent"} :
          Set(r, [records[r] EXCEPT !.notice = notice])
    /\ Try(Attempts(<<"notice", r>>, Targets(records[r].project)))
    /\ UNCHANGED <<projects, now, reporter, looked, excused>>

ReportStep ==
    \/ Tick \/ Start \/ Wake \/ LookAway \/ LookAndReport \/ SendReport \/ FinishReport
    \/ Stop
    \/ \E r \in DOMAIN records : Notify(r)

ReportInit ==
    /\ reporter = OffDuty(0)
    /\ tried = {} /\ repeated = {} /\ looked = {} /\ excused = {}
=============================================================================
