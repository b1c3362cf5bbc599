----------------------------- MODULE PortalAlarms -----------------------------
(***************************************************************************)
(* The alarm notifications of the dashboard (NETDATA.alarms,               *)
(* portal/dashboard.js 6496-6821): every 10 s the page asks the server for *)
(* the raised alarms; when the server has logged more than the page has    *)
(* notified of, the page asks for the log after the last entry it knows    *)
(* and raises a desktop notification for the entries worth one, 500 ms     *)
(* apart.  The id of the last entry is kept in localStorage, so that a     *)
(* reloaded page goes on from there.                                       *)
(*                                                                         *)
(* The answers to two log requests may overtake each other: nothing stops  *)
(* the next poll while an answer is outstanding.  Time is counted in half  *)
(* seconds.                                                                *)
(***************************************************************************)
EXTENDS Integers, Sequences, FiniteSets, FiniteSetsExt

CONSTANTS AlarmIds,        \* the alarms of the server
          LogLength,       \* how many entries the server logs, at most
          PollEvery,       \* half seconds between two polls (the code has 20)
          LogRequests,     \* how many log requests are outstanding, at most
          AlarmReloads,    \* how often the page is reloaded, at most
          AlarmFaults      \* how many requests fail, at most

ASSUME AlarmAssumption == LogLength \in Nat /\ PollEvery \in Nat
                           /\ AlarmReloads \in Nat /\ AlarmFaults \in Nat

VARIABLE al

\* "QUIET" is CLEAR with the flag no_clear_notification; CRITICAL stands for
\* WARNING too.
AlarmStatuses == {"CRITICAL", "CLEAR", "QUIET", "REMOVED"}

NoPoll == -1

NotAsked == -1

\* Mutant: the saved id is not read.
Mut_AlarmPage(saved, grant, len) ==
    [last |-> 0, first |-> 0, granted |-> grant, asked |-> len, poll |-> NoPoll,
     logs |-> <<>>, timers |-> {}, stopped |-> FALSE]

\* What the script sets up (6496-6514), and init() (6800-6820): the id of the
\* last notification comes from localStorage, the first poll starts.  `asked`
\* is the length the server's log had when the outstanding poll was sent, `logs`
\* are the outstanding log requests, `timers` the notifications to show.
AlarmPage(saved, grant, len) ==
    [last |-> saved, first |-> 0, granted |-> grant, asked |-> len, poll |-> NoPoll,
     logs |-> <<>>, timers |-> {}, stopped |-> FALSE]

\* `log` is the server's log: entry i has the unique_id i.  `saved` is the value
\* in localStorage.  The rest is history: `raised` counts the notifications set
\* up for every entry, `shown` are the entries shown, `lost`
\* the entries whose notification died with the page, `overlap` whether two log
\* requests were ever outstanding together.
AlarmInit ==
    \E grant \in BOOLEAN :
        al = [page |-> AlarmPage(0, grant, 0), log |-> <<>>, saved |-> 0,
              raised |-> [i \in 1..LogLength |-> 0], shown |-> {},
              lost |-> {}, overlap |-> FALSE, reloads |-> AlarmReloads, faults |-> AlarmFaults]

\* The status an alarm had before entry i.
OldStatus(log, i) ==
    LET before == {j \in 1..(i - 1) : log[j].alarm = log[i].alarm}
    IN  IF before = {} THEN "UNINITIALIZED" ELSE log[Max(before)].status

\* The server flags an entry when a later one is about the same alarm.
Superseded(log, i) == \E j \in (i + 1)..Len(log) : log[j].alarm = log[i].alarm

\* notify(): the entries a notification is shown for.  `log` is the log as it
\* was when the server answered.
Notifies(log, i, first) ==
    /\ ~ Superseded(log, i)
    /\ log[i].status \in {"CRITICAL", "CLEAR"}
    /\ log[i].status = "CLEAR" => i >= first /\ OldStatus(log, i) # "UNINITIALIZED"

-----------------------------------------------------------------------------
\* The server logs that an alarm changed its status.
ServerLogs ==
    /\ Len(al.log) < LogLength
    /\ \E a \in AlarmIds, st \in AlarmStatuses :
          al' = [al EXCEPT !.log = Append(@, [alarm |-> a, status |-> st])]

\* check_notifications(): there is something new, and it may be shown.
CheckNotifications(p, latest) == p.granted /\ latest > p.last

\* The answer to update_forever(), with what the log was at some moment since
\* the poll was sent: the first answer tells where this session starts;
\* notifyAll() asks for the log after the last notification; unless the server
\* says that its health monitoring is off, the next poll is due in 10 s.
ActiveAnswer ==
    /\ al.page.asked # NotAsked
    /\ \E health \in BOOLEAN, latest \in al.page.asked..Len(al.log) :
          LET p == al.page
              ask == CheckNotifications(p, latest)
          IN  /\ ask => Len(p.logs) < LogRequests
              /\ al' = [al EXCEPT
                    !.page = [p EXCEPT
                        !.asked = NotAsked,
                        !.first = IF p.first = 0 THEN latest ELSE p.first,
                        !.logs = IF ask
                                 THEN Append(p.logs, [after |-> p.last, from |-> Len(al.log)])
                                 ELSE p.logs,
                        !.stopped = ~ health,
                        !.poll = IF health THEN PollEvery ELSE NoPoll],
                    !.overlap = al.overlap \/ (ask /\ p.logs # <<>>)]

\* Mutant: a poll that fails is the last one.
Mut_ActiveFails ==
    /\ al.page.asked # NotAsked
    /\ al.faults > 0
    /\ al' = [al EXCEPT !.page.asked = NotAsked, !.faults = @ - 1]

\* The poll failed: the next one is due all the same.
ActiveFails ==
    /\ al.page.asked # NotAsked
    /\ al.faults > 0
    /\ al' = [al EXCEPT !.page = [al.page EXCEPT !.asked = NotAsked, !.poll = PollEvery],
                        !.faults = @ - 1]

\* Mutant: the id that was notified last is compared off by one.
Mut_NewEntries(after, last, top) == {i \in (after + 1)..top : i > last + 1}

\* The entries of an answer that are newer than the last notification.
NewEntries(after, last, top) == {i \in (after + 1)..top : i > last}

\* The outstanding requests but the k-th, which is answered.
Without(logs, k) == SubSeq(logs, 1, k - 1) \o SubSeq(logs, k + 1, Len(logs))

\* The answer to a log request, with the entries the server had after the one
\* asked for when it answered, at some moment since it was asked (none:
\* "received empty alarm log").  The entries are notified oldest first; the
\* first at once, each of the others half a second after the one before.
LogAnswer ==
    \E k \in 1..Len(al.page.logs) : \E top \in al.page.logs[k].from..Len(al.log) :
        LET p == al.page
            after == p.logs[k].after
            sent == SubSeq(al.log, 1, top)
            new == {i \in NewEntries(after, p.last, top) : Notifies(sent, i, p.first)}
            before(i) == Cardinality({j \in new : j < i})
            logs == Without(p.logs, k)
        IN  IF top <= after
            THEN al' = [al EXCEPT !.page = [p EXCEPT !.logs = logs]]
            ELSE al' = [al EXCEPT
                   !.page = [p EXCEPT
                       !.logs = logs,
                       !.timers = p.timers \cup {[id |-> i, due |-> before(i)] : i \in new},
                       !.last = top],
                   !.raised = [i \in 1..LogLength |-> al.raised[i] + (IF i \in new THEN 1 ELSE 0)],
                   !.saved = top]

LogFails ==
    /\ al.faults > 0
    /\ \E k \in 1..Len(al.page.logs) :
          al' = [al EXCEPT !.page = [al.page EXCEPT !.logs = Without(al.page.logs, k)],
                           !.faults = @ - 1]

\* A notification is due: new Notification().
Shows ==
    \E t \in al.page.timers :
        /\ t.due = 0
        /\ al' = [al EXCEPT !.page = [al.page EXCEPT !.timers = al.page.timers \ {t}],
                            !.shown = @ \cup {t.id}]

\* The 10 s are over: update_forever().
PollDue ==
    /\ al.page.poll = 0
    /\ al' = [al EXCEPT !.page = [al.page EXCEPT !.poll = NoPoll, !.asked = Len(al.log)]]

\* Half a second passes, which a timer that is due does not let happen.
HalfSecond ==
    /\ al.page.poll > 0 \/ al.page.timers # {}
    /\ al.page.poll # 0
    /\ \A t \in al.page.timers : t.due > 0
    /\ LET p == al.page
       IN  al' = [al EXCEPT !.page = [p EXCEPT
                     !.poll = IF p.poll = NoPoll THEN NoPoll ELSE p.poll - 1,
                     !.timers = {[t EXCEPT !.due = t.due - 1] : t \in p.timers}]]

\* The user reloads the page: what its timers had to show is lost, answers
\* that are under way go to nobody.
ReloadPage ==
    /\ al.reloads > 0
    /\ al' = [al EXCEPT !.page = AlarmPage(al.saved, al.page.granted, Len(al.log)),
                        !.lost = @ \cup {t.id : t \in al.page.timers},
                        !.reloads = @ - 1]

AlarmNext ==
    \/ ServerLogs \/ ActiveAnswer \/ ActiveFails \/ LogAnswer \/ LogFails
    \/ Shows \/ PollDue \/ HalfSecond \/ ReloadPage

AlarmSpec == AlarmInit /\ [][AlarmNext]_al

\* Requests are answered or fail, timers run.
AlarmFairness ==
    /\ WF_al(ActiveAnswer \/ ActiveFails)
    /\ WF_al(LogAnswer \/ LogFails)
    /\ WF_al(Shows)
    /\ WF_al(PollDue)
    /\ WF_al(HalfSecond)

AlarmFairSpec == AlarmSpec /\ AlarmFairness

-----------------------------------------------------------------------------
(***************************************************************************)
(* Properties                                                              *)
(***************************************************************************)

\* An entry that calls for a notification: a raised alarm nothing newer is
\* known of.
Calls(i) == al.log[i].status = "CRITICAL" /\ ~ Superseded(al.log, i)

\* The id the page goes on from never runs ahead of what was notified: however
\* polls, log answers, failures and reloads interleave, a notification was set
\* up for every entry up to it that calls for one (notifyAll() 6662-6700).
NoneIsSkipped ==
    al.page.granted => \A i \in 1..al.page.last : Calls(i) => al.raised[i] > 0

\* As long as no two log requests are outstanding together, no entry is notified
\* twice, by the page or by the page it is reloaded as (the saved id, 6696-6697,
\* 6803-6804).
NeverTwice ==
    ~ al.overlap => \A i \in 1..LogLength : al.raised[i] <= 1

AlarmIsRaised(i) == i <= Len(al.log) /\ Calls(i)

AlarmIsDealtWith(i) ==
    \/ i \in al.shown \cup al.lost
    \/ Superseded(al.log, i)
    \/ ~ al.page.granted
    \/ al.page.stopped

=============================================================================
