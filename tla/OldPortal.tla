----------------------------- MODULE OldPortal -----------------------------
(***************************************************************************)
(* The first portal page (portal/old/index.js, portal/old/netdata.js): the *)
(* "thread" that refreshes one chart at a time, a chain of timers and      *)
(* ajax callbacks, the watchdog that restarts it, and the three screens    *)
(* it refreshes: all the charts, the charts of a family, and one chart in  *)
(* full screen with the hidden chart of its range control.                 *)
(*                                                                         *)
(* An exception in a handler ends it, and the chain with it: the operator  *)
(* returns a page on which nothing more is scheduled.  Times are           *)
(* abstracted to whether a delay has passed.                               *)
(***************************************************************************)
EXTENDS Pending, FiniteSets

CONSTANTS OldCharts,     \* the number of charts the server has
          OldFamilies,   \* the number of their families
          CleanEvery,    \* refreshes of the hidden chart before it is made anew (50)
          OldActs,       \* bound: actions of the user
          OldFaults      \* bound: failed, empty and slow answers

VARIABLE old  \* the page: its globals, its timers and its requests

Indices == 0 .. OldCharts - 1
FamilyOf(i) == i % OldFamilies
MainDiv == -1
Null == [null |-> TRUE]

(* a chart of a screen: disablethisplease, and whether it is time to refresh it *)
NewThumb(id, enabled) == [id |-> id, enabled |-> enabled, closing |-> FALSE, due |-> TRUE]

(* last_updated # 0, the wrappers of the hidden chart, and its last_updated # 0 *)
NewMain(gen) == [gen |-> gen, shown |-> FALSE, due |-> TRUE, wrappers |-> FALSE,
                 hshown |-> FALSE, hdue |-> TRUE, count |-> 0]

(* the charts of a family are copies of those of the dashboard: a wish to  *)
(* close one that is still pending is copied too                           *)
GroupOf(family, gen, thumbs) ==
    LET ids == {i \in Indices : FamilyOf(i) = family}
        Rank(i) == Cardinality({j \in ids : j < i})
    IN  [gen |-> gen, family |-> family,
         charts |-> [k \in 0 .. Cardinality(ids) - 1 |->
                       LET i == CHOOSE j \in ids : Rank(j) = k
                       IN  [NewThumb(i, TRUE) EXCEPT !.closing = thumbs[i].closing]]]

SetTimeout(w, f) == [w EXCEPT !.timers = Also(@, {f})]
Ask(w, kind, chart, gen, family, next) ==
    [w EXCEPT !.net = Also(@, {[kind |-> kind, chart |-> chart, gen |-> gen,
                                       family |-> family, next |-> next]})]

TriggerRefresh(w) ==
    IF ~w.visible \/ (w.refresh = "paused" /\ w.mode # "main")
    THEN SetTimeout([w EXCEPT !.stale = FALSE], "trigger")
    ELSE SetTimeout(w, IF w.mode = "none" THEN "trigger" ELSE "callback")

(* a selection on the chart, and a chart out of the viewport, are both in off *)
CanChartBeRefreshed(w, id, enabled, due) == enabled /\ due /\ id \notin w.off

(* the hidden chart: its wrappers are made before its data is asked for *)
RefreshHiddenChart(w) ==
    LET clean == w.main.wrappers /\ w.main.count > CleanEvery
    IN  IF w.main = Null THEN w
        ELSE IF (w.refresh = "paused" /\ w.main.hshown) \/ ~w.main.hdue THEN TriggerRefresh(w)
        ELSE Ask([w EXCEPT !.main = [w.main EXCEPT
                                       !.wrappers = TRUE, !.hshown = w.main.hshown /\ ~clean,
                                       !.count = IF clean \/ ~w.main.wrappers THEN 0
                                                 ELSE w.main.count]],
                 "hidden", MainDiv, w.main.gen, 0, "trigger")

MainChartRefresh(w) ==
    IF w.mode # "main" \/ w.main = Null THEN TriggerRefresh(w)
    ELSE IF ~(w.refresh = "paused" /\ w.main.shown) /\ CanChartBeRefreshed(w, MainDiv, TRUE, w.main.due)
    THEN Ask(w, "main", MainDiv, w.main.gen, 0, "hidden")
    ELSE RefreshHiddenChart(w)

(* the place where the search stops *)
FirstReady(ready) == CHOOSE k \in ready : \A j \in ready : k <= j

(* Mutant: the search starts over with the first chart. *)
Mut_RoundRobinRenderChart(w, screen, charts, gen, family) ==
    LET ready == {k \in DOMAIN charts :
                     CanChartBeRefreshed(w, charts[k].id, charts[k].enabled, charts[k].due)}
    IN  IF ready = {} THEN TriggerRefresh(w)
        ELSE LET k == FirstReady(ready)
             IN  Ask([w EXCEPT !.last[screen] = k], screen, k, gen, family, "callback")

(* the first chart after startat that can be refreshed, and where the search stops *)
RoundRobinRenderChart(w, screen, charts, gen, family) ==
    LET all == Cardinality(DOMAIN charts)
        start == IF w.last[screen] + 1 >= all THEN 0 ELSE w.last[screen] + 1
        At(k) == (start + k) % all
        ready == {k \in 0 .. all - 1 : LET c == charts[At(k)]
                                       IN  CanChartBeRefreshed(w, c.id, c.enabled, c.due)}
    IN  IF ready = {} THEN TriggerRefresh([w EXCEPT !.last[screen] = At(all - 1) + 1])
        ELSE LET k == At(FirstReady(ready))
             IN  Ask([w EXCEPT !.last[screen] = k], screen, k, gen, family, "callback")

ThumbChartsRefreshNext(w) ==
    IF w.thumbs = << >> \/ w.mode # "thumbs" THEN TriggerRefresh(w)
    ELSE RoundRobinRenderChart(w, "thumbs", w.thumbs, 0, 0)

GroupChartsRefreshNext(w) ==
    IF w.group = Null \/ w.mode # "groups" THEN TriggerRefresh(w)
    ELSE RoundRobinRenderChart(w, "groups", w.group.charts, w.group.gen, w.group.family)

Closed(c) == IF c.closing /\ c.enabled THEN [c EXCEPT !.closing = FALSE, !.enabled = FALSE] ELSE c

Closing(charts) == [i \in DOMAIN charts |-> Closed(charts[i])]

(* Mutant: the main chart is freed on every screen. *)
Mut_CleanupCharts(w) ==
    [w EXCEPT !.main = Null,
              !.thumbs = Closing(w.thumbs),
              !.group = IF w.mode # "groups" THEN Null
                        ELSE [w.group EXCEPT !.charts = Closing(w.group.charts)]]

CleanupCharts(w) ==
    [w EXCEPT !.main = IF w.mode = "main" THEN w.main ELSE Null,
              !.thumbs = Closing(w.thumbs),
              !.group = IF w.mode # "groups" THEN Null
                        ELSE [w.group EXCEPT !.charts = Closing(w.group.charts)]]

(* a main chart whose hidden chart was never made throws here: resize_request stays set *)
ResizeThrows(w) == w.main # Null /\ ~w.main.wrappers
Redrawn(charts) ==
    [i \in DOMAIN charts |-> [charts[i] EXCEPT !.due = charts[i].due \/ charts[i].enabled]]
ResizeCharts(w) ==
    IF ResizeThrows(w) THEN [w EXCEPT !.main = [w.main EXCEPT !.shown = FALSE, !.due = TRUE]]
    ELSE [w EXCEPT !.main = IF w.main = Null THEN Null
                            ELSE [w.main EXCEPT !.shown = FALSE, !.due = TRUE,
                                                !.hshown = FALSE, !.hdue = TRUE],
                   !.thumbs = Redrawn(w.thumbs),
                   !.group = IF w.group = Null THEN Null
                             ELSE [w.group EXCEPT !.charts = Redrawn(w.group.charts)],
                   !.resize = FALSE]

(* what renderChartCallback() schedules once the page is cleaned and resized *)
Schedule(w) ==
    IF w.scroll = "recent" THEN SetTimeout(w, "trigger")
    ELSE LET s == [w EXCEPT !.scroll = "none"]
         IN  IF w.refresh = "paused" /\ w.mode = "main" /\ ~w.main.shown THEN MainChartRefresh(s)
             ELSE IF w.refresh = "paused" /\ w.mode # "main" THEN SetTimeout(s, "trigger")
             ELSE SetTimeout(s, IF w.mode = "none" THEN "trigger" ELSE w.mode)

RenderChartCallback(p) ==
    LET w == [p EXCEPT !.stale = FALSE]
        cleaned == CleanupCharts(w)
    IN  IF ~w.visible THEN SetTimeout(w, "trigger")
        ELSE IF ~w.resize THEN Schedule(w)
        ELSE IF ResizeThrows(cleaned) THEN ResizeCharts(cleaned)
        ELSE Schedule(ResizeCharts(cleaned))

(* the refresh thread: its timers, and the requests whose callback goes on with it *)
GoesOnWithThread(w) == {req \in DOMAIN w.net : req.kind # "load"}
Threads(w) == ({"timer"} \X Copies(w.timers, DOMAIN w.timers))
              \cup ({"request"} \X Copies(w.net, GoesOnWithThread(w)))

Restart(w) == RenderChartCallback([w EXCEPT !.late = w.late \/ Threads(w) # {}])

(* Mutant: the thread is started without a look at the one there is. *)
Mut_PlayGraphs(w) ==
    IF w.refresh = "always" THEN w ELSE RenderChartCallback([w EXCEPT !.refresh = "always"])

(* nobody was refreshed for a minute: the thread is taken for dead *)
PlayGraphs(w) ==
    IF w.refresh = "always" THEN w
    ELSE LET playing == [w EXCEPT !.refresh = "always"]
         IN  IF w.stale THEN Restart(playing) ELSE playing
PauseGraphs(w) == [w EXCEPT !.refresh = "paused"]

Run(f, w) ==
    CASE f = "trigger"  -> TriggerRefresh(w)
      [] f = "callback" -> RenderChartCallback(w)
      [] f = "thumbs"   -> ThumbChartsRefreshNext(w)
      [] f = "groups"   -> GroupChartsRefreshNext(w)
      [] f = "main"     -> MainChartRefresh(w)
      [] f = "hidden"   -> RefreshHiddenChart(w)
-----------------------------------------------------------------------------
(* The answers.  An exception in done or fail is not caught: always, which *)
(* goes on with the thread, does not run.                                  *)

Answer(req) == [old EXCEPT !.net = Less(@, req)]
OldFault(w) == [w EXCEPT !.faults = w.faults + 1]
Result(ok) == ok \/ old.faults < OldFaults
Ends(w, ok) == old' = IF ok THEN w ELSE OldFault(w)

(* initCharts(): the page after its first renderChartCallback() *)
OldInit ==
    old = [mode |-> "none", refresh |-> "always", stale |-> FALSE, visible |-> TRUE,
           resize |-> FALSE, scroll |-> "none", watchdog |-> FALSE, thumbs |-> << >>,
           off |-> {}, group |-> Null, main |-> Null, gen |-> 0,
           last |-> [thumbs |-> 0, groups |-> 0], timers |-> Once({"trigger"}),
           net |-> Once({[kind |-> "load", chart |-> 0, gen |-> 0, family |-> 0, next |-> "none"]}),
           late |-> FALSE, acts |-> 0, faults |-> 0]

(* without an answer the callback of loadCharts() throws *)
LoadCharts(ok, enabled) ==
    \E req \in DOMAIN old.net :
        /\ req.kind = "load" /\ Result(ok)
        /\ LET w == Answer(req)
           IN  Ends(IF ok THEN PlayGraphs([w EXCEPT !.thumbs = [i \in Indices |-> NewThumb(i, i \in enabled)],
                                                    !.mode = "thumbs", !.watchdog = TRUE])
                    ELSE w, ok)

WithDue(group, i, due) == [group EXCEPT !.charts[i].due = due]

(* renderChart()'s done and fail: both count as a refresh, except for an empty answer *)
Refreshed(w, req) ==
    CASE req.kind = "thumbs" -> [w EXCEPT !.thumbs[req.chart].due = FALSE]
      [] req.kind = "groups" -> IF w.group # Null /\ w.group.gen = req.gen
                                THEN [w EXCEPT !.group = WithDue(w.group, req.chart, FALSE)] ELSE w
      [] req.kind = "main"   -> IF w.main # Null /\ w.main.gen = req.gen
                                THEN [w EXCEPT !.main = [w.main EXCEPT !.shown = TRUE, !.due = FALSE]]
                                ELSE w

(* the element of the chart is not in the page any more *)
DivIsGone(req) ==
    CASE req.kind = "thumbs" -> ~old.thumbs[req.chart].enabled
      [] req.kind = "groups" -> \/ old.group = Null \/ old.group.family # req.family
                                \/ ~old.group.charts[req.chart].enabled
      [] req.kind = "main"   -> FALSE

RenderChart(req, result) ==
    /\ req.kind \in {"thumbs", "groups", "main"} /\ Result(result = "data")
    /\ Ends(IF result = "empty" THEN Run(req.next, Answer(req))
            ELSE IF DivIsGone(req) THEN Answer(req)
            ELSE Run(req.next, Refreshed(Answer(req), req)), result = "data")

(* the hidden chart's handler works on mainchart as it is now *)
HiddenChart(req, result) ==
    /\ req.kind = "hidden" /\ Result(result = "data")
    /\ LET w == Answer(req)
       IN  Ends(IF result # "data" THEN TriggerRefresh(w)
                ELSE IF w.main = Null THEN w
                ELSE IF ~w.main.wrappers THEN w
                ELSE TriggerRefresh([w EXCEPT !.main = [w.main EXCEPT
                           !.hshown = TRUE, !.hdue = FALSE,
                           !.count = IF w.main.count > CleanEvery THEN w.main.count
                                     ELSE w.main.count + 1]]),
                result = "data")
-----------------------------------------------------------------------------
(* Time: a timer fires, a minute passes without renderChartCallback(), a delay is over *)

Fire(f) == f \in DOMAIN old.timers /\ old' = Run(f, [old EXCEPT !.timers = Less(@, f)])

MinutePasses ==
    /\ old.timers = Once({}) /\ ~old.stale
    /\ Threads(old) = {} \/ old.faults < OldFaults
    /\ old' = [old EXCEPT !.stale = TRUE,
                          !.faults = IF Threads(old) = {} THEN old.faults ELSE old.faults + 1]

(* Mutant: the watchdog looks after the first screen only. *)
Mut_CheckRefreshThread == old.watchdog /\ old.stale /\ old.mode = "thumbs" /\ old' = Restart(old)

CheckRefreshThread == old.watchdog /\ old.stale /\ old' = Restart(old)

ThumbDue(i) == /\ i \in DOMAIN old.thumbs /\ ~old.thumbs[i].due
               /\ old' = [old EXCEPT !.thumbs[i].due = TRUE]
GroupDue(i) == /\ old.group # Null
               /\ i \in DOMAIN old.group.charts /\ ~old.group.charts[i].due
               /\ old' = [old EXCEPT !.group = WithDue(old.group, i, TRUE)]
MainDue == /\ old.main # Null
           /\ ~(old.main.due /\ old.main.hdue)
           /\ old' = [old EXCEPT !.main = [old.main EXCEPT !.due = TRUE, !.hdue = TRUE]]
ScrollIsOver == old.scroll = "recent" /\ old' = [old EXCEPT !.scroll = "idle"]
-----------------------------------------------------------------------------
(* The user *)

ByUser(w) == old.mode # "none" /\ old.acts < OldActs /\ old' = [w EXCEPT !.acts = w.acts + 1]

InitMainChart ==
    ByUser(PlayGraphs([old EXCEPT !.main = NewMain(old.gen + 1), !.gen = old.gen + 1, !.mode = "main"]))

InitGroupGraphs(family) ==
    ByUser(PlayGraphs([old EXCEPT !.group = GroupOf(family, old.gen + 1, old.thumbs),
                                  !.gen = old.gen + 1, !.mode = "groups"]))

SwitchToThumbGraphs == old.mode # "thumbs" /\ ByUser(PlayGraphs([old EXCEPT !.mode = "thumbs"]))

(* setMainChartMax, setMainChartGroup, setMainChartGroupMethod: a refresh is due *)
RefreshIsDue(w) == [w EXCEPT !.main = [w.main EXCEPT !.shown = FALSE, !.due = TRUE]]
SetMainChart ==
    /\ old.mode = "main"
    /\ ByUser(RefreshIsDue(old))

(* the range control is moved: it exists once the hidden chart is drawn *)
MainchartControlStateHandler ==
    /\ old.mode = "main" /\ old.main.hshown
    /\ ByUser(PauseGraphs(RefreshIsDue(old)))

ButtonGlobalPlayPause ==
    LET w == IF old.mode # "main" THEN old
             ELSE [old EXCEPT !.main = [old.main EXCEPT !.shown = FALSE, !.due = TRUE,
                                                        !.hshown = FALSE, !.hdue = TRUE]]
    IN  ByUser(IF old.refresh = "always" THEN PauseGraphs(old) ELSE PlayGraphs(w))

(* the last chart shown is not closed *)
DisableChart(i) ==
    LET charts == IF old.mode = "groups" THEN old.group.charts
                  ELSE IF old.mode = "thumbs" THEN old.thumbs ELSE << >>
    IN  /\ i \in DOMAIN charts
        /\ charts[i].enabled
        /\ Cardinality({k \in DOMAIN charts : charts[k].enabled}) > 1
        /\ ByUser(IF old.mode = "groups"
                  THEN [old EXCEPT !.group = [old.group EXCEPT !.charts[i].closing = TRUE],
                                   !.resize = TRUE]
                  ELSE [old EXCEPT !.thumbs[i].closing = TRUE, !.resize = TRUE])

WindowResize == ~old.resize /\ ByUser([old EXCEPT !.resize = TRUE])
SetPresentation == ByUser(PlayGraphs([old EXCEPT !.resize = TRUE]))
OnUserScroll(off) == ByUser([old EXCEPT !.scroll = "recent", !.off = off])
OldFocus(on) == old.visible # on /\ ByUser([old EXCEPT !.visible = on])
-----------------------------------------------------------------------------
Answers ==
    \/ \E enabled \in SUBSET Indices : enabled # {} /\ LoadCharts(TRUE, enabled)
    \/ LoadCharts(FALSE, {})
    \/ \E req \in DOMAIN old.net, result \in {"data", "empty", "failed"} :
          RenderChart(req, result) \/ HiddenChart(req, result)

Fires == \E f \in {"trigger", "callback", "thumbs", "groups", "main"} : Fire(f)
Watch == MinutePasses \/ CheckRefreshThread
OtherDelays == MainDue \/ ScrollIsOver \/ \E i \in Indices : GroupDue(i)

UserOfOld ==
    \/ InitMainChart \/ SwitchToThumbGraphs \/ SetMainChart \/ MainchartControlStateHandler
    \/ ButtonGlobalPlayPause \/ WindowResize \/ SetPresentation
    \/ \E family \in 0 .. OldFamilies - 1 : InitGroupGraphs(family)
    \/ \E i \in Indices : DisableChart(i)
    \/ \E off \in SUBSET {MainDiv, 0} : OnUserScroll(off)
    \/ \E on \in BOOLEAN : OldFocus(on)

OldNext == Answers \/ Fires \/ Watch \/ OtherDelays \/ (\E i \in Indices : ThumbDue(i)) \/ UserOfOld

(* timers fire, requests end and time passes, whichever of them it is; the *)
(* delays of the page end                                                  *)
Goes == Fires \/ Answers \/ Watch
OldFairness == WF_old(Goes) /\ WF_old(OtherDelays)

OldSpec == OldInit /\ [][OldNext]_old
OldFairSpec == OldSpec /\ OldFairness
-----------------------------------------------------------------------------
(* The screen that is shown has its charts: in full screen there is a main *)
(* chart, on the family screen a group, so that renderChartCallback() and  *)
(* the refresh functions never use a null, whatever cleanupCharts() frees. *)
ScreenHasItsCharts ==
    /\ old.mode = "main" => old.main # Null
    /\ old.mode = "groups" => old.group # Null

(* "never call it directly, or new javascript threads will be spawn": as   *)
(* long as no request outlives the watchdog's minute there is at most one  *)
(* refresh thread, through every switch of screens, pause and restart.     *)
AtMostOneThread == old.late \/ \A a, b \in Threads(old) : a = b

HasThread ==
    \/ ~old.watchdog \/ Threads(old) # {}
    \/ old.resize /\ old.mode = "main" /\ ~old.main.wrappers

ThumbIsWanted(i) ==
    /\ old.mode = "thumbs" /\ old.refresh = "always" /\ old.visible
    /\ i \in DOMAIN old.thumbs /\ i \notin old.off /\ old.thumbs[i].enabled

ThumbIsFresh(i) == i \in DOMAIN old.thumbs /\ ~old.thumbs[i].due
=============================================================================
