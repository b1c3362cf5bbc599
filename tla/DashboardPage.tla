--------------------------- MODULE DashboardPage ---------------------------
(***************************************************************************)
(* The charts of the portal page (portal/dashboard.js): the chartState of  *)
(* every chart, the refresher loop, the requests to the server and their   *)
(* answers, visibility, the global pan and zoom, the selection sync, and   *)
(* the mouse and touch handlers of the dygraph library.                    *)
(*                                                                         *)
(* The page is single threaded: a handler, a timer or an answer runs to    *)
(* its end, so each is one action.  A handler calls functions that change  *)
(* several charts, so the functions are operators from a world (a record   *)
(* of the variables) to a world.  Times are abstracted to whether a delay  *)
(* has passed, time ranges to the members of Ranges and "live".            *)
(***************************************************************************)
EXTENDS Integers, FiniteSets, FiniteSetsExt, Bags, Folds

CONSTANTS NCharts,      \* the charts of the page are 1..NCharts
          Ranges,       \* time ranges the user can pan or zoom to
          Retries,      \* options.current.retries_on_data_failures
          AutoResize,   \* charts whose library.autoresize() is true
          Users,        \* the users that may come: of each, the groups of actions taken in a
                        \* visit; "settings", "unsynced": any value of the options, of
                        \* the synchronisation, not only the defaults of a fast device
          MaxActs,      \* bound: actions of the user
          MaxFaults     \* bound: failed requests and failed draws

Charts == 1 .. NCharts
None == 0               \* null where a chart is expected
Nowhere == "none"       \* no range, or nothing drawn

VARIABLES st,      \* the chartState of every chart
          pz,      \* NETDATA.globalPanAndZoom
          sync,    \* NETDATA.globalSelectionSync
          net,     \* requests in flight, with the callback each one carries
          timers,  \* pending timers of the refresher
          opt,     \* NETDATA.options, and the page around the charts
          user     \* who is there, the pointer, and the actions and faults so far

vars == <<st, pz, sync, net, timers, opt, user>>

(* what the handler does next, F, to the world its first part, w, left *)
Then(w, F(_)) == CHOOSE v \in {F(u) : u \in {w}} : TRUE

(* go: where the refresher goes on when the handler ends, 0 for nowhere *)
World == [st |-> st, pz |-> pz, sync |-> sync, net |-> net, timers |-> timers, opt |-> opt,
          go |-> 0]

Becomes(w) ==
    \E v \in {w} : /\ st' = v.st /\ pz' = v.pz /\ sync' = v.sync
                   /\ net' = v.net /\ timers' = v.timers /\ opt' = v.opt

(***************************************************************************)
(* One chart.  force is force_update_at: "no", "wait" until its time, and  *)
(* "due".  due is now - last_autorefreshed >= data_update_every.  updated  *)
(* is updates_since_last_unhide # 0 (then updates_counter # 0 too).        *)
(* resized is last_resized >= last_page_resize.  view is the range of the  *)
(* last request, drawn that of the data on the screen.  attached is that   *)
(* the elements of a created chart are in the page.                        *)
(***************************************************************************)
NewChart ==
    [enabled |-> TRUE, known |-> FALSE, dom |-> FALSE, created |-> FALSE, hidden |-> FALSE,
     fetching |-> FALSE, running |-> FALSE, mode |-> "auto", force |-> "no", range |-> Nowhere,
     view |-> "live", drawn |-> Nowhere, seq |-> 0, selected |-> FALSE, paused |-> FALSE,
     retries |-> 0, updated |-> FALSE, due |-> TRUE, resized |-> TRUE, attached |-> TRUE]

RuntimeInit(s) ==
    [s EXCEPT !.paused = FALSE, !.selected = FALSE, !.created = FALSE, !.dom = FALSE,
              !.fetching = FALSE, !.updated = FALSE, !.seq = 0, !.due = TRUE,
              !.hidden = FALSE, !.drawn = Nowhere]

SetMode(s, m) ==
    IF s.mode = m THEN s ELSE [s EXCEPT !.mode = m, !.force = "no", !.range = Nowhere]

(* the message replaces the elements of the chart, which stay created *)
Error(s) ==
    [s EXCEPT !.enabled = FALSE, !.mode = "pan", !.drawn = Nowhere,
              !.attached = s.attached /\ ~s.created]

CreateDOM(s) ==
    IF s.enabled
    THEN [s EXCEPT !.dom = TRUE, !.created = FALSE, !.drawn = Nowhere, !.resized = TRUE,
                   !.attached = TRUE]
    ELSE s

(* init('force'): its isVisible(true) leaves an invisible chart hidden *)
InitForce(s, visible) ==
    IF s.enabled
    THEN CreateDOM([SetMode(RuntimeInit(s), "auto") EXCEPT !.hidden = ~visible])
    ELSE s

NeedsRecreation(s, c) == s.created /\ c \notin AutoResize /\ ~s.resized

ResizeChart(s, c) ==
    IF s.resized \/ ~s.created THEN s
    ELSE [(IF NeedsRecreation(s, c) THEN InitForce(s, TRUE) ELSE s) EXCEPT !.resized = TRUE]

HideChart(s, destroy) ==
    IF s.hidden THEN s
    ELSE [(IF s.created /\ destroy THEN InitForce(s, FALSE) ELSE s) EXCEPT !.hidden = TRUE]

UnhideChart(s, c) ==
    IF ~s.hidden THEN s
    ELSE LET shown == [s EXCEPT !.hidden = FALSE, !.updated = FALSE]
         IN  IF shown.created THEN ResizeChart(shown, c) ELSE InitForce(shown, TRUE)

(* isVisible(): the cached answer and a new one agree, as every event that *)
(* moves a chart sets last_page_scroll                                     *)
IsVisible(w, c) == c \in w.opt.visible
CheckVisible(w, c) ==
    [w EXCEPT !.st[c] = IF IsVisible(w, c) THEN UnhideChart(@, c) ELSE HideChart(@, w.opt.destroy)]
CheckAll(w, cs) ==
    [w EXCEPT !.st = [c \in Charts |-> IF c \in cs THEN CheckVisible(w, c).st[c] ELSE @[c]]]

CanBeRendered(w, c) == ~w.st[c].hidden /\ IsVisible(w, c)
CheckRendered(w, c) == IF w.st[c].hidden THEN w ELSE CheckVisible(w, c)

-----------------------------------------------------------------------------
(* The selection sync: the chart under the pointer is the master, the others follow it. *)

ClearSelection(s) == [s EXCEPT !.selected = FALSE]

(* Mutant: the chart that stops the sync is not cleared itself. *)
Mut_GlobalSelectionSyncStop(w, c) ==
    [w EXCEPT !.st = [d \in Charts |-> IF d \in w.sync.slaves THEN ClearSelection(@[d]) ELSE @[d]],
              !.sync = [@ EXCEPT !.state = IF w.sync.slaves = {} THEN @ ELSE None,
                                 !.slaves = {}]]

(* a stop by a chart that is neither the master nor a slave leaves the master selected *)
GlobalSelectionSyncStop(w, c) ==
    LET cleared == {c} \cup w.sync.slaves
    IN  [w EXCEPT !.st = [d \in Charts |-> IF d \in cleared THEN ClearSelection(@[d]) ELSE @[d]],
                  !.sync = [@ EXCEPT !.state = IF w.sync.slaves = {} THEN @ ELSE None,
                                     !.slaves = {}]]

GlobalSelectionSyncDelay(w) == [w EXCEPT !.sync.delay = @ \/ "selection" \in w.opt.syncs]

GlobalSelectionSyncIsEligible(w, c) ==
    w.st[c].enabled /\ IsVisible(w, c) /\ w.st[c].created

GlobalSelectionSyncBeMaster(w, c) ==
    IF w.sync.state = c THEN w
    ELSE LET others == w.opt.targets \ {c}
             stopped == IF w.sync.state # None THEN GlobalSelectionSyncStop(w, c) ELSE w
         IN  Then(CheckAll(stopped, others), LAMBDA v :
               [v EXCEPT !.st[c].selected = TRUE,
                         !.sync = [@ EXCEPT !.state = c,
                                            !.slaves = @ \cup {d \in others :
                                                                 GlobalSelectionSyncIsEligible(v, d)}]])

(* the libraries' setSelection() returns true for every time *)
GlobalSelectionSync(w, c) ==
    IF w.sync.delay \/ "selection" \notin w.opt.syncs THEN w
    ELSE Then(GlobalSelectionSyncBeMaster(w, c), LAMBDA v :
           [v EXCEPT !.st = [d \in Charts |-> IF d \in v.sync.slaves
                                               THEN [@[d] EXCEPT !.selected = TRUE] ELSE @[d]]])

-----------------------------------------------------------------------------
(* The callbacks a request carries.  run: clear the running flag of the    *)
(* chart (autoRefresh).  next: go on with the refresher, at this index of  *)
(* the sequential one or from its start (Begin).  A callback is the last   *)
(* thing a handler does: it is noted in go, and done by Resume.            *)

NoCall == [run |-> FALSE, next |-> 0]
Begin == NCharts + 2
Loop == 0                   \* the timer of chartRefresher itself

Send(w, kind, c, call, range) ==
    [w EXCEPT !.net = @ (+) SetToBag({[kind |-> kind, chart |-> c, call |-> call, range |-> range]})]

(* Mutant: every callback clears the mark of the refresher. *)
Mut_Call(w, c, call) == [w EXCEPT !.st[c].running = FALSE, !.go = call.next]

Call(w, c, call) ==
    [w EXCEPT !.st[c].running = @ /\ ~call.run, !.go = call.next]

(* a new pan and zoom sequence number is a timestamp: later than every earlier one *)
PanActive(w) == w.pz.master # None /\ w.pz.range # Nowhere /\ w.pz.seq # 0

ChartURL(w, c) ==
    LET slave == PanActive(w) /\ w.pz.master # c
        range == IF slave THEN w.pz.range
                 ELSE IF w.st[c].range # Nowhere THEN w.st[c].range ELSE "live"
    IN  [w EXCEPT !.st[c] = [@ EXCEPT !.seq = IF slave THEN w.pz.seq ELSE 0,
                                      !.view = range,
                                      !.range = IF slave THEN @ ELSE Nowhere]]

(* chart === null: getChart(); library not loaded: initialize(); then the data *)
Fetch(w, c, call) ==
    IF ~w.st[c].known THEN Send(w, "info", c, call, Nowhere)
    ELSE IF ~w.opt.initialized /\ w.opt.available THEN Send(w, "library", c, call, Nowhere)
    ELSE IF ~w.opt.initialized THEN Call([w EXCEPT !.st[c] = Error(@)], c, call)
    ELSE Then(ChartURL([w EXCEPT !.st[c] = ClearSelection(@)], c), LAMBDA v :
           Send([v EXCEPT !.st[c].fetching = TRUE, !.opt.refreshes_active = @ + 1],
                "data", c, call, v.st[c].view))

UpdateChart(w, c, call) ==
    IF w.st[c].fetching \/ ~w.st[c].enabled THEN Call(w, c, call)
    ELSE IF ~CanBeRendered(w, c) THEN Call(CheckRendered(w, c), c, call)
    ELSE Then([CheckRendered(w, c) EXCEPT !.st[c] = IF @.dom THEN @ ELSE CreateDOM(@)],
              LAMBDA v : Fetch(v, c, call))

-----------------------------------------------------------------------------
(* Global pan and zoom *)

ResetState(s) ==
    [SetMode(ClearSelection(s), "auto") EXCEPT
        !.seq = 0, !.force = "no", !.range = Nowhere, !.due = TRUE,
        !.paused = FALSE, !.selected = FALSE, !.enabled = TRUE]

(* resetChart() of a chart that is not the master (any more) *)
ResetAndUpdate(w, c) ==
    Then(CheckVisible([w EXCEPT !.st[c] = ResetState(@)], c), LAMBDA v :
      IF IsVisible(v, c) THEN UpdateChart(v, c, NoCall) ELSE v)

SetMaster(w, c, range) ==
    LET old == w.pz.master
        reset == IF old \notin {None, c} THEN [w EXCEPT !.st[old] = ResetState(@)] ELSE w
    IN  IF "pan" \notin w.opt.syncs THEN w
        ELSE [reset EXCEPT !.pz = [@ EXCEPT !.master = c, !.seq = w.pz.clock + 1, !.range = range,
                                            !.clock = @ + 1],
                           !.opt.stopped = TRUE]

ClearMaster(w) ==
    LET freed == [w EXCEPT !.pz.master = None]
    IN  [(IF w.pz.master # None THEN ResetAndUpdate(freed, w.pz.master) ELSE freed) EXCEPT
                      !.pz = [@ EXCEPT !.seq = 0, !.range = Nowhere], !.opt.stopped = FALSE]

ResetChart(w, c) == IF w.pz.master = c THEN ClearMaster(w) ELSE ResetAndUpdate(w, c)

(* the range the chart has already is within the tolerance, and rejected *)
UpdateChartPanOrZoom(w, c, range) ==
    IF range = w.st[c].view THEN w
    ELSE SetMaster([w EXCEPT !.st[c] = [(IF @.mode = "auto" THEN SetMode(@, "pan") ELSE @)
                                           EXCEPT !.force = "wait", !.range = range]], c, range)

ResetAllCharts(w, c) ==
    Then(ClearMaster(GlobalSelectionSyncStop(w, c)), LAMBDA v :
      IF w.pz.master # c /\ (v.st[c].paused \/ v.st[c].selected) THEN ResetChart(v, c) ELSE v)

-----------------------------------------------------------------------------
(* The refresher *)

(* the branches of canBeAutoRefreshed(); force_update_at is used up by the first *)
ForcedNow(s) == s.force = "due"
CanBeAutoRefreshed(w, c) ==
    LET s == w.st[c] IN
        /\ ~s.running
        /\ s.enabled
        /\ w.opt.available
        /\ IsVisible(w, c)
        /\ \/ ForcedNow(s)
           \/ /\ s.mode = "auto"
              /\ ~(s.updated /\ ~w.opt.focus)
              /\ \/ NeedsRecreation(s, c)
                 \/ /\ ~w.opt.stopped
                    /\ IF PanActive(w) THEN s.seq # w.pz.seq
                       ELSE ~s.selected /\ ~s.paused /\ s.due

AutoRefresh(w, c, next) ==
    Then(IF w.st[c].running \/ ~w.st[c].enabled THEN w
         ELSE IF ~w.opt.available THEN [w EXCEPT !.st[c] = Error(@)]
         ELSE CheckVisible(w, c), LAMBDA v :
      IF ~CanBeAutoRefreshed(v, c) THEN [v EXCEPT !.go = next]
      ELSE Then([v EXCEPT !.st[c].force = IF @ = "due" THEN "no" ELSE @, !.st[c].running = TRUE],
                LAMBDA u : UpdateChart(u, c, [run |-> TRUE, next |-> next])))

SetTimer(w, t) == [w EXCEPT !.timers = @ (+) SetToBag({t})]

(* parseDom(): the elements become charts, from the last to the first.  The *)
(* constructor of a new one finds a disabled library, shows the error and   *)
(* goes on without the library; its initDOM() then throws (1782).           *)
Throws(w) == ~w.opt.available /\ w.opt.elements # w.opt.targets

ParseDom(w) ==
    LET new == w.opt.elements \ w.opt.targets
        parsed == IF Throws(w) THEN {c \in w.opt.elements : c > Max(new)} ELSE w.opt.elements
    IN  [w EXCEPT !.opt = [@ EXCEPT !.updated_dom = FALSE, !.targets = parsed, !.missed = TRUE,
                                    !.thrown = @ \/ Throws(w)]]

(* chartRefresherNoParallel(index) while the DOM is as parsed *)
NextTarget(w, index) ==
    LET left == {c \in w.opt.targets : c >= index}
    IN  SetTimer(w, IF left = {} THEN Loop ELSE Min(left))

(* one pass over the targets, the last one first, up to a library to load *)
ParallelPass(w) ==
    LET ready == {c \in w.opt.targets : IsVisible(w, c) /\ ~w.st[c].running}
        loads == ready # {} /\ ~w.opt.initialized /\ w.opt.available
        Refresh(c, v) == Then(v, LAMBDA u : AutoRefresh(u, c, 0))
    IN  Then(CheckAll(w, {c \in w.opt.targets : loads => c >= Max(ready)}), LAMBDA v :
          IF loads THEN Send(v, "library", None, [NoCall EXCEPT !.next = Begin], Nowhere)
          ELSE SetTimer(FoldSet(Refresh,
                                [v EXCEPT !.st = [c \in Charts |-> IF ~w.opt.initialized /\ c \in ready
                                                                   THEN Error(@[c]) ELSE @[c]]],
                                ready), Loop))

ChartRefresher(w) ==
    LET parsed == IF w.opt.updated_dom THEN ParseDom(w) ELSE w
    IN  IF w.opt.pause THEN SetTimer(w, Loop)
        ELSE IF w.opt.pauseCallback
             THEN SetTimer([w EXCEPT !.opt.pause = TRUE], Loop)
        ELSE IF w.opt.updated_dom /\ Throws(w) THEN parsed
        ELSE IF w.opt.parallel THEN ParallelPass(parsed) ELSE NextTarget(parsed, 1)

ChartRefresherNoParallel(w, index) ==
    IF ~w.opt.updated_dom THEN NextTarget(w, index)
    ELSE IF Throws(w) THEN ParseDom(w) ELSE ChartRefresher(ParseDom(w))

(* the callback a handler ends with *)
Resume(w) ==
    IF w.go = 0 THEN w
    ELSE IF w.go = Begin THEN ChartRefresher([w EXCEPT !.go = 0])
    ELSE ChartRefresherNoParallel([w EXCEPT !.go = 0], w.go)

Act(w) == \E v \in {w} : Becomes(Resume(v))

RefreshTimer(t) ==
    /\ BagIn(t, timers)
    /\ UNCHANGED user
    /\ Act(Then([World EXCEPT !.timers = @ (-) SetToBag({t})], LAMBDA w :
             IF t = Loop THEN ChartRefresher(w) ELSE AutoRefresh(w, t, t + 1)))
-----------------------------------------------------------------------------
(* The answers of the server *)

Answered(req) == [World EXCEPT !.net = @ (-) SetToBag({req})]

Fault == user.faults < MaxFaults /\ user' = [user EXCEPT !.faults = @ + 1]

(* Mutant: a request is counted as ended only if the chart still waits for it. *)
Mut_Always(w, req) ==
    Call([w EXCEPT !.opt.refreshes_active = IF w.st[req.chart].fetching THEN @ - 1 ELSE @,
                   !.st[req.chart].fetching = FALSE], req.chart, req.call)

(* done and always of updateChart()'s request share this: the last handler of both *)
Always(w, req) ==
    Call([w EXCEPT !.opt.refreshes_active = @ - 1, !.st[req.chart].fetching = FALSE],
         req.chart, req.call)

(* updateChartWithData(): resizeChart(), then the counters and the data *)
Received(w, req) ==
    LET c == req.chart
        checked == CheckVisible(w, c)
    IN  [checked EXCEPT !.st[c] = [(IF IsVisible(w, c) THEN ResizeChart(@, c) ELSE @)
                                      EXCEPT !.updated = TRUE, !.view = req.range]]

(* the chart is drawn: a selection ends the sync, the next refresh is set *)
Drawn(w, req) ==
    LET c == req.chart
        drawn == [w EXCEPT !.st[c] = [@ EXCEPT !.created = TRUE,
                                               !.drawn = IF w.st[c].created /\ ~w.st[c].attached
                                                         THEN Nowhere ELSE req.range]]
        stopped == IF w.st[c].selected /\ w.sync.state # None
                   THEN GlobalSelectionSyncStop(drawn, w.sync.state) ELSE drawn
    IN  [stopped EXCEPT !.st[c].due = PanActive(w)]

UpdateChartWithData(w, req, result) ==
    LET c == req.chart IN
    Then(Received(w, req), LAMBDA v :
      CASE result = "empty"    -> [v EXCEPT !.st[c].due = FALSE]
        [] result = "recreate" -> [v EXCEPT !.st[c] = InitForce(@, IsVisible(w, c))]
        [] ~CanBeRendered(v, c) /\ result \in {"broken", "drawn"} -> CheckRendered(v, c)
        [] CanBeRendered(v, c) /\ result = "broken" -> [v EXCEPT !.st[c] = Error(@)]
        [] CanBeRendered(v, c) /\ result = "drawn"  -> Drawn(v, req))

DataDone(req, result) ==
    /\ IF result = "drawn" THEN UNCHANGED user ELSE Fault
    /\ LET w == [Answered(req) EXCEPT !.st[req.chart].retries = 0]
       IN  Act(Then(UpdateChartWithData(w, req, result), LAMBDA v : Always(v, req)))

(* Mutant: a failure does not call the callback. *)
Mut_DataFailIsSilent(req) ==
    /\ Fault
    /\ LET c == req.chart
           s == st[c]
           failed == IF s.retries + 1 > Retries THEN [Error(s) EXCEPT !.retries = 0]
                     ELSE [s EXCEPT !.retries = @ + 1, !.due = FALSE, !.fetching = FALSE]
       IN  Act([Answered(req) EXCEPT !.st[c] = failed, !.opt.refreshes_active = @ - 1])

DataFail(req) ==
    /\ Fault
    /\ LET c == req.chart
           s == st[c]
           failed == IF s.retries + 1 > Retries THEN [Error(s) EXCEPT !.retries = 0]
                     ELSE [s EXCEPT !.retries = @ + 1, !.due = FALSE]
       IN  Act(Then([Answered(req) EXCEPT !.st[c] = failed], LAMBDA v : Always(v, req)))

ChartInfo(req, ok) ==
    /\ IF ok THEN UNCHANGED user ELSE Fault
    /\ LET c == req.chart
           w == [Answered(req) EXCEPT !.st[c] = IF ok THEN [@ EXCEPT !.known = TRUE] ELSE Error(@)]
       IN  Act(Then(w, LAMBDA v : UpdateChart(v, c, req.call)))

LibraryCallback(w, req) ==
    IF req.chart = None THEN [w EXCEPT !.go = req.call.next]
    ELSE Then(w, LAMBDA v : UpdateChart(v, req.chart, req.call))

(* dygraphInitialize(): once loaded, the smooth plotter is loaded too, *)
(* unless the option smooth_plot is off                                *)
LibraryLoaded(req, smooth) ==
    /\ UNCHANGED user
    /\ smooth \/ "settings" \in user.does
    /\ LET w == [Answered(req) EXCEPT !.opt.initialized = TRUE, !.opt.available = TRUE]
       IN  Act(IF smooth THEN Send(w, "smooth", req.chart, req.call, Nowhere)
               ELSE LibraryCallback(w, req))

(* Mutant: the failure of a library does not call the callback. *)
Mut_LibraryFailed(req) == Fault /\ Act([Answered(req) EXCEPT !.opt.available = FALSE])

LibraryFailed(req) ==
    /\ Fault
    /\ Act(LibraryCallback([Answered(req) EXCEPT !.opt.available = FALSE], req))
SmoothAnswer(req) == UNCHANGED user /\ Act(LibraryCallback(Answered(req), req))
-----------------------------------------------------------------------------
(* The user *)

Acting(group, u) ==
    /\ group \in user.does
    /\ user.acts < MaxActs
    /\ user' = [u EXCEPT !.acts = @ + 1]

(* a chart the pointer can reach, and the pointer over it *)
Reachable(c) == st[c].created /\ st[c].enabled /\ st[c].attached /\ ~st[c].hidden /\ IsVisible(World, c)
Over(c) == user.hover = c /\ Reachable(c)

Upd(w, c, s) == [w EXCEPT !.st[c] = s]

Highlight(c) ==
    /\ Reachable(c) /\ user.hover \in {None, c} /\ user.drag = "no"
    /\ Acting("select", [user EXCEPT !.hover = c])
    /\ Becomes(GlobalSelectionSync(Upd(World, c, [st[c] EXCEPT !.paused = TRUE]), c))

(* the pointer leaves; a chart that was destroyed under it has no handler any more *)
Unhighlight(c) ==
    /\ user.hover = c /\ user.drag = "no"
    /\ user' = [user EXCEPT !.hover = None]
    /\ Becomes(IF st[c].created
               THEN GlobalSelectionSyncStop(Upd(World, c, [st[c] EXCEPT !.paused = FALSE]), c)
               ELSE World)

(* a drag: the selection stops, the chart leaves the auto mode, no sync for a while *)
Grab(w, c, mode) ==
    LET stopped == GlobalSelectionSyncStop(w, c)
    IN  GlobalSelectionSyncDelay(Upd(stopped, c, SetMode(stopped.st[c], mode)))

MouseDown(c, mode) ==
    /\ Over(c) /\ user.drag = "no"
    /\ Acting("drag", [user EXCEPT !.drag = mode])
    /\ Becomes(Grab(World, c, mode))

(* the right button only ends the selection *)
RightButton(c) ==
    /\ Over(c) /\ user.drag = "no"
    /\ Acting("drag", user)
    /\ Becomes(GlobalSelectionSyncStop(World, c))

(* What dygraph reports while it is dragged, unless that is outside the    *)
(* database, and when an area was selected.  (It also reports the range    *)
(* of an answer that is drawn: the view the chart has already.)            *)
DrawCallback(w, c, range, inside) ==
    IF w.st[c].mode = "auto" \/ ~inside THEN w ELSE UpdateChartPanOrZoom(w, c, range)

ZoomCallback(w, c, range) == UpdateChartPanOrZoom(Grab(w, c, "zoom"), c, range)

(* panning draws; zooming only marks the area; the first move of a drag is *)
(* not counted as a step of the user *)
MouseMove(c, range) ==
    /\ Over(c) /\ user.drag \in {"pan", "zoom"}
    /\ IF user.moved THEN Acting("drag", user) ELSE user' = [user EXCEPT !.moved = TRUE]
    /\ LET w == Grab(World, c, user.drag)
       IN  \E inside \in BOOLEAN :
              Becomes(IF user.drag = "pan" THEN DrawCallback(w, c, range, inside) ELSE w)

MouseUp(c, range) ==
    /\ user.hover = c /\ user.drag \in {"pan", "zoom"}
    /\ user' = [user EXCEPT !.drag = "no", !.moved = FALSE]
    /\ Becomes(IF ~Reachable(c) THEN World
               ELSE IF user.drag = "zoom" /\ user.moved THEN ZoomCallback(World, c, range)
               ELSE GlobalSelectionSyncDelay(World))

Wheel(c, range) ==
    /\ Over(c) /\ user.drag = "no"
    /\ Acting("wheel", user)
    /\ Becomes(UpdateChartPanOrZoom(Grab(World, c, "zoom"), c, range))

(* the master is set whether the range is accepted or not *)
ToolboxPanAndZoom(w, c, range) ==
    SetMaster(UpdateChartPanOrZoom(Grab(w, c, "zoom"), c, range), c, range)

(* a button of the toolbox: pan left or right, zoom in or out *)
ToolboxButton(c, range) ==
    /\ Reachable(c) /\ user.hover = None
    /\ Acting("toolbox", user)
    /\ Becomes(ToolboxPanAndZoom(World, c, range))

(* the double click, and the reset button of the toolbox *)
Reset(c) ==
    /\ Reachable(c) /\ user.hover \in {None, c} /\ user.drag = "no"
    /\ Acting("reset", user)
    /\ Act(ResetAllCharts(World, c))

TouchStart(c) ==
    /\ Reachable(c) /\ user.hover = None /\ user.drag = "no"
    /\ Acting("touch", [user EXCEPT !.hover = c, !.drag = "touch", !.touched = TRUE])
    /\ Becomes(Upd(World, c, [SetMode(st[c], "zoom") EXCEPT !.paused = TRUE]))

TouchMove(c, range) ==
    /\ Over(c) /\ user.drag \in {"touch", "swipe"}
    /\ Acting("touch", [user EXCEPT !.drag = "swipe"])
    /\ Becomes(UpdateChartPanOrZoom(World, c, range))

(* a touch without a move selects; a second one soon after it resets the charts *)
TouchEnd(c, double) ==
    /\ user.hover = c /\ user.drag \in {"touch", "swipe"}
    /\ user' = [user EXCEPT !.hover = None, !.drag = "no"]
    /\ LET tapped == IF user.drag = "touch" THEN GlobalSelectionSync(World, c) ELSE World
       IN  Act(IF ~st[c].created THEN World
               ELSE IF user.drag = "touch" /\ double THEN ResetAllCharts(tapped, c) ELSE tapped)
-----------------------------------------------------------------------------
(* The page around the charts *)

(* onscroll(): at once, or by a timer when the browser is slow; a scroll   *)
(* while that timer is pending arms a watchdog instead.  missed is         *)
(* last_page_scroll > onscroll_updater_last_run; scrolling is the flag     *)
(* onscroll_updater_running, queued its timer.                             *)
OnScroll(w) ==
    LET scrolled == [w EXCEPT !.opt.stopped = FALSE, !.opt.missed = TRUE]
    IN  IF ~w.opt.async THEN [CheckAll(scrolled, w.opt.targets) EXCEPT !.opt.missed = FALSE]
        ELSE IF w.opt.scrolling THEN [scrolled EXCEPT !.opt.watchdog = TRUE]
        ELSE [scrolled EXCEPT !.opt.scrolling = TRUE, !.opt.queued = TRUE]

(* the sync handler turns itself into the async one when it is slow too often *)
Scroll(visible, slow) ==
    /\ Acting("scroll", user)
    /\ slow => "async" \in user.does /\ ~opt.async
    /\ LET w == OnScroll([World EXCEPT !.opt.visible = visible])
       IN  Becomes([w EXCEPT !.opt.async = @ \/ slow])

(* Mutant: the updater forgets to look at the charts. *)
Mut_OnScrollUpdater ==
    /\ opt.queued
    /\ UNCHANGED user
    /\ Becomes([World EXCEPT !.opt.queued = FALSE, !.opt.scrolling = FALSE, !.opt.missed = FALSE])

OnScrollUpdater ==
    /\ opt.queued
    /\ UNCHANGED user
    /\ Becomes([CheckAll(World, opt.targets) EXCEPT
                   !.opt.queued = FALSE, !.opt.scrolling = FALSE, !.opt.missed = FALSE])

OnScrollWatchdog ==
    /\ opt.watchdog
    /\ UNCHANGED user
    /\ LET w == IF ~opt.scrolling /\ opt.missed
                THEN [CheckAll(World, opt.targets) EXCEPT !.opt.missed = FALSE] ELSE World
       IN  Becomes([w EXCEPT !.opt.watchdog = FALSE])

OnResize(visible) ==
    /\ Acting("resize", user)
    /\ Becomes(OnScroll([World EXCEPT !.opt.visible = visible,
                                      !.st = [c \in Charts |-> [@[c] EXCEPT !.resized = FALSE]]]))

ResizeChartToHeight(c) ==
    /\ Reachable(c)
    /\ Acting("resize", user)
    /\ LET w == CheckVisible([World EXCEPT !.opt.stopped = TRUE, !.opt.missed = TRUE], c)
       IN  Becomes([w EXCEPT !.st[c] = ResizeChart([@ EXCEPT !.resized = FALSE], c)])

Focus(on) ==
    /\ opt.focus # on
    /\ Acting("focus", user)
    /\ Becomes([World EXCEPT !.opt.focus = on])

AddElement(c) ==
    /\ c \notin opt.elements
    /\ Acting("dom", user)
    /\ Becomes([World EXCEPT !.opt.elements = @ \cup {c}, !.opt.updated_dom = TRUE])

Pause ==
    /\ Acting("pause", user)
    /\ Becomes([World EXCEPT !.opt.pauseCallback = ~opt.pause \/ @])

Unpause ==
    /\ opt.pauseCallback
    /\ Acting("pause", user)
    /\ Becomes([World EXCEPT !.opt = [@ EXCEPT !.pauseCallback = FALSE, !.updated_dom = TRUE,
                                               !.pause = FALSE]])

(* the delays that pass: a forced update, the next refresh, the stop of the *)
(* refresher while panning, the delay of the selection sync                 *)
Elapse(c) ==
    /\ st[c].force = "wait" \/ ~st[c].due
    /\ UNCHANGED user
    /\ Becomes([World EXCEPT !.st[c] = [@ EXCEPT !.force = IF @ = "wait" THEN "due" ELSE @,
                                                 !.due = TRUE]])
StopElapses == opt.stopped /\ Becomes([World EXCEPT !.opt.stopped = FALSE]) /\ UNCHANGED user
DelayElapses == sync.delay /\ Becomes([World EXCEPT !.sync.delay = FALSE]) /\ UNCHANGED user

-----------------------------------------------------------------------------
(* start(): parseDom() has found the elements, the refresher makes its    *)
(* first pass.  The page shows its top: the first of its charts.           *)
Init ==
    \E does \in Users,
       elements, visible \in {1 .. n : n \in 1 .. NCharts}, destroy, parallel, async \in BOOLEAN,
       syncs \in SUBSET {"pan", "selection"} :
        /\ ("settings" \in does) \/ (parallel /\ ~destroy)
        /\ ("unsynced" \in does) \/ syncs = {"pan", "selection"}
        /\ async => "async" \in does
        /\ ("dom" \in does) \/ elements = Charts
        /\ ("scroll" \in does) \/ visible = Charts
        /\ st = [c \in Charts |-> NewChart]
        /\ pz = [master |-> None, seq |-> 0, range |-> Nowhere, clock |-> 0]
        /\ sync = [state |-> None, slaves |-> {}, delay |-> FALSE]
        /\ net = EmptyBag
        /\ timers = SetToBag({Loop})
        /\ opt = [visible |-> visible, elements |-> elements, targets |-> elements,
                  updated_dom |-> FALSE, pause |-> FALSE, pauseCallback |-> FALSE, focus |-> TRUE,
                  destroy |-> destroy, parallel |-> parallel, syncs |-> syncs, initialized |-> FALSE,
                  available |-> TRUE, stopped |-> FALSE, refreshes_active |-> 0, async |-> async,
                  scrolling |-> FALSE, queued |-> FALSE, watchdog |-> FALSE, missed |-> TRUE,
                  thrown |-> FALSE]
        /\ user = [does |-> does, hover |-> None, drag |-> "no", moved |-> FALSE,
                   touched |-> FALSE, acts |-> 0, faults |-> 0]

AnswerTo(c) ==
    \E req \in {r \in BagToSet(net) : r.chart = c} :
        \/ req.kind = "data" /\ \E result \in {"drawn", "empty", "recreate", "broken"} : DataDone(req, result)
        \/ req.kind = "data" /\ DataFail(req)
        \/ req.kind = "info" /\ \E ok \in BOOLEAN : ChartInfo(req, ok)
        \/ req.kind = "library" /\ ((\E smooth \in BOOLEAN : LibraryLoaded(req, smooth)) \/ LibraryFailed(req))
        \/ req.kind = "smooth" /\ SmoothAnswer(req)

Pointer(c) ==
    \/ Highlight(c) \/ Unhighlight(c) \/ RightButton(c) \/ Reset(c) \/ TouchStart(c)
    \/ \E mode \in {"pan", "zoom"} : MouseDown(c, mode)
    \/ \E range \in Ranges : \/ MouseMove(c, range) \/ MouseUp(c, range) \/ Wheel(c, range)
                             \/ ToolboxButton(c, range) \/ TouchMove(c, range)
    \/ \E double \in BOOLEAN : TouchEnd(c, double)

Browser ==
    \/ \E visible \in SUBSET Charts : (\E slow \in BOOLEAN : Scroll(visible, slow)) \/ OnResize(visible)
    \/ \E c \in Charts : ResizeChartToHeight(c) \/ AddElement(c)
    \/ (\E on \in BOOLEAN : Focus(on)) \/ Pause \/ Unpause

RefresherRuns == \E t \in Charts \cup {Loop} : RefreshTimer(t)
Timer ==
    \/ RefresherRuns
    \/ OnScrollUpdater \/ OnScrollWatchdog
    \/ \E c \in Charts : Elapse(c)
    \/ StopElapses \/ DelayElapses

Next == (\E c \in Charts \cup {None} : AnswerTo(c)) \/ (\E c \in Charts : Pointer(c)) \/ Browser \/ Timer

Spec == Init /\ [][Next]_vars

(* timers fire, delays pass, and every request ends: the server answers or the browser gives up *)
ChartProgress(c) == AnswerTo(c) \/ Elapse(c)
PageProgress == AnswerTo(None) \/ StopElapses \/ OnScrollUpdater \/ OnScrollWatchdog
FairSpec ==
    /\ Spec
    /\ WF_vars(RefresherRuns) /\ WF_vars(PageProgress)
    /\ \A c \in Charts : WF_vars(ChartProgress(c))

-----------------------------------------------------------------------------
(* Properties *)

(* The type of every variable; a chart never carries the sequence number *)
(* of a pan or zoom that has not happened yet.                           *)
TypeOK ==
    /\ \A c \in Charts :
          /\ st[c].mode \in {"auto", "pan", "zoom"} /\ st[c].force \in {"no", "wait", "due"}
          /\ {st[c].range, st[c].view, st[c].drawn} \subseteq Ranges \cup {Nowhere, "live"}
          /\ st[c].seq <= pz.clock /\ st[c].retries <= Retries
    /\ pz.master \in Charts \cup {None} /\ sync.state \in Charts \cup {None}
    /\ sync.slaves \subseteq Charts /\ IsABag(net) /\ IsABag(timers)
    /\ opt.targets \subseteq opt.elements

(* the number of requests in flight that satisfy P *)
Copies(P(_)) == LET Count(req, n) == n + net[req]
                IN  FoldSet(Count, 0, {req \in BagToSet(net) : P(req)})

(* The refresher is one thread: at every moment it is either a pending     *)
(* timer or the callback of one request, never two, and it is lost in one  *)
(* case only, through errors, failed requests, pauses and changes of the   *)
(* page: when an element is added after the library failed to load, as the *)
(* constructor of its chart throws inside parseDom() (1568-1603, 1782).    *)
OneRefresher ==
    BagCardinality(timers) + Copies(LAMBDA req : req.call.next # 0) = IF opt.thrown THEN 0 ELSE 1

(* A chart is marked as running (the flag of autoRefresh()) exactly while one request *)
(* that will clear the mark is in flight: no chart is blocked forever and  *)
(* none is refreshed twice at once by the refresher, however the direct    *)
(* updates of resetChart() interleave.  And                                *)
(* NETDATA.statistics.refreshes_active counts the data requests in flight, *)
(* whichever way each of them ends.                                        *)
RunningIsAwaited ==
    /\ \A c \in Charts :
          Copies(LAMBDA req : req.chart = c /\ req.call.run) = IF st[c].running THEN 1 ELSE 0
    /\ opt.refreshes_active = Copies(LAMBDA req : req.kind = "data")

(* With a mouse, a chart shows a selection only while it is the master of  *)
(* the selection sync or one of its slaves: no handler leaves a chart      *)
(* selected, which would stop its refresh for good.                        *)
SelectedIsSynced ==
    user.touched \/ \A c \in Charts : st[c].selected => c \in {sync.state} \cup sync.slaves

Refreshable(c) ==
    /\ c \in opt.targets /\ IsVisible(World, c) /\ opt.focus /\ ~opt.pause /\ ~opt.pauseCallback
    /\ st[c].enabled /\ st[c].attached /\ st[c].mode = "auto" /\ ~st[c].selected /\ ~st[c].paused
    /\ ~PanActive(World)

(* A visible chart in the auto mode that nothing holds back ends up        *)
(* showing live data, whatever the user did before and whichever requests  *)
(* failed.                                                                 *)
KeepsRefreshing == \A c \in Charts : <>[]Refreshable(c) => <>[](st[c].drawn = "live")

(* An asynchronous scroll handler, or its watchdog, is followed by a state *)
(* in which the charts that are shown are the ones in the viewport; also   *)
(* while the page is paused, when the refresher looks at no chart and      *)
(* onscroll_updater() is all there is.                                     *)
ScrollIsSeen ==
    (opt.queued \/ opt.watchdog) ~> (\A c \in opt.targets : st[c].hidden <=> ~IsVisible(World, c))
=============================================================================
