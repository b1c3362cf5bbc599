---------------------------- MODULE ChartLibraries ----------------------------
(***************************************************************************)
(* How the dashboard loads what it needs (portal/dashboard.js): jQuery,    *)
(* the required scripts and styles (3923-3963, 6395-6490, 7074-7094), and  *)
(* then each chart library when a chart first uses it: the initialize()    *)
(* functions of the table 6170-6390, and their create() and update().      *)
(*                                                                         *)
(* Of a library the model keeps what it needs first, whether it loads      *)
(* packages after its script, and whether it can draw; what it draws is    *)
(* left out.  dygraph is in DashboardPage.                                 *)
(*                                                                         *)
(* initialize() is called by the refresher, which waits for the callback,  *)
(* and by updateChart() of a chart: nothing stops a second call while the  *)
(* script of the first is on its way.                                      *)
(***************************************************************************)
EXTENDS Pending, FiniteSets

CONSTANTS LibCharts,      \* the charts of the page: 1..n
          Libraries,      \* the libraries they use, with those they need
          LibRequests,    \* how many requests of charts are under way, at most
          LibFaults       \* how many requests fail, at most

VARIABLE libs

\* Libraries that are one script.
Peity == [base |-> "peity", packages |-> FALSE, draws |-> TRUE]
Sparkline == [base |-> "sparkline", packages |-> FALSE, draws |-> TRUE]
EasyPieChart == [base |-> "easypiechart", packages |-> FALSE, draws |-> TRUE]
GaugeJs == [base |-> "gauge", packages |-> FALSE, draws |-> TRUE]

\* morris needs raphael and c3 needs d3, which cannot draw themselves.
Morris == [base |-> "raphael", packages |-> FALSE, draws |-> TRUE]
Raphael == [base |-> "raphael", packages |-> FALSE, draws |-> FALSE]
C3 == [base |-> "d3", packages |-> FALSE, draws |-> TRUE]
D3 == [base |-> "d3", packages |-> FALSE, draws |-> FALSE]

\* google's script is loaded, then its packages.
Google == [base |-> "google", packages |-> TRUE, draws |-> TRUE]

\* NETDATA.chartLibraries
ChartLibrary ==
    [peity |-> Peity, sparkline |-> Sparkline, easypiechart |-> EasyPieChart, gauge |-> GaugeJs,
     morris |-> Morris, raphael |-> Raphael, c3 |-> C3, d3 |-> D3, google |-> Google]

\* What a library cannot be loaded without (none: itself).
Base(l) == ChartLibrary[l].base
HasPackages(l) == ChartLibrary[l].packages

ASSUME LibsAssumption ==
    /\ LibCharts \subseteq Nat \ {0} /\ LibFaults \in Nat
    /\ Libraries \subseteq DOMAIN ChartLibrary /\ \A l \in Libraries : Base(l) \in Libraries

Refresher == 0

\* A library of the table.  History: `script`, whether its script was loaded;
\* `packages`, whether google has its packages.
NewLibrary == [initialized |-> FALSE, enabled |-> TRUE, script |-> FALSE,
               packages |-> FALSE]

\* `boot`: what the page waits for, or "started"; `of`: the library of each chart;
\* `stop`: the libraries the page turned off (netdataNoPeitys and the like);
\* `loop`: whether the refresher has a timer ("due"); `calls`: the requests under
\* way, each with the library it was sent for (`goal`) and whom it calls back.  The
\* charts are there from the start, when no library is disabled: see ParseDom of
\* DashboardPage for one that comes later.  Each names a library of the table.
LibsInit ==
    \E of \in [LibCharts -> Libraries], stop \in {{}} \cup {{l} : l \in Libraries} :
        libs = [boot |-> "jquery", of |-> of, stop |-> stop,
                lib |-> [l \in Libraries |-> NewLibrary], loop |-> "none",
                enabled |-> [c \in LibCharts |-> TRUE],
                calls |-> Once({}), faults |-> LibFaults]

\* A request has been answered; a request is sent.
Taken(s, call) == [s EXCEPT !.calls = Less(@, call)]

AskLib(s, op, l, goal, who) ==
    [s EXCEPT !.calls = Also(@, {[op |-> op, lib |-> l, goal |-> goal, who |-> who]})]

DataRequest(s, c) == [op |-> "data", lib |-> s.of[c], goal |-> s.of[c], who |-> c]

\* error(): the chart shows the message and is not refreshed any more.
ChartError(s, c) == [s EXCEPT !.enabled[c] = FALSE]

\* Mutant: a base that is not there disables the library.
Mut_EndsAtOnce(s, goal) ==
    goal \in s.stop \/ (Base(goal) # goal /\ ~ s.lib[Base(goal)].initialized)

\* initialize() ends at once, and calls back, when the page turned the library
\* off, or its base is disabled or turned off: then the library is disabled.
EndsAtOnce(s, goal) ==
    \/ goal \in s.stop
    \/ LET base == Base(goal)
       IN  ~ s.lib[base].initialized /\ (base \in s.stop \/ ~ s.lib[base].enabled)

Disabled(s, goal) ==
    LET off == {goal} \cup ({Base(goal)} \cap s.stop)
    IN  [s EXCEPT !.lib = [l \in Libraries |->
            IF l \in off THEN [s.lib[l] EXCEPT !.enabled = FALSE] ELSE s.lib[l]]]

\* initialize() otherwise: the script is asked for, or that of the base first.
Initialize(s, goal, who) ==
    AskLib(s, "script", IF s.lib[Base(goal)].initialized THEN goal ELSE Base(goal), goal, who)

\* updateChart(): the data is asked for when the library is there; otherwise the
\* library is initialized first, unless it is disabled.
UpdateLibChart(s, c) ==
    LET l == s.of[c]
    IN  IF ~ s.enabled[c] THEN s
        ELSE IF s.lib[l].initialized THEN AskLib(s, "data", l, l, c)
        ELSE IF ~ s.lib[l].enabled THEN ChartError(s, c)
        ELSE IF EndsAtOnce(s, l) THEN ChartError(Disabled(s, l), c)
        ELSE Initialize(s, l, c)

\* The callback of initialize(): chartRefresher(), or updateChart() of the chart.
CallBack(s, who) ==
    IF who = Refresher THEN [s EXCEPT !.loop = "due"] ELSE UpdateLibChart(s, who)

InitializeOrCallBack(s, goal, who) ==
    IF EndsAtOnce(s, goal) THEN CallBack(Disabled(s, goal), who) ELSE Initialize(s, goal, who)

-----------------------------------------------------------------------------
\* The script of jQuery arrives: the required scripts are loaded.
JQueryLoaded ==
    /\ libs.boot = "jquery"
    /\ libs' = [libs EXCEPT !.boot = "bootstrap"]

\* jQuery cannot be loaded: the page never starts.
JQueryFails ==
    /\ libs.boot = "jquery"
    /\ libs.faults > 0
    /\ libs' = [libs EXCEPT !.boot = "dead", !.faults = @ - 1]

\* Mutant: what the page waits for is only started with when it was loaded.
Mut_BootstrapAnswer ==
    /\ libs.boot = "bootstrap"
    /\ \/ libs' = [libs EXCEPT !.boot = "started", !.loop = "due"]
       \/ /\ libs.faults > 0
          /\ libs' = [libs EXCEPT !.boot = "stuck", !.faults = @ - 1]

\* bootstrap arrives, or fails (or was there): either way the page starts.  It
\* does not wait for the next script, the scroll bars.
BootstrapAnswer ==
    /\ libs.boot = "bootstrap"
    /\ \E fails \in {f \in {0, 1} : f <= libs.faults} :
          libs' = [libs EXCEPT !.boot = "started", !.loop = "due",
                               !.faults = @ - fails]

HasDataRequest(s, c) == \E call \in DOMAIN s.calls : call.who = c /\ call.op = "data"

\* chartRefresher(): of the charts on the screen that are not running, from the
\* last to the first, those of a disabled library show the error, and the first
\* whose library is not there makes the pass end with initialize().  Without such
\* a chart the charts whose time has come are refreshed, unless their library,
\* loaded once, failed to load again (canBeAutoRefreshed()), and a timer is set:
\* the libraries are there, so that updateChart() asks for the data.
LibPass ==
    /\ libs.loop = "due"
    /\ \E seen \in SUBSET LibCharts :
          LET lib(c) == libs.lib[libs.of[c]]
              loads == {c \in seen : ~ lib(c).initialized /\ lib(c).enabled}
              passed == {c \in seen : \A d \in loads : d < c}
              lost == {c \in passed : ~ lib(c).enabled /\ (lib(c).initialized => loads = {})}
              s == [libs EXCEPT !.enabled =
                        [c \in LibCharts |-> libs.enabled[c] /\ c \notin lost]]
          IN  \/ \E c \in loads :
                    /\ \A d \in loads : d <= c
                    /\ libs' = InitializeOrCallBack([s EXCEPT !.loop = "waiting"],
                                                    libs.of[c], Refresher)
              \/ /\ loads = {}
                 /\ \E ready \in SUBSET {c \in seen : s.enabled[c] /\ ~ HasDataRequest(s, c)} :
                       /\ Cardinality(Copies(s.calls, DOMAIN s.calls)) + Cardinality(ready) <= LibRequests
                       /\ libs' = [s EXCEPT !.calls =
                                       Also(@, {DataRequest(s, c) : c \in ready})]

\* A chart is updated because it was shown, reset or panned, whatever is under
\* way for its library.  A chart has one request for data at a time.
LibChartUpdate(c) ==
    /\ libs.boot = "started"
    /\ libs.enabled[c]
    /\ Cardinality(Copies(libs.calls, DOMAIN libs.calls)) < LibRequests
    /\ ~ HasDataRequest(libs, c)
    /\ libs' = UpdateLibChart(libs, c)

\* Mutant: a script that fails is registered like one that was loaded.
Mut_RegisterChartLibrary(s, l, loaded) ==
    [s EXCEPT !.lib[l].initialized = TRUE, !.lib[l].enabled = TRUE, !.lib[l].script = loaded]

\* registerChartLibrary(), or the failure of the script.
RegisterChartLibrary(s, l, loaded) ==
    LET lib == IF loaded
               THEN [s.lib[l] EXCEPT !.initialized = TRUE, !.enabled = TRUE, !.script = TRUE]
               ELSE [s.lib[l] EXCEPT !.enabled = FALSE]
    IN  [s EXCEPT !.lib[l] = lib]

\* Mutant: google calls back like the others, and again when it has its packages.
Mut_AfterScript(s, call, loaded) ==
    IF HasPackages(call.lib) /\ loaded
    THEN CallBack(AskLib(s, "packages", call.lib, call.goal, call.who), call.who)
    ELSE IF call.lib # call.goal THEN InitializeOrCallBack(s, call.goal, call.who)
    ELSE CallBack(s, call.who)

\* What the answer to a script goes on with: google asks for its packages, a
\* base goes on to the library it was loaded for, any other calls back.
AfterScript(s, call, loaded) ==
    IF HasPackages(call.lib) /\ loaded THEN AskLib(s, "packages", call.lib, call.goal, call.who)
    ELSE IF call.lib # call.goal THEN InitializeOrCallBack(s, call.goal, call.who)
    ELSE CallBack(s, call.who)

\* The answer to a script, loaded or not.
ScriptAnswer(call) ==
    /\ call.op = "script"
    /\ \E loaded \in BOOLEAN :
          LET s == RegisterChartLibrary(Taken(libs, call), call.lib, loaded)
          IN  /\ loaded \/ libs.faults > 0
              /\ libs' = [AfterScript(s, call, loaded)
                             EXCEPT !.faults = IF loaded THEN @ ELSE @ - 1]

\* google.load() has the packages, and calls back.  It is given no callback for
\* a failure: packages that cannot be loaded are a request that is never answered.
PackagesAnswer(call) ==
    /\ call.op = "packages"
    /\ libs' = CallBack([Taken(libs, call) EXCEPT !.lib[call.lib].packages = TRUE], call.who)

\* Whether create() or update() of a library succeed: raphael and d3 return false,
\* google throws without its packages.
CanDraw(s, l) == ChartLibrary[l].draws /\ (HasPackages(l) => s.lib[l].packages)

\* The data of a chart arrives and is drawn, or the chart shows an error.
DataAnswer(call) ==
    /\ call.op = "data"
    /\ libs' = IF CanDraw(libs, libs.of[call.who])
               THEN Taken(libs, call)
               ELSE ChartError(Taken(libs, call), call.who)

LibAnswers ==
    \E call \in DOMAIN libs.calls : ScriptAnswer(call) \/ PackagesAnswer(call) \/ DataAnswer(call)

Boot == JQueryLoaded \/ JQueryFails \/ BootstrapAnswer

LibsNext ==
    \/ Boot \/ LibPass
    \/ LibAnswers
    \/ \E c \in LibCharts : LibChartUpdate(c)

LibsSpec == LibsInit /\ [][LibsNext]_libs

\* Every script the refresher waits for is loaded or fails.
RefresherAnswers ==
    \E call \in DOMAIN libs.calls : call.who = Refresher /\ ScriptAnswer(call)

LibsFairness == WF_libs(Boot) /\ WF_libs(RefresherAnswers)

LibsFairSpec == LibsSpec /\ LibsFairness

-----------------------------------------------------------------------------
(***************************************************************************)
(* Properties                                                              *)
(***************************************************************************)

\* The refresher's callback is called at most once, and is never dropped: while it
\* waits, one request under way carries it, and none does while it runs; whatever
\* is turned off, fails, or is initialized twice (initialize() 4246-4271,
\* 5147-5190, 5438-5465).
RefresherIsCalledOnce ==
    LET mine == {call \in DOMAIN libs.calls : call.who = Refresher}
    IN  IF libs.loop = "waiting" THEN \E call \in mine : mine = {call} /\ libs.calls[call] = 1
        ELSE mine = {}

\* A library is there only after its own script, and that of the library it
\* needs, was loaded (morrisInitialize() 5147-5190, c3Initialize() 5278-5321).
LoadedWithItsBase ==
    \A l \in Libraries :
        libs.lib[l].initialized => libs.lib[l].script /\ libs.lib[Base(l)].script

\* A chart is given up only for a reason: its library cannot draw, or it or its
\* base was turned off or failed to load.  (google is registered before it has
\* its packages, 5447: a chart that is updated in between is given up.)
GivenUpForAReason ==
    \A c \in LibCharts :
        ~ libs.enabled[c] =>
            \/ ~ ChartLibrary[libs.of[c]].draws \/ HasPackages(libs.of[c])
            \/ {libs.of[c], Base(libs.of[c])} \cap libs.stop # {}
            \/ libs.faults < LibFaults

\* The refresher has its timer, or waits for google's packages, which may never come.
RefresherIsBack ==
    \/ libs.loop = "due" \/ libs.boot = "dead"
    \/ \E call \in DOMAIN libs.calls : call.who = Refresher /\ call.op = "packages"

=============================================================================
