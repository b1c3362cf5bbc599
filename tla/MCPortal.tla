------------------------------ MODULE MCPortal ------------------------------
(***************************************************************************)
(* The parts of the portal pages that share no state, and the web server   *)
(* of LMice, side by side: the initial state chooses one of them, and it   *)
(* runs alone.  `part` is the part; each part has its own variable, in     *)
(* which nothing happens while another part runs.  The page of charts has  *)
(* a module of its own (MCDashboardPage).                                  *)
(***************************************************************************)
EXTENDS Integers, PortalStorage, WebServer, OldPortal, ChartLegend, PortalAlarms,
        RegistryClient, ChartLibraries, ValueScale, ChartGauge, ChartResize, ChartMath,
        ValueFormat

CONSTANT Parts            \* the parts that are checked

VARIABLE part

vars == <<part, old, legend, al, reg, libs, scale, gauge, resize, math, fmt, store, web>>

Is(p) == part = p

\* What the variable of a part that does not run is, for ever.
Idle == "idle"

\* The storage of a browser that was never used.
StoreIsNew == StoreInit /\ store.saved = [k \in StoreKeys |-> Absent]

Init ==
    /\ part \in Parts
    /\ IF Is("old") THEN OldInit ELSE old = Idle
    /\ IF Is("legend") THEN LegendInit ELSE legend = Idle
    /\ IF Is("alarms") THEN AlarmInit ELSE al = Idle
    /\ IF Is("registry") THEN RegistryInit ELSE reg = Idle
    /\ IF Is("libraries") THEN LibsInit ELSE libs = Idle
    /\ IF Is("scale") THEN ScaleInit ELSE scale = Idle
    /\ IF Is("gauge") THEN GaugeInit ELSE gauge = Idle
    /\ IF Is("resize") THEN ResizeInit ELSE resize = Idle
    /\ IF Is("math") THEN MathInit ELSE math = Idle
    /\ IF Is("format") THEN FormatInit ELSE fmt = Idle
    /\ IF Is("storage") THEN StoreInit ELSE StoreIsNew
    /\ WebInit

\* Only one part takes a step.
OldOnly ==
    /\ Is("old")
    /\ UNCHANGED <<part, legend, al, reg, libs, scale, gauge, resize, math, fmt, store, web>>
LegendOnly ==
    /\ Is("legend")
    /\ UNCHANGED <<part, old, al, reg, libs, scale, gauge, resize, math, fmt, store, web>>
AlarmOnly ==
    /\ Is("alarms")
    /\ UNCHANGED <<part, old, legend, reg, libs, scale, gauge, resize, math, fmt, store, web>>
RegistryOnly ==
    /\ Is("registry")
    /\ UNCHANGED <<part, old, legend, al, libs, scale, gauge, resize, math, fmt, store, web>>
LibsOnly ==
    /\ Is("libraries")
    /\ UNCHANGED <<part, old, legend, al, reg, scale, gauge, resize, math, fmt, store, web>>
ScaleOnly ==
    /\ Is("scale")
    /\ UNCHANGED <<part, old, legend, al, reg, libs, gauge, resize, math, fmt, store, web>>
GaugeOnly ==
    /\ Is("gauge")
    /\ UNCHANGED <<part, old, legend, al, reg, libs, scale, resize, math, fmt, store, web>>
ResizeOnly ==
    /\ Is("resize")
    /\ UNCHANGED <<part, old, legend, al, reg, libs, scale, gauge, math, fmt, store, web>>
MathOnly ==
    /\ Is("math")
    /\ UNCHANGED <<part, old, legend, al, reg, libs, scale, gauge, resize, fmt, store, web>>
FormatOnly ==
    /\ Is("format")
    /\ UNCHANGED <<part, old, legend, al, reg, libs, scale, gauge, resize, math, store, web>>
StoreOnly ==
    /\ Is("storage")
    /\ UNCHANGED <<part, old, legend, al, reg, libs, scale, gauge, resize, math, fmt, web>>
WebOnly ==
    /\ Is("server")
    /\ UNCHANGED <<part, old, legend, al, reg, libs, scale, gauge, resize, math, fmt, store>>

Next ==
    \/ OldOnly /\ OldNext
    \/ LegendOnly /\ LegendNext
    \/ AlarmOnly /\ AlarmNext
    \/ RegistryOnly /\ RegistryNext
    \/ LibsOnly /\ LibsNext
    \/ ScaleOnly /\ ScaleNext
    \/ GaugeOnly /\ GaugeNext
    \/ ResizeOnly /\ ResizeNext
    \/ MathOnly /\ MathNext
    \/ FormatOnly /\ FormatNext
    \/ StoreOnly /\ StoreNext
    \/ WebOnly /\ WebNext

Spec == Init /\ [][Next]_vars

-----------------------------------------------------------------------------
(* The fairness of every part, as its module states it. *)
OldIsFair == WF_vars(OldOnly /\ Goes) /\ WF_vars(OldOnly /\ OtherDelays)

AlarmsAreFair ==
    /\ WF_vars(AlarmOnly /\ (ActiveAnswer \/ ActiveFails))
    /\ WF_vars(AlarmOnly /\ (LogAnswer \/ LogFails))
    /\ WF_vars(AlarmOnly /\ Shows)
    /\ WF_vars(AlarmOnly /\ PollDue)
    /\ WF_vars(AlarmOnly /\ HalfSecond)

OthersAreFair ==
    /\ WF_vars(RegistryOnly /\ RegistryAnswers)
    /\ WF_vars(LibsOnly /\ Boot)
    /\ WF_vars(LibsOnly /\ RefresherAnswers)
    /\ \A c \in Lines : WF_vars(ScaleOnly /\ LineRefresh(c))
    /\ \A c \in Dials : WF_vars(ScaleOnly /\ DialRefresh(c))
    /\ WF_vars(GaugeOnly /\ GaugeTimer)

FairSpec == Spec /\ OldIsFair /\ AlarmsAreFair /\ OthersAreFair

-----------------------------------------------------------------------------
(* The safety properties of the parts.  Those of the settings and of the   *)
(* server are SavedIsUsed and ResetWorks of PortalStorage, and             *)
(* RegisteredIsKept and LoginIsSound of WebServer.                         *)

(* Old portal: at most one thread of refreshes, and the charts it works on *)
(* are there (index.js 541-860).                                           *)
OneThread == Is("old") => AtMostOneThread /\ ScreenHasItsCharts


(* Alarms: of every entry that calls for it there is a notification, and   *)
(* one only while log requests do not overlap (6662-6700).                 *)
NotifiedOnce == Is("alarms") => NoneIsSkipped /\ NeverTwice

(* Registry: the list of machines is what the last answer said, each       *)
(* machine with all its urls, and at rest what the registry holds          *)
(* (6835-6981).                                                            *)
MachinesAreTrue == Is("registry") => MachinesAreMerged /\ FreshAtRest

(* Libraries: however scripts load and fail, the refresher is called       *)
(* exactly once, no library is there without what it needs, and no chart   *)
(* is given up without a reason (4246-4271, 5147-5465).                    *)
LoadingIsSound ==
    Is("libraries") => /\ RefresherIsCalledOnce
                       /\ LoadedWithItsBase
                       /\ GivenUpForAReason

(* Scale: no line is drawn outside of its scale, and the minimum that is   *)
(* kept is the one of the table (992-1044, 4607-4622).                     *)
NothingIsCutOff == Is("scale") => LinesFit /\ LatestIsTheMinimum

(* Gauge: unselected, needle and label agree (5902-5962).                  *)
NeedleAgrees == Is("gauge") => NeedleAtLabel

(* Resize: only a handle that is held resizes, the height follows the      *)
(* mouse, and double clicks show the whole legend (2082-2174).             *)
DragFollows ==
    Is("resize") => HeightFollows /\ HookIsHeld /\ LegendIsShown

(* Numbers: what the charts compute stays in range on every edge (the arc  *)
(* of a pie, the needle of a gauge, the points and the thumbnails of the   *)
(* old portal: 5567-5604, 5875-5890, netdata.js 149-186, index.js          *)
(* 485-493), and is shown with the digits that were asked for, enough to   *)
(* tell the labels of an axis apart, whichever charts made the shared      *)
(* formatters before (744-869, 2548-2575).                                 *)
NumbersAreRight ==
    /\ Is("math") => /\ PieInCircle /\ NeedleInside
                     /\ PointsFit /\ ThumbsFit
    /\ Is("format") => /\ FormatIsAsked /\ KeptFormatterFits
                       /\ AxisIsResolved

(* The liveness properties of the parts; what they say of a state is asked *)
(* only of the states of their part.                                       *)

(* Old portal: every thumbnail is refreshed again and again, however the   *)
(* list changes under the round robin (index.js 700-760), as long as the   *)
(* server answers.                                                         *)
EveryThumbIsRefreshed ==
    \A i \in 0 .. OldCharts - 1 :
        <>[](Is("old") /\ ThumbIsWanted(i)) => []<>(Is("old") => ThumbIsFresh(i))

(* Alarms: what is raised while the page is open is shown, or there is a   *)
(* reason (dashboard.js 6600-6800).                                        *)
AlarmIsShown ==
    \A i \in 1 .. LogLength :
        (Is("alarms") /\ AlarmIsRaised(i)) ~> (Is("alarms") => AlarmIsDealtWith(i))

(* The refreshers go on: of the old portal a thread that died comes back   *)
(* (index.js 687), of the dashboard it returns from every script it waits  *)
(* for, loaded or not (dashboard.js 3923-3949, 4246-4271); only from the   *)
(* packages of google, whose failure nobody is told of (5448-5451), it may *)
(* not.                                                                    *)
RefresherComesBack ==
    /\ []<>(Is("old") => HasThread)
    /\ []<>(Is("libraries") => RefresherIsBack)

=============================================================================
