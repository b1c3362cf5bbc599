----------------------------- MODULE PortalProof -----------------------------
(***************************************************************************)
(* Safety of the parts of the portal pages, for every value of their       *)
(* constants.  The invariant says of the part that runs that it has the    *)
(* invariant of its own, which the proof modules extended here show to be  *)
(* kept.  The legend and the machine registry are not here: what they      *)
(* compute are folds over lists.                                           *)
(***************************************************************************)
EXTENDS MCPortal, PortalThreadsProof, PagePartsProof, PortalServersProof,
        PortalSettingsProof

(* The invariant of the part that runs.                                    *)
PortalInv ==
    /\ Is("old") => OldGood(old)
    /\ Is("alarms") => AlarmGood(al)
    /\ Is("libraries") => LibsGood(libs)
    /\ Is("scale") => ScaleGood(scale)
    /\ Is("gauge") => GaugeGood(gauge)
    /\ Is("resize") => ResizeGood(resize)
    /\ Is("math") => MathGood(math)
    /\ Is("format") => FormatGood(fmt)

(* The part that was chosen is in one of its initial states.               *)
LEMMA PortalStart == Init => PortalInv
<1> SUFFICES ASSUME Init PROVE PortalInv
  OBVIOUS
<1>1. Is("old") => OldGood(old)
  BY OldInitGood, Zenon DEF Init
<1>2. Is("alarms") => AlarmGood(al)
  BY AlarmInitGood, Zenon DEF Init
<1>3. Is("libraries") => LibsGood(libs)
  BY LibsInitGood, Zenon DEF Init
<1>4. Is("scale") => ScaleGood(scale)
  BY ScaleInitGood, Zenon DEF Init
<1>5. Is("gauge") => GaugeGood(gauge)
  BY GaugeInitGood, Zenon DEF Init
<1>6. Is("resize") => ResizeGood(resize)
  BY ResizeInitGood, Zenon DEF Init
<1>7. Is("math") => MathGood(math)
  BY MathInitGood, Zenon DEF Init
<1>8. Is("format") => FormatGood(fmt)
  BY FormatInitGood, Zenon DEF Init
<1> QED BY <1>1, <1>2, <1>3, <1>4, <1>5, <1>6, <1>7, <1>8, Zenon DEF PortalInv

(* The part that runs stays the one that runs.                             *)
LEMMA SamePart ==
    ASSUME [Next]_vars
    PROVE  part' = part
BY Zenon DEF Next, vars, OldOnly, LegendOnly, AlarmOnly, RegistryOnly, LibsOnly, ScaleOnly, GaugeOnly,
       ResizeOnly, MathOnly, FormatOnly, StoreOnly, WebOnly

(* A step of a part is a step of its module, or leaves it as it is.        *)
LEMMA PartSteps ==
    ASSUME [Next]_vars
    PROVE  /\ Is("old") => OldNext \/ old' = old
           /\ Is("alarms") => AlarmNext \/ al' = al
           /\ Is("libraries") => LibsNext \/ libs' = libs
           /\ Is("scale") => ScaleNext \/ scale' = scale
           /\ Is("gauge") => GaugeNext \/ gauge' = gauge
           /\ Is("resize") => ResizeNext \/ resize' = resize
           /\ Is("math") => MathNext \/ math' = math
           /\ Is("format") => FormatNext \/ fmt' = fmt
BY Zenon DEF Next, vars, OldOnly, LegendOnly, AlarmOnly, RegistryOnly, LibsOnly, ScaleOnly, GaugeOnly,
       ResizeOnly, MathOnly, FormatOnly, StoreOnly, WebOnly, Is

(* Every step keeps the invariant of the part that takes it.               *)
LEMMA PortalStep == PortalInv /\ [Next]_vars => PortalInv'
<1> SUFFICES ASSUME PortalInv, [Next]_vars PROVE PortalInv'
  OBVIOUS
<1>0. part' = part
  BY SamePart, Zenon
<1>1. Is("old")' => OldGood(old')
  BY <1>0, PartSteps, OldStepGood, Zenon DEF PortalInv, Is
<1>2. Is("alarms")' => AlarmGood(al')
  BY <1>0, PartSteps, AlarmStepGood, Zenon DEF PortalInv, Is
<1>3. Is("libraries")' => LibsGood(libs')
  BY <1>0, PartSteps, LibsStepGood, Zenon DEF PortalInv, Is
<1>4. Is("scale")' => ScaleGood(scale')
  BY <1>0, PartSteps, ScaleStepGood, Zenon DEF PortalInv, Is
<1>5. Is("gauge")' => GaugeGood(gauge')
  BY <1>0, PartSteps, GaugeStepGood, Zenon DEF PortalInv, Is
<1>6. Is("resize")' => ResizeGood(resize')
  BY <1>0, PartSteps, ResizeStepGood, Zenon DEF PortalInv, Is
<1>7. Is("math")' => MathGood(math')
  BY <1>0, PartSteps, MathStepGood, Zenon DEF PortalInv, Is
<1>8. Is("format")' => FormatGood(fmt')
  BY <1>0, PartSteps, FormatStepGood, Zenon DEF PortalInv, Is
<1> QED BY <1>1, <1>2, <1>3, <1>4, <1>5, <1>6, <1>7, <1>8, Zenon DEF PortalInv

(* The invariant holds for ever.                                           *)
LEMMA PortalAlways == Spec => []PortalInv
BY PortalStart, PortalStep, PTL DEF Spec

-----------------------------------------------------------------------------
(* The old portal never has two threads of refreshes, unless the watchdog  *)
(* started one although the last was only slow, and the screen it works on *)
(* has its charts (index.js 571-880).                                      *)
THEOREM OneThreadOnly == Spec => []OneThread
<1>1. PortalInv => OneThread
  BY OldGoodHolds, Zenon DEF PortalInv, OneThread
<1> QED BY <1>1, PortalAlways, PTL

(* No alarm that calls for a notification is passed over, and none has two *)
(* as long as log requests do not overlap (dashboard.js 6662-6700).        *)
THEOREM AlarmsAreNotified == Spec => []NotifiedOnce
<1>1. PortalInv => NotifiedOnce
  BY AlarmGoodNotifies, Zenon DEF PortalInv, NotifiedOnce
<1> QED BY <1>1, PortalAlways, PTL

(* However scripts load and fail, the refresher's callback is called once, *)
(* no library is there without its base, and no chart is given up without  *)
(* a reason (dashboard.js 4246-4271, 5147-5465).                           *)
THEOREM LibrariesLoad == Spec => []LoadingIsSound
<1>1. PortalInv => LoadingIsSound
  BY LibsGoodIsSound, Zenon DEF PortalInv, LoadingIsSound
<1> QED BY <1>1, PortalAlways, PTL

(* No line is drawn outside of its scale, and the common minimum that is   *)
(* kept is the one of the table (dashboard.js 992-1044, 4607-4622).        *)
THEOREM LinesStayInside == Spec => []NothingIsCutOff
<1>1. PortalInv => NothingIsCutOff
  BY ScaleGoodFits, Zenon DEF PortalInv, NothingIsCutOff
<1> QED BY <1>1, PortalAlways, PTL

(* A gauge that is not selected has its needle at its label: no timer of a *)
(* selection that is over moves it (dashboard.js 5902-5962).               *)
THEOREM NeedleIsAtLabel == Spec => []NeedleAgrees
<1>1. PortalInv => NeedleAgrees
  BY Zenon DEF PortalInv, NeedleAgrees, GaugeGood, NeedleAtLabel
<1> QED BY <1>1, PortalAlways, PTL

(* A chart follows the mouse while its handle is held, only then, and a    *)
(* double click shows its whole legend (dashboard.js 2052-2177).           *)
THEOREM HandlesFollow == Spec => []DragFollows
<1>1. PortalInv => DragFollows
  <2>1. ASSUME PortalInv, Is("resize") PROVE HeightFollows /\ HookIsHeld /\ LegendIsShown
    BY <2>1, ResizeGoodFollows, Zenon DEF PortalInv
  <2> QED BY <2>1, Zenon DEF DragFollows
<1> QED BY <1>1, PortalAlways, PTL

(* The numbers of a chart are in their ranges for every input, and are     *)
(* shown with the digits that were asked for (dashboard.js 744-882,        *)
(* 2531-2602, 5567-5604, 5850-5885, netdata.js 126-211, index.js 485-493). *)
THEOREM NumbersStayRight == Spec => []NumbersAreRight
<1>1. PortalInv => NumbersAreRight
  BY MathGoodIsRight, FormatGoodIsRight, Zenon DEF PortalInv, NumbersAreRight
<1> QED BY <1>1, PortalAlways, PTL

=============================================================================
