---------------------------- MODULE PortalStorage ----------------------------
(***************************************************************************)
(* The settings of the dashboard (portal/dashboard.js 298-565): the        *)
(* options of a page, their defaults, and the browser's localStorage that  *)
(* keeps them.  Several tabs of one browser share the storage; each has    *)
(* its own copy of the options, read once when its script is loaded.  The  *)
(* height of a chart (1540-1555, 2036-2050) is kept the same way, under    *)
(* the id of the chart's element, which two charts of a page may share.    *)
(*                                                                         *)
(* Two options stand for all: "focus" is stop_updates_when_focus_is_lost,  *)
(* which the script always turns on, "other" is any of the rest.  A value  *)
(* is 1 or 2: 1 is the program's default of an option (for "focus": on)    *)
(* and the height a chart is given in the page.                            *)
(***************************************************************************)
EXTENDS Integers, FiniteSets

CONSTANTS Tabs,           \* the tabs of the browser that show the dashboard
          StoreActs,      \* how many steps the users take, at most
          StoreFaults     \* how many writes to the storage fail, at most

VARIABLE store

OptionKeys == {"focus", "other"}

HeightKey == "height"

StoreKeys == OptionKeys \cup {HeightKey}

TwoCharts == {1, 2}

\* What localStorage holds for a key: nothing, a text JSON cannot parse, or
\* the text of a value.
Absent == -1
Corrupt == -2

StoreValues == {1, 2}

ProgramDefault == 1

NoTab == 0

\* A tab before its script is loaded.  `dflt`: NETDATA.localStorage.default.
\* `cur`: NETDATA.options.current and, for the height, the current value of
\* NETDATA.localStorage.  `owner`: the chart whose callback is registered for
\* the height (0: none).  `height`: the height of each chart (0: not created).
\* `foreign`: the keys other tabs wrote since this one was loaded.
ClosedTab ==
    [up |-> FALSE, works |-> FALSE, dflt |-> [k \in StoreKeys |-> Absent],
     cur |-> [k \in StoreKeys |-> Absent], owner |-> 0,
     height |-> [c \in TwoCharts |-> 0], foreign |-> {}]

\* Another tab wrote the key.
SeenBy(tab, k) == [tab EXCEPT !.foreign = @ \cup {k}]

\* localStorage.setItem(k, v) by tab t: it fails for the keys of `bad` (the
\* quota is exceeded), which its callers catch.  `writer` notes who wrote a key
\* last.
SetItem(s, t, k, v, bad) ==
    IF ~ s.tab[t].works THEN s
    ELSE IF k \notin bad
         THEN [s EXCEPT !.saved[k] = v, !.writer[k] = t,
                        !.tab = [u \in Tabs |-> IF u = t THEN s.tab[u]
                                                ELSE SeenBy(s.tab[u], k)]]
         ELSE [s EXCEPT !.writer[k] = IF s.writer[k] = t THEN NoTab ELSE s.writer[k],
                        !.faults = @ - 1]

\* The value that localStorageGet() finds: the default when there is none, or
\* when it cannot be parsed.
Loaded(v, def) == IF v \in {Absent, Corrupt} THEN def ELSE v

\* Mutant: what is found in the storage is kept as the default.
Mut_LocalStorageGet(s, t, k, def, chart, bad) ==
    LET ret == IF s.tab[t].works THEN Loaded(s.saved[k], def) ELSE def
        s1 == IF s.tab[t].dflt[k] = Absent
              THEN [s EXCEPT !.tab[t].dflt[k] = ret,
                             !.tab[t].owner = IF k = HeightKey THEN chart ELSE @]
              ELSE s
        s2 == IF s.tab[t].works /\ s.saved[k] = Absent
              THEN SetItem(s1, t, k, def, bad) ELSE s1
    IN  [s2 EXCEPT !.tab[t].cur[k] = ret]

\* localStorageGet(): the default and the callback of the first use are kept;
\* a key that is not in the storage is saved with the default.
LocalStorageGet(s, t, k, def, chart, bad) ==
    LET first == s.tab[t].dflt[k] = Absent
        s1 == IF first THEN [s EXCEPT !.tab[t] =
                                 [s.tab[t] EXCEPT !.dflt[k] = def,
                                                  !.owner = IF k = HeightKey
                                                            THEN chart ELSE @]]
                       ELSE s
        s2 == IF s.tab[t].works /\ s.saved[k] = Absent
              THEN SetItem(s1, t, k, def, bad) ELSE s1
        ret == IF s.tab[t].works THEN Loaded(s.saved[k], def) ELSE def
    IN  [s2 EXCEPT !.tab[t].cur[k] = ret]

\* Mutant: the value of before the change is saved.
Mut_LocalStorageSet(s, t, k, v, bad) ==
    LET s1 == IF s.tab[t].dflt[k] = Absent
              THEN [s EXCEPT !.tab[t].dflt[k] = v] ELSE s
    IN  [SetItem(s1, t, k, s.tab[t].cur[k], bad) EXCEPT !.tab[t].cur[k] = v]

\* localStorageSet(): a key that was never read takes the value as its
\* default; the value is current even when it cannot be saved.
LocalStorageSet(s, t, k, v, bad) ==
    LET s1 == IF s.tab[t].dflt[k] = Absent
              THEN [s EXCEPT !.tab[t].dflt[k] = v] ELSE s
    IN  [SetItem(s1, t, k, v, bad) EXCEPT !.tab[t].cur[k] = v]

\* setOption(): only a change is saved.
SetOption(s, t, k, v, bad) ==
    IF s.tab[t].cur[k] = v THEN s ELSE LocalStorageSet(s, t, k, v, bad)

\* resizeChartToHeight(): the chart takes the height, and saves it.
ResizeTo(s, t, c, h, bad) ==
    [LocalStorageSet(s, t, HeightKey, h, bad) EXCEPT !.tab[t].height[c] = h]

StoreNote(s, did, t) == [s EXCEPT !.did = did, !.by = t]

\* The writes of a step that fail, while there are faults left.
Bads == {bad \in SUBSET StoreKeys : Cardinality(bad) <= store.faults}

StoreAct == store.acts < StoreActs

StoreActed(s) == store' = [s EXCEPT !.acts = @ + 1]

\* What the storage holds when the first tab is opened: anything an earlier
\* visit, or another version of the program, left there.
StoreInit ==
    \E saved \in [StoreKeys -> {Absent, Corrupt} \cup StoreValues] :
        store = [saved |-> saved, tab |-> [t \in Tabs |-> ClosedTab],
                 writer |-> [k \in StoreKeys |-> NoTab],
                 acts |-> 0, faults |-> StoreFaults, did |-> "none", by |-> NoTab]

-----------------------------------------------------------------------------
\* The script is loaded, or the page is reloaded: localStorageTest() finds out
\* if the storage works, localStorageGetRecursive() reads every option, and
\* then setOption() turns "focus" on.
LoadTab(t) ==
    /\ StoreAct
    /\ \E works \in BOOLEAN, bad \in Bads :
          LET s0 == [store EXCEPT !.tab[t] = [ClosedTab EXCEPT !.up = TRUE,
                                                               !.works = works],
                                  !.writer = [k \in StoreKeys |->
                                      IF store.writer[k] = t THEN NoTab
                                                             ELSE store.writer[k]]]
              s1 == LocalStorageGet(s0, t, "other", ProgramDefault, 0, bad)
              s2 == LocalStorageGet(s1, t, "focus", ProgramDefault, 0, bad)
          IN  StoreActed(StoreNote(SetOption(s2, t, "focus", 1, bad), "load", t))

\* A chart is made for an element of the page (1540-1555).
ChartOfTab(t, c) ==
    /\ StoreAct
    /\ store.tab[t].up
    /\ store.tab[t].height[c] = 0
    /\ \E bad \in Bads :
          LET s1 == LocalStorageGet(store, t, HeightKey, ProgramDefault, c, bad)
          IN  StoreActed(StoreNote([s1 EXCEPT !.tab[t].height[c] = s1.tab[t].cur[HeightKey]],
                         "chart", t))

\* The user changes an option in the settings of the page.
ChooseOption(t) ==
    /\ StoreAct
    /\ store.tab[t].up
    /\ \E k \in OptionKeys, v \in StoreValues, bad \in Bads :
          StoreActed(StoreNote(SetOption(store, t, k, v, bad), "choose", t))

\* The user drags a chart to a height.
DragChart(t, c) ==
    /\ StoreAct
    /\ store.tab[t].up
    /\ store.tab[t].height[c] # 0
    /\ \E h \in StoreValues, bad \in Bads :
          StoreActed(StoreNote(ResizeTo(store, t, c, h, bad), "drag", t))

\* Mutant: the options are set in the page, and not saved.
Mut_ResetOptions(s, t, bad) ==
    LET tab == s.tab[t]
        s1 == [s EXCEPT !.tab[t].cur["focus"] = tab.dflt["focus"],
                        !.tab[t].cur["other"] = tab.dflt["other"]]
    IN  IF tab.owner # 0
        THEN ResizeTo(s1, t, tab.owner, tab.dflt[HeightKey], bad)
        ELSE s1

\* resetOptions(): every registered option is set to its default, and the
\* callback of the height is called with the default height.
ResetOptions(s, t, bad) ==
    LET tab == s.tab[t]
        s1 == SetOption(s, t, "focus", tab.dflt["focus"], bad)
        s2 == SetOption(s1, t, "other", tab.dflt["other"], bad)
    IN  IF tab.owner # 0
        THEN ResizeTo(s2, t, tab.owner, tab.dflt[HeightKey], bad)
        ELSE s2

ResetTab(t) ==
    /\ StoreAct
    /\ store.tab[t].up
    /\ \E bad \in Bads : StoreActed(StoreNote(ResetOptions(store, t, bad), "reset", t))

StoreNext == \E t \in Tabs :
    \/ LoadTab(t)
    \/ \E c \in TwoCharts : ChartOfTab(t, c) \/ DragChart(t, c)
    \/ ChooseOption(t)
    \/ ResetTab(t)

StoreSpec == StoreInit /\ [][StoreNext]_store

-----------------------------------------------------------------------------
(***************************************************************************)
(* Properties                                                              *)
(***************************************************************************)

\* The keys a tab knows a default of.
KnownKeys(t) == {k \in StoreKeys : store.tab[t].dflt[k] # Absent}

\* The defaults a tab registers are the program's, never what it found in the
\* storage; a reset therefore gives every option its default, and the height of
\* the page to the chart that registered it, whatever was saved, failed to be
\* saved or was changed by other tabs (localStorageGet() keeps the default
\* before it reads, resetOptions() 545-565).
ResetRestores ==
    \A t \in Tabs :
        store.did = "reset" /\ store.by = t =>
            /\ \A k \in OptionKeys : store.tab[t].cur[k] = ProgramDefault
            /\ store.tab[t].owner # 0 =>
                  store.tab[t].height[store.tab[t].owner] = ProgramDefault

\* A reset lasts: what a reload would now read, for every key that no other tab
\* wrote since this one was loaded and whose save did not fail, is the default
\* (setOption() saves only what changes, so this needs that the options of a
\* tab and the storage were in step before).
ResetIsDurable ==
    \A t \in Tabs :
        store.did = "reset" /\ store.by = t /\ store.tab[t].works
            /\ store.faults = StoreFaults =>
            \A k \in KnownKeys(t) \ store.tab[t].foreign :
                Loaded(store.saved[k], ProgramDefault) = ProgramDefault

\* resetOptions() (545-565) does what it is for: the page has its defaults, and
\* a reload has them too.
ResetWorks == ResetRestores /\ ResetIsDurable

\* While a tab is the last that wrote a key, the storage holds the value the tab
\* uses: a change is never shown and not saved, nor saved and not used
\* (localStorageSet() 469-492, setOption() 510-533).
SavedIsUsed ==
    \A t \in Tabs, k \in StoreKeys :
        store.writer[k] = t => store.saved[k] = store.tab[t].cur[k]

=============================================================================
