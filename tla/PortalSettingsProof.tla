------------------------- MODULE PortalSettingsProof -------------------------
(***************************************************************************)
(* What the user sets and the page keeps, for any number of tabs, charts,  *)
(* steps of the users and writes that fail: the settings in the browser's  *)
(* storage, and the height of a chart, which a handle resizes.             *)
(*                                                                         *)
(* The invariants StoreGood and ResizeGood are stated of a record, not of  *)
(* the variable: the functions of the code compute a record from a record, *)
(* and each has a lemma that says it keeps the invariant.  Those of the    *)
(* settings touch one key of one tab; KeyIsGood says once what such a step *)
(* must do.                                                                *)
(***************************************************************************)
EXTENDS PortalStorage, ChartResize, TLAPS

-----------------------------------------------------------------------------
(* The settings in the storage.                                            *)

Text == {Absent, Corrupt} \cup StoreValues

Tab ==
    [up : BOOLEAN, works : BOOLEAN, dflt : [StoreKeys -> Text],
     cur : [StoreKeys -> Text], owner : 0 .. 2,
     height : [TwoCharts -> 0 .. 2], foreign : SUBSET StoreKeys]

Dids == {"load", "chart", "choose", "drag", "reset"}

Store ==
    [saved : [StoreKeys -> Text], tab : [Tabs -> Tab],
     writer : [StoreKeys -> Tabs \cup {NoTab}], acts : Nat, faults : Int,
     did : Dids \cup {"none"},
     by : Tabs \cup {NoTab}]

(* The tab that wrote a key last uses what is saved, a proper value. *)
Used(s) ==
    \A t \in Tabs, k \in StoreKeys : s.writer[k] = t =>
        s.tab[t].works /\ s.saved[k] = s.tab[t].cur[k] /\ s.saved[k] \in StoreValues

(* Defaults are the program's, and a chart has registered its height. *)
Defaults(s) ==
    \A t \in Tabs :
        /\ \A k \in StoreKeys : s.tab[t].dflt[k] \in {Absent, ProgramDefault}
        /\ s.tab[t].dflt[HeightKey] = Absent =>
              s.tab[t].owner = 0 /\ \A c \in TwoCharts : s.tab[t].height[c] = 0
        /\ s.tab[t].dflt[HeightKey] # Absent => s.tab[t].owner # 0

(* As long as no write failed and no other tab wrote the key, a reload     *)
(* would read what the tab uses.                                           *)
InStep(s) ==
    /\ s.faults <= StoreFaults
    /\ s.faults = StoreFaults => \A t \in Tabs, k \in StoreKeys :
          s.tab[t].works /\ s.tab[t].dflt[k] # Absent /\ k \notin s.tab[t].foreign =>
              Loaded(s.saved[k], ProgramDefault) = s.tab[t].cur[k]

StoreGood(s) == s \in Store /\ Used(s) /\ Defaults(s) /\ InStep(s)

(* The tabs whose script is loaded know both options. *)
StoreKnown(s) ==
    \A t \in Tabs, k \in OptionKeys : s.tab[t].up => s.tab[t].dflt[k] # Absent

(* The fields of the record. *)
LEMMA StoreFields ==
    ASSUME NEW s \in Store
    PROVE  /\ s.saved \in [StoreKeys -> Text] /\ s.writer \in [StoreKeys -> Tabs \cup {NoTab}]
           /\ s.faults \in Int /\ s.tab \in [Tabs -> Tab]
           /\ \A t \in Tabs : 
                /\ s.tab[t] \in Tab
                /\ s.tab[t].dflt \in [StoreKeys -> Text] /\ s.tab[t].cur \in [StoreKeys -> Text]
                /\ s.tab[t].owner \in 0 .. 2 /\ s.tab[t].height \in [TwoCharts -> 0 .. 2]
                /\ s.tab[t].foreign \in SUBSET StoreKeys
<1>1. /\ s.saved \in [StoreKeys -> Text] /\ s.writer \in [StoreKeys -> Tabs \cup {NoTab}]
      /\ s.faults \in Int /\ s.tab \in [Tabs -> Tab]
  BY SMT DEF Store
<1>2. ASSUME NEW b \in Tab
      PROVE  /\ b.dflt \in [StoreKeys -> Text] /\ b.cur \in [StoreKeys -> Text]
             /\ b.owner \in 0 .. 2 /\ b.height \in [TwoCharts -> 0 .. 2]
             /\ b.foreign \in SUBSET StoreKeys
  BY SMT DEF Tab
<1> QED
  BY <1>1, <1>2

(* What a step from s to r on the key k of the tab t may do elsewhere.     *)
TabStep(s, r, t, k, u) ==
    /\ r.tab[u].works = s.tab[u].works
    /\ \A j \in StoreKeys : u # t \/ j # k =>
          r.tab[u].dflt[j] = s.tab[u].dflt[j] /\ r.tab[u].cur[j] = s.tab[u].cur[j]
    /\ s.tab[u].foreign \subseteq r.tab[u].foreign
    /\ u # t \/ k # HeightKey =>
          r.tab[u].owner = s.tab[u].owner /\ r.tab[u].height = s.tab[u].height

(* The other keys of the storage stay. *)
OtherKeys(s, r, k) ==
    \A j \in StoreKeys : j # k => r.saved[j] = s.saved[j] /\ r.writer[j] = s.writer[j]

(* What the tab uses after it is saved, or failed to be saved, or was there. *)
SavedBy(s, r, t, k) ==
    /\ s.tab[t].works /\ r.saved[k] = r.tab[t].cur[k] /\ r.saved[k] \in StoreValues
    /\ r.writer[k] = t /\ r.faults = s.faults
    /\ \A u \in Tabs : u # t => k \in r.tab[u].foreign

NotSaved(s, r, t, k) ==
    /\ r.saved[k] = s.saved[k] /\ r.faults = s.faults - 1
    /\ r.writer[k] = NoTab \/ (r.writer[k] = s.writer[k] /\ s.writer[k] # t)

WasThere(s, r, t, k) ==
    /\ r.saved[k] = s.saved[k] /\ r.faults = s.faults /\ r.writer[k] = s.writer[k]
    /\ s.writer[k] = t => r.tab[t].cur[k] = s.saved[k]
    /\ s.tab[t].works => r.tab[t].cur[k] = Loaded(s.saved[k], ProgramDefault)

KeyStep(s, r, t, k) ==
    /\ r \in Store
    /\ OtherKeys(s, r, k)
    /\ \A u \in Tabs : TabStep(s, r, t, k, u)
    /\ r.tab[t].dflt[k] = ProgramDefault
    /\ k = HeightKey => r.tab[t].owner # 0
    /\ SavedBy(s, r, t, k) \/ NotSaved(s, r, t, k) \/ WasThere(s, r, t, k)

(* Such a step keeps the invariant. *)
LEMMA KeyIsGood ==
    ASSUME NoTab \notin Tabs, StoreFaults \in Int,
           NEW s, StoreGood(s), NEW r, NEW t \in Tabs, NEW k \in StoreKeys, KeyStep(s, r, t, k)
    PROVE  StoreGood(r)
<1> USE DEF KeyStep, OtherKeys, TabStep, SavedBy, NotSaved, WasThere
<1>0. r \in Store
  OBVIOUS
<1>1. Used(r)
  <2> SUFFICES ASSUME NEW u \in Tabs, NEW j \in StoreKeys, r.writer[j] = u
               PROVE  r.tab[u].works /\ r.saved[j] = r.tab[u].cur[j] /\ r.saved[j] \in StoreValues
    BY Zenon DEF Used
  <2>1. CASE j # k
    BY <2>1, SMT DEF StoreGood, Used
  <2>2. CASE j = k /\ u # t
    BY <2>2, SMT DEF StoreGood, Used
  <2>3. CASE j = k /\ u = t
    BY <2>3, SMT DEF StoreGood, Used
  <2> QED
    BY <2>1, <2>2, <2>3
<1>2. Defaults(r)
  <2> SUFFICES ASSUME NEW u \in Tabs
               PROVE  /\ \A j \in StoreKeys : r.tab[u].dflt[j] \in {Absent, ProgramDefault}
                      /\ r.tab[u].dflt[HeightKey] = Absent =>
                            r.tab[u].owner = 0 /\ \A c \in TwoCharts : r.tab[u].height[c] = 0
                      /\ r.tab[u].dflt[HeightKey] # Absent => r.tab[u].owner # 0
    BY Zenon DEF Defaults
  <2>1. \A j \in StoreKeys : r.tab[u].dflt[j] \in {Absent, ProgramDefault}
    BY SMT DEF StoreGood, Defaults
  <2>2. HeightKey \in StoreKeys
    BY DEF StoreKeys
  <2>3. CASE u # t \/ k # HeightKey
    BY <2>1, <2>2, <2>3, SMT DEF StoreGood, Defaults
  <2>4. CASE u = t /\ k = HeightKey
    BY <2>1, <2>4, SMT DEF Absent, ProgramDefault
  <2> QED
    BY <2>1, <2>3, <2>4, Zenon
<1>3. s.faults \in Int /\ r.faults \in Int
  BY StoreFields, Zenon DEF StoreGood
<1>4. r.faults <= StoreFaults
  BY <1>3, SMT DEF StoreGood, InStep
<1>5. ASSUME r.faults = StoreFaults, NEW u \in Tabs, NEW j \in StoreKeys,
             r.tab[u].works, r.tab[u].dflt[j] # Absent, j \notin r.tab[u].foreign
      PROVE  Loaded(r.saved[j], ProgramDefault) = r.tab[u].cur[j]
  <2>0. s.tab[u].works /\ j \notin s.tab[u].foreign
    BY <1>5, Zenon
  <2>f. s.faults <= StoreFaults /\ r.faults \in {s.faults, s.faults - 1}
    BY Zenon DEF StoreGood, InStep
  <2>1. s.faults = StoreFaults /\ r.faults = s.faults /\ s.tab[u].works /\ j \notin s.tab[u].foreign
    <3> HIDE DEF KeyStep
    <3> QED
      BY <1>3, <1>5, <2>0, <2>f
  <2>2. CASE j # k
    BY <1>5, <2>1, <2>2, SMT DEF StoreGood, InStep
  <2>3. CASE j = k /\ u # t
    BY <1>3, <1>5, <2>1, <2>3, SMT DEF StoreGood, InStep
  <2>4. CASE j = k /\ u = t
    BY <1>3, <1>5, <2>1, <2>4, SMT DEF Loaded, StoreValues, Absent, Corrupt
  <2> QED
    BY <2>2, <2>3, <2>4, Zenon
<1> QED
  BY <1>0, <1>1, <1>2, <1>4, <1>5 DEF StoreGood, InStep

(* A tab stays one, and only one field of it changes. *)
LEMMA SeenIs ==
    ASSUME NEW b \in Tab, NEW k \in StoreKeys
    PROVE  /\ SeenBy(b, k) \in Tab
           /\ SeenBy(b, k).foreign = b.foreign \cup {k}
           /\ SeenBy(b, k).up = b.up /\ SeenBy(b, k).works = b.works
           /\ SeenBy(b, k).dflt = b.dflt /\ SeenBy(b, k).cur = b.cur
           /\ SeenBy(b, k).owner = b.owner /\ SeenBy(b, k).height = b.height
<1>1. b.foreign \cup {k} \in SUBSET StoreKeys
  BY SMT DEF Tab
<1>2. SeenBy(b, k) \in Tab
  BY <1>1, Zenon DEF SeenBy, Tab
<1> QED
  BY <1>2, SMT DEF SeenBy, Tab

(* What one tab is to the others: all but what they wrote. *)
SameTab(a, b) ==
    /\ a.up = b.up /\ a.works = b.works /\ a.dflt = b.dflt /\ a.cur = b.cur
    /\ a.owner = b.owner /\ a.height = b.height

(* The storage is written, or the write fails, or there is no storage. *)
ItemStep(s, r, t, k, v) ==
    /\ r \in Store
    /\ OtherKeys(s, r, k)
    /\ r.tab[t] = s.tab[t]
    /\ \A u \in Tabs : SameTab(r.tab[u], s.tab[u]) /\ s.tab[u].foreign \subseteq r.tab[u].foreign
    /\ \/ /\ s.tab[t].works /\ r.saved[k] = v /\ r.writer[k] = t /\ r.faults = s.faults
          /\ \A u \in Tabs : u # t => k \in r.tab[u].foreign
       \/ s.tab[t].works /\ NotSaved(s, r, t, k)
       \/ ~ s.tab[t].works /\ r = s

(* That is what localStorage.setItem does. *)
LEMMA SetItemIs ==
    ASSUME NEW s \in Store, NEW t \in Tabs, NEW k \in StoreKeys, NEW v \in StoreValues, NEW bad
    PROVE  ItemStep(s, SetItem(s, t, k, v, bad), t, k, v)
<1> DEFINE r == SetItem(s, t, k, v, bad)
<1> USE DEF ItemStep, OtherKeys, NotSaved
<1>1. CASE ~ s.tab[t].works
  BY <1>1, SMT DEF SetItem, SameTab
<1>2. CASE s.tab[t].works /\ k \notin bad
  <2> DEFINE tab == [u \in Tabs |-> IF u = t THEN s.tab[u] ELSE SeenBy(s.tab[u], k)]
             saved == [s.saved EXCEPT ![k] = v]
             writer == [s.writer EXCEPT ![k] = t]
  <2>1. tab \in [Tabs -> Tab]
    BY StoreFields, SeenIs
  <2>2. saved \in [StoreKeys -> Text] /\ writer \in [StoreKeys -> Tabs \cup {NoTab}]
    BY StoreFields, SMT DEF Text
  <2>3. r = [s EXCEPT !.saved = saved, !.writer = writer, !.tab = tab]
    BY <1>2 DEF SetItem
  <2>4. saved[k] = v /\ writer[k] = t
        /\ \A j \in StoreKeys : j # k => saved[j] = s.saved[j] /\ writer[j] = s.writer[j]
    BY StoreFields
  <2>5. tab[t] = s.tab[t] /\ \A u \in Tabs : u # t => tab[u] = SeenBy(s.tab[u], k)
    OBVIOUS
  <2> HIDE DEF tab, saved, writer
  <2>6. r \in Store
    BY <2>1, <2>2, <2>3, Zenon DEF Store
  <2>7. r.saved = saved /\ r.writer = writer /\ r.tab = tab /\ r.faults = s.faults
    BY <2>3, SMT DEF Store
  <2>8. ASSUME NEW u \in Tabs
        PROVE  /\ SameTab(tab[u], s.tab[u]) /\ s.tab[u].foreign \subseteq tab[u].foreign
               /\ u # t => k \in tab[u].foreign
    BY <2>5, StoreFields, SeenIs DEF SameTab
  <2> QED
    BY <1>2, <2>4, <2>5, <2>6, <2>7, <2>8
<1>3. CASE s.tab[t].works /\ k \in bad
  <2> DEFINE w == IF s.writer[k] = t THEN NoTab ELSE s.writer[k]
             writer == [s.writer EXCEPT ![k] = w]
  <2>1. writer \in [StoreKeys -> Tabs \cup {NoTab}] /\ s.faults - 1 \in Int
    BY StoreFields, SMT
  <2>2. r = [s EXCEPT !.writer = writer, !.faults = s.faults - 1]
    BY <1>3 DEF SetItem
  <2>3. writer[k] = w /\ \A j \in StoreKeys : j # k => writer[j] = s.writer[j]
    BY StoreFields
  <2> HIDE DEF writer
  <2>4. r \in Store
    BY <2>1, <2>2, Zenon DEF Store
  <2>5. r.saved = s.saved /\ r.writer = writer /\ r.tab = s.tab /\ r.faults = s.faults - 1
    BY <2>2, SMT DEF Store
  <2> QED
    BY <1>3, <2>3, <2>4, <2>5 DEF SameTab
<1> QED
  BY <1>1, <1>2, <1>3, Zenon

(* One value becomes current in one tab. *)
SetCur(s, t, k, x) == [s EXCEPT !.tab[t].cur[k] = x]

CurStep(s, r, t, k, x) ==
    /\ r \in Store /\ r.saved = s.saved /\ r.writer = s.writer /\ r.faults = s.faults
    /\ \A u \in Tabs : u # t => r.tab[u] = s.tab[u]
    /\ r.tab[t].up = s.tab[t].up /\ r.tab[t].works = s.tab[t].works
    /\ r.tab[t].dflt = s.tab[t].dflt /\ r.tab[t].owner = s.tab[t].owner
    /\ r.tab[t].height = s.tab[t].height /\ r.tab[t].foreign = s.tab[t].foreign
    /\ r.tab[t].cur[k] = x
    /\ \A j \in StoreKeys : j # k => r.tab[t].cur[j] = s.tab[t].cur[j]

(* What that changes. *)
LEMMA CurIs ==
    ASSUME NEW s \in Store, NEW t \in Tabs, NEW k \in StoreKeys, NEW x \in Text
    PROVE  CurStep(s, SetCur(s, t, k, x), t, k, x)
<1> DEFINE r == SetCur(s, t, k, x)
<1> DEFINE cur == [s.tab[t].cur EXCEPT ![k] = x]
           one == [s.tab[t] EXCEPT !.cur = cur]
           tab == [s.tab EXCEPT ![t] = one]
<1>1. cur \in [StoreKeys -> Text] /\ cur[k] = x
      /\ \A j \in StoreKeys : j # k => cur[j] = s.tab[t].cur[j]
  BY StoreFields
<1> HIDE DEF cur
<1>2. s.tab[t] \in Tab /\ s.tab \in [Tabs -> Tab]
  BY StoreFields
<1>3. one \in Tab
  BY <1>1, <1>2, Zenon DEF Tab
<1>4. /\ one.cur = cur /\ one.up = s.tab[t].up /\ one.works = s.tab[t].works
      /\ one.dflt = s.tab[t].dflt /\ one.owner = s.tab[t].owner
      /\ one.height = s.tab[t].height /\ one.foreign = s.tab[t].foreign
  BY <1>2, SMT DEF Tab
<1> HIDE DEF one
<1>5. tab \in [Tabs -> Tab] /\ tab[t] = one /\ \A u \in Tabs : u # t => tab[u] = s.tab[u]
  BY <1>2, <1>3
<1>6. r = [s EXCEPT !.tab = tab]
  BY DEF cur, one, SetCur
<1> HIDE DEF tab, r
<1>7. r \in Store
  BY <1>5, <1>6, Zenon DEF Store
<1>8. /\ r.tab = tab /\ r.saved = s.saved /\ r.writer = s.writer /\ r.faults = s.faults
  BY <1>6, SMT DEF Store
<1>9. CurStep(s, r, t, k, x)
  BY <1>1, <1>4, <1>5, <1>7, <1>8 DEF CurStep
<1> QED
  BY <1>9 DEF r

(* The first use of a key registers its default, and the chart. *)
Registered(s, t, k, chart) ==
    [s EXCEPT !.tab[t] = [s.tab[t] EXCEPT !.dflt[k] = ProgramDefault,
                                          !.owner = IF k = HeightKey THEN chart ELSE @]]

RegStep(s, r, t, k) ==
    /\ r \in Store /\ r.saved = s.saved /\ r.writer = s.writer /\ r.faults = s.faults
    /\ \A u \in Tabs : u # t => r.tab[u] = s.tab[u]
    /\ r.tab[t].up = s.tab[t].up /\ r.tab[t].works = s.tab[t].works
    /\ r.tab[t].cur = s.tab[t].cur
    /\ IF k = HeightKey THEN r.tab[t].owner # 0 ELSE r.tab[t].owner = s.tab[t].owner
    /\ r.tab[t].height = s.tab[t].height /\ r.tab[t].foreign = s.tab[t].foreign
    /\ r.tab[t].dflt[k] = ProgramDefault
    /\ \A j \in StoreKeys : j # k => r.tab[t].dflt[j] = s.tab[t].dflt[j]

(* What registering a default changes. *)
LEMMA RegisterIs ==
    ASSUME NEW s \in Store, NEW t \in Tabs, NEW k \in StoreKeys, NEW chart \in 0 .. 2,
           k = HeightKey => chart # 0
    PROVE  RegStep(s, Registered(s, t, k, chart), t, k)
<1> DEFINE r == Registered(s, t, k, chart)
<1> DEFINE dflt == [s.tab[t].dflt EXCEPT ![k] = ProgramDefault]
           owner == IF k = HeightKey THEN chart ELSE s.tab[t].owner
           one == [s.tab[t] EXCEPT !.dflt = dflt, !.owner = owner]
           tab == [s.tab EXCEPT ![t] = one]
<1>1. dflt \in [StoreKeys -> Text] /\ dflt[k] = ProgramDefault /\ owner \in 0 .. 2
      /\ \A j \in StoreKeys : j # k => dflt[j] = s.tab[t].dflt[j]
  BY StoreFields, SMT DEF Text, StoreValues, ProgramDefault
<1>2. s.tab[t] \in Tab /\ s.tab \in [Tabs -> Tab]
  BY StoreFields
<1>3. r = [s EXCEPT !.tab = tab]
  BY DEF Registered
<1>4. IF k = HeightKey THEN owner # 0 ELSE owner = s.tab[t].owner
  OBVIOUS
<1> HIDE DEF dflt, owner
<1>5. one \in Tab
  BY <1>1, <1>2, Zenon DEF Tab
<1>6. /\ one.cur = s.tab[t].cur /\ one.up = s.tab[t].up /\ one.works = s.tab[t].works
      /\ one.dflt = dflt /\ one.owner = owner
      /\ one.height = s.tab[t].height /\ one.foreign = s.tab[t].foreign
  BY <1>2, SMT DEF Tab
<1> HIDE DEF one
<1>7. tab \in [Tabs -> Tab] /\ tab[t] = one /\ \A u \in Tabs : u # t => tab[u] = s.tab[u]
  BY <1>2, <1>5
<1> HIDE DEF tab, r
<1>8. r \in Store
  BY <1>3, <1>7, Zenon DEF Store
<1>9. r.tab = tab /\ r.saved = s.saved /\ r.writer = s.writer /\ r.faults = s.faults
  BY <1>3, SMT DEF Store
<1>10. RegStep(s, r, t, k)
  BY <1>1, <1>4, <1>6, <1>7, <1>8, <1>9 DEF RegStep
<1> QED
  BY <1>10 DEF r

(* What localStorageGet() of a key leaves. *)
GetStep(s, r, t, k) ==
    /\ StoreGood(r)
    /\ r.tab[t].cur[k] \in StoreValues
    /\ r.tab[t].dflt[k] = ProgramDefault
    /\ \A j \in StoreKeys : j # k => r.tab[t].dflt[j] = s.tab[t].dflt[j]
    /\ \A u \in Tabs : r.tab[u].up = s.tab[u].up
    /\ \A u \in Tabs : u # t => r.tab[u].dflt = s.tab[u].dflt

(* localStorageGet() keeps the invariant and registers the default. *)
LEMMA GetIsGood ==
    ASSUME NoTab \notin Tabs, StoreFaults \in Int,
           NEW s, StoreGood(s), NEW t \in Tabs, NEW k \in StoreKeys, NEW chart \in 0 .. 2, NEW bad,
           k = HeightKey => chart # 0,
           NEW r, r = LocalStorageGet(s, t, k, ProgramDefault, chart, bad)
    PROVE  GetStep(s, r, t, k)
<1> DEFINE s1 == IF s.tab[t].dflt[k] = Absent THEN Registered(s, t, k, chart) ELSE s
           s2 == IF s.tab[t].works /\ s.saved[k] = Absent
                 THEN SetItem(s1, t, k, ProgramDefault, bad) ELSE s1
           ret == IF s.tab[t].works THEN Loaded(s.saved[k], ProgramDefault) ELSE ProgramDefault
<1>1. r = SetCur(s2, t, k, ret)
  BY Zenon DEF LocalStorageGet, Registered, SetCur
<1>2. s \in Store /\ s.saved[k] \in Text
  BY StoreFields DEF StoreGood
<1>3. ret \in StoreValues /\ ret \in Text
  BY <1>2, SMT DEF Loaded, Text, StoreValues, ProgramDefault
<1>4. RegStep(s, s1, t, k)
  <2>1. CASE s.tab[t].dflt[k] = Absent
    BY <1>2, <2>1, RegisterIs
  <2>2. CASE s.tab[t].dflt[k] # Absent
    BY <1>2, <2>2 DEF StoreGood, Defaults, RegStep, Absent, ProgramDefault
  <2> QED
    BY <2>1, <2>2
<1> HIDE DEF s1
<1>5. ProgramDefault \in StoreValues
  BY SMT DEF ProgramDefault, StoreValues
<1>6. s1 \in Store /\ s1.tab[t].works = s.tab[t].works
  BY <1>4 DEF RegStep
<1>7. ItemStep(s1, s2, t, k, ret) \/ s2 = s1
  <2>1. CASE s.tab[t].works /\ s.saved[k] = Absent
    <3>1. s2 = SetItem(s1, t, k, ProgramDefault, bad) /\ ret = ProgramDefault
      BY <2>1 DEF Loaded
    <3> HIDE DEF s2, ret
    <3> QED
      BY <1>5, <1>6, <3>1, SetItemIs
  <2>2. CASE ~ (s.tab[t].works /\ s.saved[k] = Absent)
    BY <2>2
  <2> QED
    BY <2>1, <2>2
<1>8. (s.writer[k] = t => ret = s.saved[k])
      /\ (s.tab[t].works => ret = Loaded(s.saved[k], ProgramDefault))
  BY DEF StoreGood, Used, Loaded, StoreValues, Absent, Corrupt
<1> HIDE DEF s2, ret
<1>9. s2 \in Store
  BY <1>6, <1>7 DEF ItemStep
<1>10. CurStep(s2, r, t, k, ret)
  BY <1>1, <1>3, <1>9, CurIs
<1>11. s2.tab[t] = s1.tab[t]
       /\ \A u \in Tabs : SameTab(s2.tab[u], s1.tab[u]) /\ s1.tab[u].foreign \subseteq s2.tab[u].foreign
  BY <1>7, Zenon DEF ItemStep, SameTab
<1>12. ASSUME NEW u \in Tabs
       PROVE  /\ TabStep(s, r, t, k, u)
              /\ r.tab[u].up = s.tab[u].up
              /\ u # t => r.tab[u].dflt = s.tab[u].dflt
  <2>1. CASE u = t
    <3>1. RegStep(s, s1, t, k) /\ CurStep(s2, r, t, k, ret) /\ s2.tab[t] = s1.tab[t]
      BY <1>4, <1>10, <1>11, Zenon
    <3>2. /\ s1.tab[t].up = s.tab[t].up /\ s1.tab[t].works = s.tab[t].works
          /\ s1.tab[t].cur = s.tab[t].cur /\ s1.tab[t].height = s.tab[t].height
          /\ s1.tab[t].foreign = s.tab[t].foreign
          /\ k # HeightKey => s1.tab[t].owner = s.tab[t].owner
          /\ \A j \in StoreKeys : j # k => s1.tab[t].dflt[j] = s.tab[t].dflt[j]
      BY <3>1, Zenon DEF RegStep
    <3>3. /\ r.tab[t].up = s1.tab[t].up /\ r.tab[t].works = s1.tab[t].works
          /\ r.tab[t].dflt = s1.tab[t].dflt /\ r.tab[t].owner = s1.tab[t].owner
          /\ r.tab[t].height = s1.tab[t].height /\ r.tab[t].foreign = s1.tab[t].foreign
          /\ \A j \in StoreKeys : j # k => r.tab[t].cur[j] = s1.tab[t].cur[j]
      BY <3>1, Zenon DEF CurStep
    <3> QED
      BY <2>1, <3>2, <3>3 DEF TabStep
  <2>2. CASE u # t
    <3>1. s1.tab[u] = s.tab[u] /\ r.tab[u] = s2.tab[u]
      BY <1>4, <1>10, <2>2, Zenon DEF RegStep, CurStep
    <3> QED
      BY <1>11, <2>2, <3>1 DEF TabStep, SameTab
  <2> QED
    BY <2>1, <2>2
<1>13. OtherKeys(s, r, k)
  <2>1. OtherKeys(s1, s2, k)
    BY <1>7, Zenon DEF OtherKeys, ItemStep
  <2>2. s1.saved = s.saved /\ s1.writer = s.writer /\ r.saved = s2.saved /\ r.writer = s2.writer
    BY <1>4, <1>10, Zenon DEF RegStep, CurStep
  <2> QED
    BY <2>1, <2>2 DEF OtherKeys
<1>14. r.tab[t].dflt[k] = ProgramDefault /\ (k = HeightKey => r.tab[t].owner # 0)
       /\ \A j \in StoreKeys : j # k => r.tab[t].dflt[j] = s.tab[t].dflt[j]
  <2>1. s1.tab[t].dflt[k] = ProgramDefault /\ (k = HeightKey => s1.tab[t].owner # 0)
        /\ \A j \in StoreKeys : j # k => s1.tab[t].dflt[j] = s.tab[t].dflt[j]
    BY <1>4, Zenon DEF RegStep
  <2>2. r.tab[t].dflt = s1.tab[t].dflt /\ r.tab[t].owner = s1.tab[t].owner
    BY <1>10, <1>11, Zenon DEF CurStep
  <2> QED
    BY <2>1, <2>2
<1>15. SavedBy(s, r, t, k) \/ NotSaved(s, r, t, k) \/ WasThere(s, r, t, k)
  <2>1. CASE s2 = s1
    BY <1>4, <1>8, <1>10, <2>1, Zenon DEF WasThere, RegStep, CurStep
  <2>2. CASE ItemStep(s1, s2, t, k, ret) /\ s2 # s1
    <3>1. /\ s1.saved = s.saved /\ s1.writer = s.writer /\ s1.faults = s.faults
          /\ s1.tab[t].works = s.tab[t].works
      BY <1>4, Zenon DEF RegStep
    <3>2. /\ r.saved = s2.saved /\ r.writer = s2.writer /\ r.faults = s2.faults
          /\ \A u \in Tabs : u # t => r.tab[u] = s2.tab[u]
          /\ r.tab[t].cur[k] = ret
      BY <1>10, Zenon DEF CurStep
    <3>3. CASE NotSaved(s1, s2, t, k)
      BY <3>1, <3>2, <3>3 DEF NotSaved
    <3>4. CASE /\ s1.tab[t].works /\ s2.saved[k] = ret /\ s2.writer[k] = t /\ s2.faults = s1.faults
               /\ \A u \in Tabs : u # t => k \in s2.tab[u].foreign
      BY <1>3, <3>1, <3>2, <3>4 DEF SavedBy
    <3> QED
      BY <2>2, <3>3, <3>4, Zenon DEF ItemStep
  <2> QED
    BY <1>7, <2>1, <2>2
<1>16. r \in Store /\ r.tab[t].cur[k] = ret
  BY <1>10 DEF CurStep
<1>17. KeyStep(s, r, t, k)
  BY <1>12, <1>13, <1>14, <1>15, <1>16, Zenon DEF KeyStep
<1>18. StoreGood(r)
  BY <1>17, KeyIsGood
<1> QED
  BY <1>3, <1>12, <1>14, <1>16, <1>18, Zenon DEF GetStep

(* What localStorageSet() of a registered key leaves. *)
SetStep(s, r, t, k, v) ==
    /\ StoreGood(r)
    /\ r.tab[t].cur[k] = v
    /\ \A j \in StoreKeys : j # k => r.tab[t].cur[j] = s.tab[t].cur[j]
    /\ r.tab[t].height = s.tab[t].height /\ r.tab[t].owner = s.tab[t].owner
    /\ \A u \in Tabs : r.tab[u].up = s.tab[u].up /\ r.tab[u].dflt = s.tab[u].dflt

(* localStorageSet() of a registered key: the value is current. *)
LEMMA SetIsGood ==
    ASSUME NoTab \notin Tabs, StoreFaults \in Int,
           NEW s, StoreGood(s), NEW t \in Tabs, NEW k \in StoreKeys, NEW v \in StoreValues, NEW bad,
           s.tab[t].dflt[k] = ProgramDefault,
           NEW r, r = LocalStorageSet(s, t, k, v, bad)
    PROVE  SetStep(s, r, t, k, v)
<1> DEFINE s2 == SetItem(s, t, k, v, bad)
<1>1. r = SetCur(s2, t, k, v)
  BY DEF LocalStorageSet, Absent, ProgramDefault, SetCur
<1>2. s \in Store /\ v \in Text
  BY DEF StoreGood, Text
<1>3. ItemStep(s, s2, t, k, v)
  BY <1>2, SetItemIs
<1> HIDE DEF s2
<1>4. CurStep(s2, r, t, k, v)
  BY <1>1, <1>2, <1>3, CurIs DEF ItemStep
<1>5. ASSUME NEW u \in Tabs
      PROVE  /\ TabStep(s, r, t, k, u)
             /\ r.tab[u].up = s.tab[u].up /\ r.tab[u].dflt = s.tab[u].dflt
             /\ r.tab[u].owner = s.tab[u].owner /\ r.tab[u].height = s.tab[u].height
  <2>1. CASE u = t
    <3>1. s2.tab[t] = s.tab[t]
      BY <1>3, Zenon DEF ItemStep
    <3>2. /\ r.tab[t].up = s2.tab[t].up /\ r.tab[t].works = s2.tab[t].works
          /\ r.tab[t].dflt = s2.tab[t].dflt /\ r.tab[t].owner = s2.tab[t].owner
          /\ r.tab[t].height = s2.tab[t].height /\ r.tab[t].foreign = s2.tab[t].foreign
          /\ \A j \in StoreKeys : j # k => r.tab[t].cur[j] = s2.tab[t].cur[j]
      BY <1>4, Zenon DEF CurStep
    <3> QED
      BY <2>1, <3>1, <3>2 DEF TabStep
  <2>2. CASE u # t
    <3>1. r.tab[u] = s2.tab[u] /\ SameTab(s2.tab[u], s.tab[u])
          /\ s.tab[u].foreign \subseteq s2.tab[u].foreign
      BY <1>3, <1>4, <2>2, Zenon DEF ItemStep, CurStep
    <3> QED
      BY <2>2, <3>1 DEF TabStep, SameTab
  <2> QED
    BY <2>1, <2>2
<1>6. ~ s.tab[t].works => s.writer[k] # t
  BY DEF StoreGood, Used
<1>7. SavedBy(s, r, t, k) \/ NotSaved(s, r, t, k) \/ WasThere(s, r, t, k)
  <2>1. /\ r.saved = s2.saved /\ r.writer = s2.writer /\ r.faults = s2.faults
        /\ \A u \in Tabs : u # t => r.tab[u] = s2.tab[u]
        /\ r.tab[t].cur[k] = v
    BY <1>4, Zenon DEF CurStep
  <2>2. CASE s.tab[t].works /\ NotSaved(s, s2, t, k)
    BY <2>1, <2>2 DEF NotSaved
  <2>3. CASE /\ s.tab[t].works /\ s2.saved[k] = v /\ s2.writer[k] = t /\ s2.faults = s.faults
             /\ \A u \in Tabs : u # t => k \in s2.tab[u].foreign
    BY <2>1, <2>3, Zenon DEF SavedBy
  <2>4. CASE ~ s.tab[t].works /\ s2 = s
    BY <1>6, <2>1, <2>4 DEF WasThere
  <2> QED
    BY <1>3, <2>2, <2>3, <2>4, Zenon DEF ItemStep
<1>8. OtherKeys(s, r, k) /\ r \in Store /\ r.tab[t].cur[k] = v
      /\ \A j \in StoreKeys : j # k => r.tab[t].cur[j] = s.tab[t].cur[j]
  <2>1. OtherKeys(s, s2, k) /\ s2.tab[t] = s.tab[t]
    BY <1>3, Zenon DEF ItemStep
  <2>2. /\ r \in Store /\ r.saved = s2.saved /\ r.writer = s2.writer /\ r.tab[t].cur[k] = v
        /\ \A j \in StoreKeys : j # k => r.tab[t].cur[j] = s2.tab[t].cur[j]
    BY <1>4, Zenon DEF CurStep
  <2> QED
    BY <2>1, <2>2 DEF OtherKeys
<1>9. k = HeightKey => r.tab[t].owner # 0
  BY <1>5 DEF StoreGood, Defaults, Absent, ProgramDefault
<1>10. KeyStep(s, r, t, k)
  BY <1>5, <1>7, <1>8, <1>9, Zenon DEF KeyStep
<1>11. StoreGood(r)
  BY <1>10, KeyIsGood
<1> QED
  BY <1>5, <1>8, <1>11, Zenon DEF SetStep

(* setOption() of a registered option. *)
LEMMA SetOptionIsGood ==
    ASSUME NoTab \notin Tabs, StoreFaults \in Int,
           NEW s, StoreGood(s), NEW t \in Tabs, NEW k \in StoreKeys, NEW v \in StoreValues, NEW bad,
           s.tab[t].dflt[k] = ProgramDefault,
           NEW r, r = SetOption(s, t, k, v, bad)
    PROVE  SetStep(s, r, t, k, v)
<1>1. CASE s.tab[t].cur[k] = v
  <2>1. r = s
    BY <1>1 DEF SetOption
  <2> QED
    BY <1>1, <2>1 DEF SetStep
<1>2. CASE s.tab[t].cur[k] # v
  <2>1. r = LocalStorageSet(s, t, k, v, bad)
    BY <1>2 DEF SetOption
  <2> QED
    BY <2>1, SetIsGood
<1> QED
  BY <1>1, <1>2, Zenon

(* A chart of a tab that has registered the height takes a height. *)
SetHeight(s, t, c, h) == [s EXCEPT !.tab[t].height[c] = h]

(* What that leaves. *)
HeightStep(s, r, t, c, h) ==
    /\ StoreGood(r)
    /\ r.tab[t].height[c] = h
    /\ \A u \in Tabs :
          /\ r.tab[u].up = s.tab[u].up /\ r.tab[u].dflt = s.tab[u].dflt
          /\ r.tab[u].cur = s.tab[u].cur /\ r.tab[u].owner = s.tab[u].owner

(* That keeps the invariant, and what the tabs know and use. *)
LEMMA HeightIsGood ==
    ASSUME NEW s, StoreGood(s), NEW t \in Tabs, NEW c \in TwoCharts, NEW h \in StoreValues,
           s.tab[t].dflt[HeightKey] = ProgramDefault,
           NEW r, r = SetHeight(s, t, c, h)
    PROVE  HeightStep(s, r, t, c, h)
<1> DEFINE height == [s.tab[t].height EXCEPT ![c] = h]
           one == [s.tab[t] EXCEPT !.height = height]
           tab == [s.tab EXCEPT ![t] = one]
<1>1. s \in Store /\ s.tab[t] \in Tab /\ s.tab \in [Tabs -> Tab]
  BY StoreFields DEF StoreGood
<1>2. height \in [TwoCharts -> 0 .. 2] /\ height[c] = h
  BY <1>1, StoreFields, SMT DEF StoreValues
<1>3. r = [s EXCEPT !.tab = tab]
  BY DEF SetHeight
<1> HIDE DEF height
<1>4. one \in Tab
  BY <1>1, <1>2, Zenon DEF Tab
<1>5. /\ one.cur = s.tab[t].cur /\ one.up = s.tab[t].up /\ one.works = s.tab[t].works
      /\ one.dflt = s.tab[t].dflt /\ one.owner = s.tab[t].owner
      /\ one.height = height /\ one.foreign = s.tab[t].foreign
  BY <1>1, SMT DEF Tab
<1> HIDE DEF one
<1>6. tab \in [Tabs -> Tab] /\ tab[t] = one /\ \A u \in Tabs : u # t => tab[u] = s.tab[u]
  BY <1>1, <1>4
<1> HIDE DEF tab
<1>7. r \in Store
  BY <1>1, <1>3, <1>6, Zenon DEF Store
<1>8. r.tab = tab /\ r.saved = s.saved /\ r.writer = s.writer /\ r.faults = s.faults
  BY <1>1, <1>3, SMT DEF Store
<1>9. \A u \in Tabs :
         /\ r.tab[u].up = s.tab[u].up /\ r.tab[u].works = s.tab[u].works
         /\ r.tab[u].dflt = s.tab[u].dflt /\ r.tab[u].cur = s.tab[u].cur
         /\ r.tab[u].owner = s.tab[u].owner /\ r.tab[u].foreign = s.tab[u].foreign
         /\ u # t => r.tab[u].height = s.tab[u].height
  BY <1>5, <1>6, <1>8
<1>10. Used(r) /\ InStep(r)
  <2>1. Used(s) /\ InStep(s)
    BY DEF StoreGood
  <2>2. Used(r)
    BY <1>8, <1>9, <2>1 DEF Used
  <2>3. InStep(r)
    BY <1>8, <1>9, <2>1 DEF InStep
  <2> QED
    BY <2>2, <2>3
<1>11. Defaults(r)
  BY <1>9, SMT DEF StoreGood, Defaults, Absent, ProgramDefault
<1> QED
  BY <1>2, <1>5, <1>6, <1>7, <1>8, <1>9, <1>10, <1>11, Zenon DEF StoreGood, HeightStep

(* What resizeChartToHeight() leaves. *)
ResizeStep(s, r, t, c, h) ==
    /\ StoreGood(r)
    /\ r.tab[t].height[c] = h /\ r.tab[t].owner = s.tab[t].owner
    /\ r.tab[t].cur[HeightKey] = h
    /\ \A j \in OptionKeys : r.tab[t].cur[j] = s.tab[t].cur[j]
    /\ \A u \in Tabs : r.tab[u].up = s.tab[u].up /\ r.tab[u].dflt = s.tab[u].dflt

(* resizeChartToHeight() of a chart of the tab. *)
LEMMA ResizeIsGood ==
    ASSUME NoTab \notin Tabs, StoreFaults \in Int,
           NEW s, StoreGood(s), NEW t \in Tabs, NEW c \in TwoCharts, NEW h \in StoreValues, NEW bad,
           s.tab[t].dflt[HeightKey] = ProgramDefault,
           NEW r, r = ResizeTo(s, t, c, h, bad)
    PROVE  ResizeStep(s, r, t, c, h)
<1> DEFINE s1 == LocalStorageSet(s, t, HeightKey, h, bad)
<1>1. HeightKey \in StoreKeys /\ \A j \in OptionKeys : j \in StoreKeys /\ j # HeightKey
  BY DEF StoreKeys, OptionKeys, HeightKey
<1>2. r = SetHeight(s1, t, c, h)
  BY DEF ResizeTo, SetHeight
<1>e. s1 = LocalStorageSet(s, t, HeightKey, h, bad)
  OBVIOUS
<1> HIDE DEF s1
<1>3. SetStep(s, s1, t, HeightKey, h)
  BY <1>1, <1>e, SetIsGood
<1>4. StoreGood(s1) /\ s1.tab[t].dflt[HeightKey] = ProgramDefault
  BY <1>3, Zenon DEF SetStep
<1>5. HeightStep(s1, r, t, c, h)
  BY <1>2, <1>4, HeightIsGood
<1>6. StoreGood(r) /\ r.tab[t].height[c] = h
  BY <1>5, Zenon DEF HeightStep
<1>7. \A u \in Tabs :
         /\ r.tab[u].up = s1.tab[u].up /\ r.tab[u].dflt = s1.tab[u].dflt
         /\ r.tab[u].cur = s1.tab[u].cur /\ r.tab[u].owner = s1.tab[u].owner
  BY <1>5, Zenon DEF HeightStep
<1>8. /\ s1.tab[t].cur[HeightKey] = h /\ s1.tab[t].owner = s.tab[t].owner
      /\ \A j \in OptionKeys : s1.tab[t].cur[j] = s.tab[t].cur[j]
      /\ \A u \in Tabs : s1.tab[u].up = s.tab[u].up /\ s1.tab[u].dflt = s.tab[u].dflt
  BY <1>1, <1>3, Zenon DEF SetStep
<1> QED
  BY <1>6, <1>7, <1>8 DEF ResizeStep

(* The end of a step: what was done is noted, and the step counted. *)
Noted(s, did, t) == [StoreNote(s, did, t) EXCEPT !.acts = @ + 1]

(* That changes nothing the invariant speaks of. *)
LEMMA NoteIsGood ==
    ASSUME NEW s, StoreGood(s), NEW t \in Tabs,
           NEW did \in Dids,
           NEW r, r = Noted(s, did, t)
    PROVE  StoreGood(r) /\ r.tab = s.tab /\ r.did = did /\ r.by = t
<1>1. s \in Store
  BY DEF StoreGood
<1>2. s.acts + 1 \in Nat
  BY <1>1, SMT DEF Store
<1>3. r = [s EXCEPT !.did = did, !.by = t, !.acts = s.acts + 1]
  BY <1>1, SMT DEF Noted, StoreNote, Store
<1>4. r \in Store
  BY <1>1, <1>2, <1>3, Zenon DEF Store
<1>5. /\ r.tab = s.tab /\ r.saved = s.saved /\ r.writer = s.writer /\ r.faults = s.faults
      /\ r.did = did /\ r.by = t
  BY <1>1, <1>3, SMT DEF Store
<1>6. Used(r) /\ Defaults(r) /\ InStep(r)
  <2>1. Used(s) /\ Defaults(s) /\ InStep(s)
    BY DEF StoreGood
  <2>2. Used(r)
    BY <1>5, <2>1 DEF Used
  <2>3. Defaults(r)
    BY <1>5, <2>1 DEF Defaults
  <2>4. InStep(r)
    BY <1>5, <2>1 DEF InStep
  <2> QED
    BY <2>2, <2>3, <2>4
<1> QED
  BY <1>4, <1>5, <1>6 DEF StoreGood

-----------------------------------------------------------------------------
(* After a reset of a tab, everything it knows has its default. *)
Restored(s) ==
    \A t \in Tabs : s.did = "reset" /\ s.by = t =>
        /\ \A k \in OptionKeys : s.tab[t].cur[k] = ProgramDefault
        /\ s.tab[t].owner # 0 =>
              /\ s.tab[t].cur[HeightKey] = ProgramDefault
              /\ s.tab[t].height[s.tab[t].owner] = ProgramDefault

StoreInv == StoreGood(store) /\ StoreKnown(store) /\ Restored(store)

(* A tab whose script begins has no part in what is saved. *)
Opened(s, t, works) ==
    [s EXCEPT !.tab[t] = [ClosedTab EXCEPT !.up = TRUE, !.works = works],
              !.writer = [k \in StoreKeys |-> IF s.writer[k] = t THEN NoTab ELSE s.writer[k]]]

(* A tab before its script is loaded. *)
LEMMA ClosedIsTab ==
    /\ ClosedTab \in Tab
    /\ \A k \in StoreKeys : ClosedTab.dflt[k] = Absent
    /\ ClosedTab.owner = 0 /\ ~ ClosedTab.up
    /\ \A c \in TwoCharts : ClosedTab.height[c] = 0
<1>1. [k \in StoreKeys |-> Absent] \in [StoreKeys -> Text]
  BY SMT DEF Text
<1>2. [c \in TwoCharts |-> 0] \in [TwoCharts -> 0 .. 2]
  BY SMT
<1>3. 0 \in 0 .. 2 /\ {} \in SUBSET StoreKeys
  BY SMT
<1>4. ClosedTab \in Tab
  BY <1>1, <1>2, <1>3, Zenon DEF ClosedTab, Tab
<1> QED
  BY <1>4 DEF ClosedTab

(* Opening a tab keeps the invariant. *)
LEMMA OpenedIsGood ==
    ASSUME NoTab \notin Tabs, StoreFaults \in Int,
           NEW s, StoreGood(s), NEW t \in Tabs, NEW works \in BOOLEAN,
           NEW r, r = Opened(s, t, works)
    PROVE  StoreGood(r) /\ \A u \in Tabs : u # t => r.tab[u] = s.tab[u]
<1> DEFINE one == [ClosedTab EXCEPT !.up = TRUE, !.works = works]
           tab == [s.tab EXCEPT ![t] = one]
           writer == [k \in StoreKeys |-> IF s.writer[k] = t THEN NoTab ELSE s.writer[k]]
<1>1. s \in Store /\ s.tab \in [Tabs -> Tab] /\ s.writer \in [StoreKeys -> Tabs \cup {NoTab}]
  BY StoreFields DEF StoreGood
<1>2. one \in Tab
  BY ClosedIsTab, Zenon DEF Tab
<1>3. one.dflt = ClosedTab.dflt /\ one.owner = 0 /\ one.height = ClosedTab.height
  BY ClosedIsTab, SMT DEF Tab
<1>4. r = [s EXCEPT !.tab = tab, !.writer = writer]
  BY DEF Opened
<1> HIDE DEF one
<1>5. tab \in [Tabs -> Tab] /\ tab[t] = one /\ \A u \in Tabs : u # t => tab[u] = s.tab[u]
  BY <1>1, <1>2
<1>6. writer \in [StoreKeys -> Tabs \cup {NoTab}]
  BY <1>1
<1>7. \A k \in StoreKeys : writer[k] # t /\ writer[k] \in {NoTab, s.writer[k]}
  OBVIOUS
<1> HIDE DEF tab, writer
<1>8. r \in Store
  BY <1>1, <1>4, <1>5, <1>6, Zenon DEF Store
<1>9. r.tab = tab /\ r.saved = s.saved /\ r.writer = writer /\ r.faults = s.faults
  BY <1>1, <1>4, SMT DEF Store
<1>10. Used(r)
  <2> SUFFICES ASSUME NEW u \in Tabs, NEW k \in StoreKeys, r.writer[k] = u
               PROVE  r.tab[u].works /\ r.saved[k] = r.tab[u].cur[k] /\ r.saved[k] \in StoreValues
    BY Zenon DEF Used
  <2>1. u # t /\ s.writer[k] = u
    BY <1>7, <1>9
  <2> QED
    BY <1>5, <1>9, <2>1 DEF StoreGood, Used
<1>11. HeightKey \in StoreKeys
  BY DEF StoreKeys
<1>12. Defaults(r)
  <2> SUFFICES ASSUME NEW u \in Tabs
               PROVE  /\ \A k \in StoreKeys : r.tab[u].dflt[k] \in {Absent, ProgramDefault}
                      /\ r.tab[u].dflt[HeightKey] = Absent =>
                            r.tab[u].owner = 0 /\ \A c \in TwoCharts : r.tab[u].height[c] = 0
                      /\ r.tab[u].dflt[HeightKey] # Absent => r.tab[u].owner # 0
    BY Zenon DEF Defaults
  <2>1. CASE u = t
    BY <1>3, <1>5, <1>9, <1>11, <2>1, ClosedIsTab
  <2>2. CASE u # t
    BY <1>5, <1>9, <2>2 DEF StoreGood, Defaults
  <2> QED
    BY <2>1, <2>2, Zenon
<1>13. \A k \in StoreKeys : r.tab[t].dflt[k] = Absent
  BY <1>3, <1>5, <1>9, ClosedIsTab
<1>14. InStep(r)
  BY <1>5, <1>9, <1>13 DEF StoreGood, InStep
<1> QED
  BY <1>5, <1>8, <1>9, <1>10, <1>12, <1>14 DEF StoreGood

(* The keys, by name. *)
LEMMA StoreKeysAre ==
    /\ "focus" \in StoreKeys /\ "other" \in StoreKeys /\ HeightKey \in StoreKeys
    /\ \A k \in OptionKeys : k \in StoreKeys /\ k # HeightKey /\ k \in {"focus", "other"}
    /\ \A k \in StoreKeys : k \in OptionKeys \/ k = HeightKey
    /\ 1 \in StoreValues /\ ProgramDefault \in StoreValues /\ ProgramDefault # Absent
  BY SMT DEF StoreKeys, OptionKeys, HeightKey, StoreValues, ProgramDefault, Absent

(* A script is loaded. *)
LEMMA LoadIsGood ==
    ASSUME NoTab \notin Tabs, StoreFaults \in Int, StoreInv, NEW t \in Tabs, LoadTab(t)
    PROVE  StoreInv'
<1>1. PICK works \in BOOLEAN, bad \in Bads :
        LET s0 == Opened(store, t, works)
            s1 == LocalStorageGet(s0, t, "other", ProgramDefault, 0, bad)
            s2 == LocalStorageGet(s1, t, "focus", ProgramDefault, 0, bad)
        IN  store' = Noted(SetOption(s2, t, "focus", 1, bad), "load", t)
  BY Zenon DEF LoadTab, Opened, StoreActed, Noted
<1> DEFINE s0 == Opened(store, t, works)
           s1 == LocalStorageGet(s0, t, "other", ProgramDefault, 0, bad)
           s2 == LocalStorageGet(s1, t, "focus", ProgramDefault, 0, bad)
           s3 == SetOption(s2, t, "focus", 1, bad)
<1>2. store' = Noted(s3, "load", t)
  BY <1>1
<1>e. /\ s0 = Opened(store, t, works)
      /\ s1 = LocalStorageGet(s0, t, "other", ProgramDefault, 0, bad)
      /\ s2 = LocalStorageGet(s1, t, "focus", ProgramDefault, 0, bad)
      /\ s3 = SetOption(s2, t, "focus", 1, bad)
  OBVIOUS
<1>k. "other" \in StoreKeys /\ "focus" \in StoreKeys /\ 1 \in StoreValues
  BY StoreKeysAre
<1> HIDE DEF s0, s1, s2, s3
<1>3. StoreGood(s0) /\ \A u \in Tabs : u # t => s0.tab[u] = store.tab[u]
  BY <1>e, OpenedIsGood DEF StoreInv
<1>4. "other" # HeightKey /\ "focus" # HeightKey /\ 0 \in 0 .. 2 /\ "other" # "focus"
  BY SMT DEF HeightKey
<1>5. /\ StoreGood(s1) /\ s1.tab[t].dflt["other"] = ProgramDefault
      /\ \A u \in Tabs : u # t => s1.tab[u].dflt = s0.tab[u].dflt /\ s1.tab[u].up = s0.tab[u].up
  <2>1. GetStep(s0, s1, t, "other")
    BY <1>3, <1>4, <1>e, <1>k, GetIsGood
  <2> QED
    BY <2>1, Zenon DEF GetStep
<1>6. /\ StoreGood(s2) /\ s2.tab[t].dflt["focus"] = ProgramDefault
      /\ s2.tab[t].dflt["other"] = s1.tab[t].dflt["other"]
      /\ \A u \in Tabs : u # t => s2.tab[u].dflt = s1.tab[u].dflt /\ s2.tab[u].up = s1.tab[u].up
  <2>1. GetStep(s1, s2, t, "focus")
    BY <1>4, <1>5, <1>e, <1>k, GetIsGood
  <2> QED
    BY <1>4, <1>k, <2>1, Zenon DEF GetStep
<1>7. StoreGood(s3) /\ \A u \in Tabs : s3.tab[u].dflt = s2.tab[u].dflt /\ s3.tab[u].up = s2.tab[u].up
  <2>1. SetStep(s2, s3, t, "focus", 1)
    BY <1>6, <1>e, <1>k, SetOptionIsGood
  <2> QED
    BY <2>1, Zenon DEF SetStep
<1> HIDE DEF s3
<1>8. StoreGood(store') /\ store'.tab = s3.tab /\ store'.did = "load"
  <2>1. /\ StoreGood(Noted(s3, "load", t)) /\ Noted(s3, "load", t).tab = s3.tab
        /\ Noted(s3, "load", t).did = "load"
    BY <1>7, NoteIsGood DEF Dids
  <2> QED
    BY <1>2, <2>1
<1>9. StoreKnown(store')
  <2> SUFFICES ASSUME NEW u \in Tabs, NEW k \in OptionKeys, store'.tab[u].up
               PROVE  store'.tab[u].dflt[k] # Absent
    BY Zenon DEF StoreKnown
  <2>1. CASE u = t
    BY <1>5, <1>6, <1>7, <1>8, <2>1, StoreKeysAre
  <2>2. CASE u # t
    BY <1>3, <1>5, <1>6, <1>7, <1>8, <2>2 DEF StoreInv, StoreKnown
  <2> QED
    BY <2>1, <2>2
<1>10. Restored(store')
  BY <1>8 DEF Restored
<1> QED
  BY <1>8, <1>9, <1>10 DEF StoreInv

(* A step of a tab that leaves the defaults of the options alone and is no *)
(* reset.                                                                  *)
LEMMA EndIsGood ==
    ASSUME StoreInv, NEW t \in Tabs, NEW did \in {"chart", "choose", "drag"},
           NEW s, StoreGood(s), store' = Noted(s, did, t),
           \A u \in Tabs : s.tab[u].up = store.tab[u].up /\
               \A k \in OptionKeys : s.tab[u].dflt[k] = store.tab[u].dflt[k]
    PROVE  StoreInv'
<1>1. StoreGood(store') /\ store'.tab = s.tab /\ store'.did = did
  <2>1. did \in Dids
    BY DEF Dids
  <2>2. StoreGood(Noted(s, did, t)) /\ Noted(s, did, t).tab = s.tab /\ Noted(s, did, t).did = did
    BY <2>1, NoteIsGood
  <2> QED
    BY <2>2
<1>2. StoreKnown(store')
  BY <1>1 DEF StoreKnown, StoreInv
<1>3. Restored(store')
  BY <1>1 DEF Restored
<1> QED
  BY <1>1, <1>2, <1>3 DEF StoreInv

(* A chart is made. *)
LEMMA ChartIsGood ==
    ASSUME NoTab \notin Tabs, StoreFaults \in Int, StoreInv,
           NEW t \in Tabs, NEW c \in TwoCharts, ChartOfTab(t, c)
    PROVE  StoreInv'
<1>1. PICK bad \in Bads :
        LET s1 == LocalStorageGet(store, t, HeightKey, ProgramDefault, c, bad)
        IN  store' = Noted(SetHeight(s1, t, c, s1.tab[t].cur[HeightKey]), "chart", t)
  BY Zenon DEF ChartOfTab, SetHeight, StoreActed, Noted
<1> DEFINE s1 == LocalStorageGet(store, t, HeightKey, ProgramDefault, c, bad)
           s2 == SetHeight(s1, t, c, s1.tab[t].cur[HeightKey])
<1>2. store' = Noted(s2, "chart", t)
  BY <1>1
<1>3. c \in 0 .. 2 /\ c # 0
  BY SMT DEF TwoCharts
<1>e. /\ s1 = LocalStorageGet(store, t, HeightKey, ProgramDefault, c, bad)
      /\ s2 = SetHeight(s1, t, c, s1.tab[t].cur[HeightKey])
  OBVIOUS
<1>g. StoreGood(store) /\ HeightKey \in StoreKeys
  BY StoreKeysAre DEF StoreInv
<1> HIDE DEF s1, s2
<1>4. /\ StoreGood(s1) /\ s1.tab[t].cur[HeightKey] \in StoreValues
      /\ s1.tab[t].dflt[HeightKey] = ProgramDefault
      /\ \A j \in StoreKeys : j # HeightKey => s1.tab[t].dflt[j] = store.tab[t].dflt[j]
      /\ \A u \in Tabs : s1.tab[u].up = store.tab[u].up
      /\ \A u \in Tabs : u # t => s1.tab[u].dflt = store.tab[u].dflt
  <2>1. GetStep(store, s1, t, HeightKey)
    BY <1>3, <1>e, <1>g, GetIsGood
  <2> QED
    BY <2>1, Zenon DEF GetStep
<1>5. StoreGood(s2) /\ \A u \in Tabs : s2.tab[u].up = s1.tab[u].up /\ s2.tab[u].dflt = s1.tab[u].dflt
  <2> DEFINE h == s1.tab[t].cur[HeightKey]
  <2>1. s2 = SetHeight(s1, t, c, h) /\ h \in StoreValues
    BY <1>4, <1>e
  <2> HIDE DEF h
  <2>2. HeightStep(s1, s2, t, c, h)
    BY <1>4, <2>1, HeightIsGood
  <2> QED
    BY <2>2, Zenon DEF HeightStep
<1>6. \A u \in Tabs : s2.tab[u].up = store.tab[u].up /\
          \A k \in OptionKeys : s2.tab[u].dflt[k] = store.tab[u].dflt[k]
  BY <1>4, <1>5, StoreKeysAre
<1> QED
  BY <1>2, <1>5, <1>6, EndIsGood

(* The user changes an option. *)
LEMMA ChooseIsGood ==
    ASSUME NoTab \notin Tabs, StoreFaults \in Int, StoreInv, NEW t \in Tabs, ChooseOption(t)
    PROVE  StoreInv'
<1>1. PICK k \in OptionKeys, v \in StoreValues, bad \in Bads :
        store' = Noted(SetOption(store, t, k, v, bad), "choose", t)
  BY DEF ChooseOption, StoreActed, Noted
<1> DEFINE s1 == SetOption(store, t, k, v, bad)
<1>k. k \in StoreKeys
  BY StoreKeysAre
<1>2. store.tab[t].dflt[k] = ProgramDefault
  <2>1. store.tab[t].up /\ StoreKnown(store) /\ Defaults(store)
    BY DEF ChooseOption, StoreInv, StoreGood
  <2>2. store.tab[t].dflt[k] # Absent
    BY <2>1 DEF StoreKnown
  <2>3. store.tab[t].dflt[k] \in {Absent, ProgramDefault}
    BY <1>k, <2>1 DEF Defaults
  <2> QED
    BY <2>2, <2>3
<1>e. s1 = SetOption(store, t, k, v, bad) /\ StoreGood(store)
  BY DEF StoreInv
<1>4. store' = Noted(s1, "choose", t)
  BY <1>1
<1> HIDE DEF s1
<1>3. StoreGood(s1) /\ \A u \in Tabs : s1.tab[u].up = store.tab[u].up /\ s1.tab[u].dflt = store.tab[u].dflt
  <2>1. SetStep(store, s1, t, k, v)
    BY <1>2, <1>e, <1>k, SetOptionIsGood
  <2> QED
    BY <2>1, Zenon DEF SetStep
<1> QED
  BY <1>3, <1>4, EndIsGood

(* The user drags a chart. *)
LEMMA DragIsGood ==
    ASSUME NoTab \notin Tabs, StoreFaults \in Int, StoreInv,
           NEW t \in Tabs, NEW c \in TwoCharts, DragChart(t, c)
    PROVE  StoreInv'
<1>1. PICK h \in StoreValues, bad \in Bads :
        store' = Noted(ResizeTo(store, t, c, h, bad), "drag", t)
  BY DEF DragChart, StoreActed, Noted
<1> DEFINE s1 == ResizeTo(store, t, c, h, bad)
<1>2. store.tab[t].dflt[HeightKey] = ProgramDefault
  BY StoreKeysAre, Zenon DEF DragChart, StoreInv, StoreGood, Defaults
<1>e. s1 = ResizeTo(store, t, c, h, bad) /\ StoreGood(store)
  BY DEF StoreInv
<1>4. store' = Noted(s1, "drag", t)
  BY <1>1
<1> HIDE DEF s1
<1>3. StoreGood(s1) /\ \A u \in Tabs : s1.tab[u].up = store.tab[u].up /\ s1.tab[u].dflt = store.tab[u].dflt
  <2>1. ResizeStep(store, s1, t, c, h)
    BY <1>2, <1>e, ResizeIsGood
  <2> QED
    BY <2>1, Zenon DEF ResizeStep
<1> QED
  BY <1>3, <1>4, EndIsGood

(* A reset gives every option, and the height of the chart that registered *)
(* it, its default.                                                        *)
LEMMA ResetIsGood ==
    ASSUME NoTab \notin Tabs, StoreFaults \in Int, StoreInv, NEW t \in Tabs, ResetTab(t)
    PROVE  StoreInv'
<1>1. PICK bad \in Bads : store' = Noted(ResetOptions(store, t, bad), "reset", t)
  BY Zenon DEF ResetTab, StoreActed, Noted
<1> DEFINE tab == store.tab[t]
           s1 == SetOption(store, t, "focus", tab.dflt["focus"], bad)
           s2 == SetOption(s1, t, "other", tab.dflt["other"], bad)
           s3 == IF tab.owner # 0 THEN ResizeTo(s2, t, tab.owner, tab.dflt[HeightKey], bad) ELSE s2
<1>2. store' = Noted(s3, "reset", t)
  BY <1>1 DEF ResetOptions
<1>3. StoreGood(store) /\ store \in Store /\ tab.owner \in 0 .. 2
  BY StoreFields, Zenon DEF StoreInv, StoreGood
<1>4. /\ tab.dflt["focus"] = ProgramDefault /\ tab.dflt["other"] = ProgramDefault
      /\ tab.dflt[HeightKey] \in {Absent, ProgramDefault}
      /\ tab.owner # 0 => tab.dflt[HeightKey] = ProgramDefault
  BY StoreKeysAre, Zenon DEF ResetTab, StoreInv, StoreKnown, StoreGood, Defaults, OptionKeys
<1>e. /\ s1 = SetOption(store, t, "focus", ProgramDefault, bad)
      /\ s2 = SetOption(s1, t, "other", ProgramDefault, bad)
  BY <1>4
<1>k. "other" \in StoreKeys /\ "focus" \in StoreKeys /\ ProgramDefault \in StoreValues /\ "focus" # "other"
  BY StoreKeysAre
<1> HIDE DEF s1, s2
<1>5. /\ StoreGood(s1) /\ s1.tab[t].cur["focus"] = ProgramDefault /\ s1.tab[t].owner = tab.owner
      /\ \A u \in Tabs : s1.tab[u].up = store.tab[u].up /\ s1.tab[u].dflt = store.tab[u].dflt
  <2>1. SetStep(store, s1, t, "focus", ProgramDefault)
    BY <1>3, <1>4, <1>e, <1>k, SetOptionIsGood
  <2> QED
    BY <2>1, Zenon DEF SetStep
<1>6. /\ StoreGood(s2) /\ s2.tab[t].cur["focus"] = ProgramDefault
      /\ s2.tab[t].cur["other"] = ProgramDefault /\ s2.tab[t].owner = tab.owner
      /\ \A u \in Tabs : s2.tab[u].up = store.tab[u].up /\ s2.tab[u].dflt = store.tab[u].dflt
  <2>1. s1.tab[t].dflt["other"] = ProgramDefault
    BY <1>4, <1>5
  <2>2. /\ StoreGood(s2) /\ s2.tab[t].cur["other"] = ProgramDefault /\ s2.tab[t].owner = s1.tab[t].owner
        /\ \A j \in StoreKeys : j # "other" => s2.tab[t].cur[j] = s1.tab[t].cur[j]
        /\ \A u \in Tabs : s2.tab[u].up = s1.tab[u].up /\ s2.tab[u].dflt = s1.tab[u].dflt
    <3>1. SetStep(s1, s2, t, "other", ProgramDefault)
      BY <1>5, <1>e, <1>k, <2>1, SetOptionIsGood
    <3> QED
      BY <3>1, Zenon DEF SetStep
  <2> QED
    BY <1>5, <1>k, <2>2
<1>7. /\ StoreGood(s3) /\ s3.tab[t].cur["focus"] = ProgramDefault
      /\ s3.tab[t].cur["other"] = ProgramDefault
      /\ s3.tab[t].owner # 0 =>
            /\ s3.tab[t].cur[HeightKey] = ProgramDefault
            /\ s3.tab[t].height[s3.tab[t].owner] = ProgramDefault
      /\ \A u \in Tabs : s3.tab[u].up = store.tab[u].up /\ s3.tab[u].dflt = store.tab[u].dflt
  <2>1. CASE tab.owner # 0
    <3>1. tab.owner \in TwoCharts
      BY <1>3, <2>1, SMT DEF TwoCharts
    <3>2. s3 = ResizeTo(s2, t, tab.owner, ProgramDefault, bad)
      BY <1>4, <2>1
    <3>3. s2.tab[t].dflt[HeightKey] = ProgramDefault
      BY <1>4, <1>6, <2>1
    <3>4. "focus" \in OptionKeys /\ "other" \in OptionKeys
      BY DEF OptionKeys
    <3> HIDE DEF s3, tab
    <3>5. ProgramDefault \in StoreValues
      BY StoreKeysAre
    <3>6. /\ StoreGood(s3)
          /\ s3.tab[t].height[tab.owner] = ProgramDefault
          /\ s3.tab[t].owner = s2.tab[t].owner
          /\ s3.tab[t].cur[HeightKey] = ProgramDefault
          /\ \A j \in OptionKeys : s3.tab[t].cur[j] = s2.tab[t].cur[j]
          /\ \A u \in Tabs : s3.tab[u].up = s2.tab[u].up /\ s3.tab[u].dflt = s2.tab[u].dflt
      <4>1. ResizeStep(s2, s3, t, tab.owner, ProgramDefault)
        BY <1>6, <3>1, <3>2, <3>3, <3>5, ResizeIsGood
      <4> QED
        BY <4>1, Zenon DEF ResizeStep
    <3> QED
      BY <1>6, <3>4, <3>6, Zenon
  <2>2. CASE tab.owner = 0
    BY <1>6, <2>2, Zenon
  <2> QED
    BY <2>1, <2>2, Zenon
<1> HIDE DEF s3, tab
<1>8. StoreGood(store') /\ store'.tab = s3.tab /\ store'.did = "reset" /\ store'.by = t
  <2>1. /\ StoreGood(Noted(s3, "reset", t)) /\ Noted(s3, "reset", t).tab = s3.tab
        /\ Noted(s3, "reset", t).did = "reset" /\ Noted(s3, "reset", t).by = t
    BY <1>7, NoteIsGood DEF Dids
  <2> QED
    BY <1>2, <2>1
<1>9. StoreKnown(store')
  BY <1>7, <1>8 DEF StoreInv, StoreKnown
<1>10. Restored(store')
  BY <1>7, <1>8, StoreKeysAre DEF Restored
<1> QED
  BY <1>8, <1>9, <1>10 DEF StoreInv

(* Every step keeps the invariant. *)
LEMMA StoreStep ==
    ASSUME NoTab \notin Tabs, StoreFaults \in Int
    PROVE  StoreInv /\ [StoreNext]_store => StoreInv'
<1> SUFFICES ASSUME StoreInv, [StoreNext]_store PROVE StoreInv'
  OBVIOUS
<1>1. CASE UNCHANGED store
  BY <1>1 DEF StoreInv
<1>2. CASE StoreNext
  <2>1. PICK t \in Tabs :
          \/ LoadTab(t)
          \/ \E c \in TwoCharts : ChartOfTab(t, c) \/ DragChart(t, c)
          \/ ChooseOption(t)
          \/ ResetTab(t)
    BY <1>2 DEF StoreNext
  <2> QED
    BY <2>1, LoadIsGood, ChartIsGood, DragIsGood, ChooseIsGood, ResetIsGood
<1> QED
  BY <1>1, <1>2

(* No tab is open at first. *)
LEMMA StoreStart ==
    ASSUME NoTab \notin Tabs, StoreFaults \in Int
    PROVE  StoreInit => StoreInv
<1> SUFFICES ASSUME StoreInit PROVE StoreInv
  OBVIOUS
<1>1. PICK saved \in [StoreKeys -> {Absent, Corrupt} \cup StoreValues] :
        store = [saved |-> saved, tab |-> [t \in Tabs |-> ClosedTab],
                 writer |-> [k \in StoreKeys |-> NoTab],
                 acts |-> 0, faults |-> StoreFaults, did |-> "none", by |-> NoTab]
  BY Zenon DEF StoreInit
<1>2. [t \in Tabs |-> ClosedTab] \in [Tabs -> Tab]
  BY ClosedIsTab
<1>3. [k \in StoreKeys |-> NoTab] \in [StoreKeys -> Tabs \cup {NoTab}]
  OBVIOUS
<1>4. saved \in [StoreKeys -> Text] /\ 0 \in Nat
  BY SMT DEF Text
<1>5. store \in Store
  BY <1>1, <1>2, <1>3, <1>4, Zenon DEF Store, Dids
<1>6. /\ store.did = "none" /\ store.faults = StoreFaults
      /\ \A t \in Tabs : store.tab[t] = ClosedTab
      /\ \A k \in StoreKeys : store.writer[k] = NoTab
  BY <1>1
<1>7. Used(store)
  BY <1>6 DEF Used
<1>8. Defaults(store) /\ InStep(store)
  BY <1>6, ClosedIsTab, StoreKeysAre DEF Defaults, InStep
<1>9. StoreKnown(store) /\ Restored(store)
  BY <1>6, ClosedIsTab DEF StoreKnown, Restored
<1> QED
  BY <1>5, <1>7, <1>8, <1>9 DEF StoreInv, StoreGood

(* The tab that wrote a key last uses what the storage holds               *)
(* (localStorageSet() 469-492, setOption() 510-533).                       *)
THEOREM SavedStaysUsed ==
    ASSUME NoTab \notin Tabs, StoreFaults \in Int
    PROVE  StoreSpec => []SavedIsUsed
<1>1. StoreInv => SavedIsUsed
  BY DEF StoreInv, StoreGood, Used, SavedIsUsed
<1> QED
  BY <1>1, StoreStart, StoreStep, PTL DEF StoreSpec

(* A reset gives every option and the registered height its default,       *)
(* whatever was saved, failed to be saved or was changed by other tabs; a  *)
(* reload after it reads the defaults, for the keys no other tab wrote,    *)
(* when no write failed (resetOptions() 545-565).                          *)
THEOREM ResetLasts ==
    ASSUME NoTab \notin Tabs, StoreFaults \in Int
    PROVE  StoreSpec => []ResetWorks
<1>1. StoreInv => ResetRestores
  BY DEF StoreInv, Restored, ResetRestores
<1>2. StoreInv => ResetIsDurable
  <2> SUFFICES ASSUME StoreInv, NEW t \in Tabs, store.did = "reset", store.by = t,
                      store.tab[t].works, store.faults = StoreFaults,
                      NEW k \in KnownKeys(t) \ store.tab[t].foreign
               PROVE  Loaded(store.saved[k], ProgramDefault) = ProgramDefault
    BY DEF ResetIsDurable
  <2>1. k \in StoreKeys /\ store.tab[t].dflt[k] # Absent
    BY DEF KnownKeys
  <2>2. Loaded(store.saved[k], ProgramDefault) = store.tab[t].cur[k]
    BY <2>1, Zenon DEF StoreInv, StoreGood, InStep
  <2>3. k = HeightKey => store.tab[t].owner # 0
    BY <2>1 DEF StoreInv, StoreGood, Defaults
  <2>4. store.tab[t].cur[k] = ProgramDefault
    BY <2>1, <2>3, StoreKeysAre DEF StoreInv, Restored
  <2> QED
    BY <2>2, <2>4
<1>3. StoreInv => ResetWorks
  BY <1>1, <1>2 DEF ResetWorks
<1> QED
  BY <1>3, StoreStart, StoreStep, PTL DEF StoreSpec

-----------------------------------------------------------------------------
(* The handle that resizes a chart.                                        *)

Press == [set : BOOLEAN, orig : Nat, start : Nat, last : Nat, y : Nat, recent : BOOLEAN]

ResizeState ==
    [height : [Handles -> Nat], page : [Handles -> Nat], fit : [Handles -> Nat],
     ev : [Handles -> Press], hook : Handles \cup {NoHandle}, down : Handles \cup {NoHandle},
     y : Nat, missed : [Handles -> Nat]]

(* A chart that is dragged has the height of the last move, and no second  *)
(* click before; a second click that hid a part of the legend was the last *)
(* thing that happened to the chart.                                       *)
Dragged(s, c) ==
    /\ s.ev[c].last = s.height[c]
    /\ LET h == s.ev[c].start + s.y - s.ev[c].y IN h >= MinDrag => s.height[c] = h

Missed(s, c) == s.missed[c] = 1 /\ s.height[c] < s.fit[c] /\ s.ev[c].recent /\ s.hook # c

ResizeGood(s) ==
    /\ s \in ResizeState
    /\ s.hook # NoHandle => s.hook = s.down /\ Dragged(s, s.hook)
    /\ \A c \in Handles : s.missed[c] = 0 \/ Missed(s, c)

(* The charts begin with the heights of the page.                          *)
LEMMA ResizeInitGood ==
    ASSUME ResizeInit PROVE ResizeGood(resize)
<1>1. PICK h, page, fit \in [Handles -> Heights] :
        resize = [height |-> h, page |-> page, fit |-> fit,
                  ev |-> [c \in Handles |-> NoPress], hook |-> NoHandle,
                  down |-> NoHandle, y |-> 1, missed |-> [c \in Handles |-> 0]]
  BY Zenon DEF ResizeInit
<1>2. h \in [Handles -> Nat] /\ page \in [Handles -> Nat] /\ fit \in [Handles -> Nat]
  BY ResizeAssumption DEF Heights
<1>3. NoPress \in Press
  BY DEF NoPress, Press
<1> QED BY <1>1, <1>2, <1>3 DEF ResizeGood, ResizeState

(* The handle is pressed: the drag begins from the height the chart has.   *)
LEMMA PressedGood ==
    ASSUME NEW s \in ResizeState, NEW c \in Handles
    PROVE  LET p == Pressed(s, c)
           IN  /\ p \in ResizeState
               /\ \E e \in Press : /\ p = [s EXCEPT !.down = c, !.ev = [s.ev EXCEPT ![c] = e]]
                                   /\ e.recent = s.ev[c].recent /\ e.start = s.height[c]
                                   /\ e.last = s.height[c] /\ e.y = s.y
<1> DEFINE o == IF s.ev[c].set THEN s.ev[c].orig ELSE s.height[c]
           e == [s.ev[c] EXCEPT !.set = TRUE, !.orig = o, !.start = s.height[c],
                                !.last = s.height[c], !.y = s.y]
           p == [s EXCEPT !.down = c, !.ev = [s.ev EXCEPT ![c] = e]]
<1>1. s.ev[c] \in Press /\ s.height[c] \in Nat /\ s.y \in Nat /\ o \in Nat
  BY DEF ResizeState, Press
<1>2. Pressed(s, c) = p
  <2>2. Pressed(s, c) = [s EXCEPT !.down = c, !.ev[c] = e]
    BY Zenon DEF Pressed
  <2> HIDE DEF e
  <2>3. [s EXCEPT !.down = c, !.ev[c] = e] = p
    BY DEF ResizeState
  <2> QED BY <2>2, <2>3
<1> HIDE DEF o
<1>3. /\ e \in Press /\ e.recent = s.ev[c].recent /\ e.start = s.height[c]
      /\ e.last = s.height[c] /\ e.y = s.y
  BY <1>1, Zenon DEF Press
<1> HIDE DEF e
<1>4. p \in ResizeState
  BY <1>3, Zenon DEF ResizeState
<1> QED BY <1>2, <1>3, <1>4, Zenon

(* The height of a second click shows the whole legend.                    *)
LEMMA SecondPressFits ==
    ASSUME NEW s \in ResizeState, NEW c \in Handles
    PROVE  /\ SecondPress(s, c) \in Nat
           /\ s.height[c] < s.fit[c] => SecondPress(s, c) >= s.fit[c]
<1>1. /\ s.height[c] \in Nat /\ s.fit[c] \in Nat /\ s.page[c] \in Nat /\ s.ev[c] \in Press
      /\ s.ev[c].orig \in Nat
  BY DEF ResizeState, Press
<1> DEFINE h == s.height[c]
           f == s.fit[c]
           o == s.ev[c].orig
           p == s.page[c]
<1>2. SecondPress(s, c) = IF f > h THEN f ELSE IF h # o THEN o ELSE IF h # p THEN p ELSE f
  BY <1>1 DEF SecondPress, Optimal
<1> HIDE DEF h, f, o, p
<1> QED BY <1>1, <1>2 DEF h, f, o, p

(* A press of the handle, the first or the second.                         *)
LEMMA PressHandleGood ==
    ASSUME ResizeGood(resize), NEW c \in Handles, PressHandle(c)
    PROVE  ResizeGood(resize')
<1> DEFINE s == Pressed(resize, c)
           h == SecondPress(s, c)
<1>1. resize \in ResizeState /\ resize.hook = NoHandle /\ c # NoHandle
  BY ResizeAssumption DEF ResizeGood, PressHandle, NoHandle
<1>2. PICK e \in Press : /\ s = [resize EXCEPT !.down = c, !.ev = [resize.ev EXCEPT ![c] = e]]
                         /\ e.recent = resize.ev[c].recent /\ e.start = resize.height[c]
                         /\ e.last = resize.height[c] /\ e.y = resize.y
  BY <1>1, PressedGood, ZenonT(40)
<1>3. s \in ResizeState
  BY <1>1, PressedGood, Zenon
<1>4. resize' = IF resize.ev[c].recent
                THEN [s EXCEPT !.height[c] = h,
                               !.missed[c] = IF h >= s.fit[c] THEN 0 ELSE @ + 1]
                ELSE [s EXCEPT !.hook = c, !.ev[c].recent = TRUE, !.missed[c] = 0]
  BY DEF PressHandle
<1>5. /\ h \in Nat /\ s.fit[c] \in Nat /\ s.missed[c] \in Nat
      /\ s.height[c] < s.fit[c] => h >= s.fit[c]
  BY <1>3, SecondPressFits DEF ResizeState
<1> HIDE DEF s, h
<1>6. /\ s.ev = [resize.ev EXCEPT ![c] = e] /\ s.down = c /\ s.hook = resize.hook
      /\ s.height = resize.height /\ s.fit = resize.fit /\ s.missed = resize.missed
      /\ s.y = resize.y
  BY <1>1, <1>2 DEF ResizeState
<1>7. /\ s.ev[c] = e /\ \A d \in Handles \ {c} : s.ev[d] = resize.ev[d]
  BY <1>1, <1>6 DEF ResizeState
<1>8. CASE resize.ev[c].recent
  <2> DEFINE m == IF h >= s.fit[c] THEN 0 ELSE s.missed[c] + 1
             r == [s EXCEPT !.height = [s.height EXCEPT ![c] = h],
                            !.missed = [s.missed EXCEPT ![c] = m]]
  <2>1. resize' = r
    BY <1>3, <1>4, <1>8 DEF ResizeState
  <2>2. m \in Nat /\ (m = 0 \/ (m = 1 /\ h < s.fit[c]))
    BY <1>1, <1>5, <1>6 DEF ResizeGood, Missed
  <2> HIDE DEF m
  <2>3. /\ r \in ResizeState /\ r.hook = s.hook /\ r.ev = s.ev /\ r.fit = s.fit
        /\ r.height = [s.height EXCEPT ![c] = h] /\ r.missed = [s.missed EXCEPT ![c] = m]
    BY <1>3, <1>5, <2>2, Zenon DEF ResizeState
  <2>4. /\ r.height[c] = h /\ r.missed[c] = m
        /\ \A d \in Handles \ {c} : r.height[d] = s.height[d] /\ r.missed[d] = s.missed[d]
    BY <1>3, <2>3 DEF ResizeState
  <2> HIDE DEF r
  <2>5. ASSUME NEW d \in Handles PROVE r.missed[d] = 0 \/ Missed(r, d)
    <3>1. CASE d = c
      <4>1. r.ev[c].recent
        BY <1>2, <1>7, <1>8, <2>3, Zenon
      <4>2. r.missed[c] = m /\ r.height[c] = h /\ r.fit[c] = s.fit[c] /\ r.hook # c
        BY <1>1, <1>6, <2>3, <2>4
      <4> QED BY <2>2, <3>1, <4>1, <4>2, Zenon DEF Missed
    <3>2. CASE d # c
      <4>1. resize.missed[d] = 0 \/ Missed(resize, d)
        BY DEF ResizeGood
      <4> QED BY <4>1, <1>1, <1>6, <1>7, <2>3, <2>4, <3>2 DEF Missed
    <3> QED BY <3>1, <3>2
  <2> QED BY <1>1, <1>6, <2>1, <2>3, <2>5 DEF ResizeGood
<1>9. CASE ~ resize.ev[c].recent
  <2> DEFINE f == [e EXCEPT !.recent = TRUE]
             r == [s EXCEPT !.hook = c, !.ev = [s.ev EXCEPT ![c] = f],
                            !.missed = [s.missed EXCEPT ![c] = 0]]
  <2>1. resize' = r
    BY <1>3, <1>4, <1>7, <1>9, Zenon DEF ResizeState
  <2>2. f \in Press /\ f.recent /\ f.start = e.start /\ f.last = e.last /\ f.y = e.y
    BY Zenon DEF Press
  <2> HIDE DEF f
  <2>3. /\ r \in ResizeState /\ r.hook = c /\ r.height = s.height /\ r.fit = s.fit
        /\ r.ev = [s.ev EXCEPT ![c] = f] /\ r.missed = [s.missed EXCEPT ![c] = 0]
        /\ r.down = s.down /\ r.y = s.y
    BY <1>3, <2>2, Zenon DEF ResizeState
  <2>4. /\ r.ev[c] = f /\ r.missed[c] = 0
        /\ \A d \in Handles \ {c} : r.ev[d] = s.ev[d] /\ r.missed[d] = s.missed[d]
    BY <1>3, <2>3 DEF ResizeState
  <2> HIDE DEF r
  <2>5. ASSUME NEW d \in Handles PROVE r.missed[d] = 0 \/ Missed(r, d)
    <3>1. CASE d # c
      <4>1. resize.missed[d] = 0 \/ Missed(resize, d)
        BY DEF ResizeGood
      <4> QED BY <4>1, <1>1, <1>6, <1>7, <2>3, <2>4, <3>1 DEF Missed
    <3> QED BY <2>4, <3>1
  <2>6. Dragged(r, c)
    <3>1. resize.height[c] \in Nat /\ resize.y \in Nat
      BY <1>1 DEF ResizeState
    <3> QED BY <1>2, <1>6, <2>2, <2>3, <2>4, <3>1 DEF Dragged
  <2> QED BY <1>1, <1>6, <2>1, <2>3, <2>5, <2>6 DEF ResizeGood
<1> QED BY <1>8, <1>9

(* A move of the mouse gives the dragged chart its height.                 *)
LEMMA MoveMouseGood ==
    ASSUME ResizeGood(resize), MoveMouse
    PROVE  ResizeGood(resize')
<1>1. PICK y \in Heights :
        resize' = LET s == [resize EXCEPT !.y = y]
                  IN  IF s.hook = NoHandle THEN s ELSE MoveTo(s, y)
  BY DEF MoveMouse
<1> DEFINE s == [resize EXCEPT !.y = y]
           c == resize.hook
<1>2. /\ s \in ResizeState /\ s.hook = resize.hook /\ s.down = resize.down /\ s.ev = resize.ev
      /\ s.height = resize.height /\ s.fit = resize.fit /\ s.missed = resize.missed /\ s.y = y
      /\ y \in Nat
  <2>1. y \in Nat
    BY ResizeAssumption DEF Heights
  <2> QED BY <2>1 DEF ResizeGood, ResizeState
<1>3. resize' = IF s.hook = NoHandle THEN s ELSE MoveTo(s, y)
  BY <1>1
<1> HIDE DEF s
<1>4. \A d \in Handles : s.missed[d] = 0 \/ Missed(s, d)
  BY <1>2, Zenon DEF ResizeGood, Missed
<1>5. CASE c = NoHandle
  BY <1>2, <1>3, <1>4, <1>5 DEF ResizeGood
<1>6. CASE c # NoHandle
  <2> DEFINE h == s.ev[c].start + y - s.ev[c].y
             e == [s.ev[c] EXCEPT !.last = h]
             r == [s EXCEPT !.height = [s.height EXCEPT ![c] = h], !.ev = [s.ev EXCEPT ![c] = e]]
  <2>1. /\ c \in Handles /\ s.ev[c] \in Press /\ s.ev[c].start \in Nat /\ s.ev[c].y \in Nat
        /\ s.ev[c].last \in Nat /\ h \in Int
    <3>1. c \in Handles /\ s.ev[c] \in Press
      BY <1>2, <1>6 DEF ResizeState
    <3> QED BY <1>2, <3>1 DEF Press
  <2>2. s.ev[c].last = s.height[c] /\ c = s.down
    BY <1>2, <1>6 DEF ResizeGood, Dragged
  <2>3. MoveTo(s, y) = IF h >= MinDrag /\ h # s.ev[c].last THEN r ELSE s
    BY <1>2, <2>1, Zenon DEF MoveTo, ResizeState
  <2> HIDE DEF h
  <2>4. CASE h >= MinDrag /\ h # s.ev[c].last
    <3>1. h \in Nat /\ resize' = r
      BY ResizeAssumption, <1>2, <1>3, <1>6, <2>1, <2>3, <2>4
    <3>2. e \in Press /\ e.last = h /\ e.start = s.ev[c].start /\ e.y = s.ev[c].y /\ e.recent = s.ev[c].recent
      BY <2>1, <3>1, Zenon DEF Press
    <3> HIDE DEF e
    <3>3. /\ r \in ResizeState /\ r.hook = c /\ r.down = c /\ r.y = y
          /\ r.height = [s.height EXCEPT ![c] = h] /\ r.ev = [s.ev EXCEPT ![c] = e]
          /\ r.missed = s.missed /\ r.fit = s.fit
      BY <1>2, <2>1, <2>2, <3>1, <3>2, Zenon DEF ResizeState
    <3>4. /\ r.height[c] = h /\ r.ev[c] = e
          /\ \A d \in Handles \ {c} : r.height[d] = s.height[d] /\ r.ev[d] = s.ev[d]
      BY <1>2, <2>1, <3>3, Zenon DEF ResizeState
    <3> HIDE DEF r
    <3>5. Dragged(r, c)
      BY <2>1, <3>1, <3>2, <3>3, <3>4 DEF Dragged, h
    <3>6. ASSUME NEW d \in Handles PROVE r.missed[d] = 0 \/ Missed(r, d)
      <4>1. s.missed[d] = 0 \/ Missed(s, d)
        BY <1>4
      <4>2. CASE d = c
        BY <1>2, <3>3, <4>1, <4>2 DEF Missed
      <4>3. CASE d # c
        <5>1. /\ r.missed[d] = s.missed[d] /\ r.height[d] = s.height[d] /\ r.fit[d] = s.fit[d]
              /\ r.ev[d] = s.ev[d] /\ r.hook = s.hook
          BY <1>2, <3>3, <3>4, <4>3
        <5> QED BY <4>1, <5>1, Zenon DEF Missed
      <4> QED BY <4>2, <4>3
    <3> QED BY <3>1, <3>3, <3>5, <3>6 DEF ResizeGood
  <2>5. CASE ~ (h >= MinDrag /\ h # s.ev[c].last)
    <3>1. resize' = s
      BY <1>2, <1>3, <1>6, <2>3, <2>5
    <3>2. Dragged(s, c)
      BY <1>2, <2>1, <2>2, <2>5 DEF Dragged, h
    <3> QED BY <1>2, <1>4, <2>2, <3>1, <3>2 DEF ResizeGood
  <2> QED BY <2>4, <2>5
<1> QED BY <1>5, <1>6

(* Every step of the heights keeps the invariant.                          *)
LEMMA ResizeStepGood ==
    ASSUME ResizeGood(resize), ResizeNext
    PROVE  ResizeGood(resize')
<1> USE DEF ResizeGood
<1>1. ASSUME ReleaseHandle PROVE ResizeGood(resize')
  <2>1. /\ resize' \in ResizeState /\ resize'.hook = NoHandle
        /\ resize'.missed = resize.missed /\ resize'.height = resize.height
        /\ resize'.fit = resize.fit /\ resize'.ev = resize.ev
    BY <1>1, Zenon DEF ReleaseHandle, Released, ResizeState
  <2>2. \A c \in Handles : c # NoHandle
    BY ResizeAssumption DEF NoHandle
  <2> QED BY <2>1, <2>2, Zenon DEF Missed
<1>2. ASSUME PressIsOld PROVE ResizeGood(resize')
  <2>1. PICK c \in Handles : resize' = [resize EXCEPT !.ev[c].recent = FALSE, !.missed[c] = 0]
    BY <1>2, Zenon DEF PressIsOld
  <2> DEFINE e == [resize.ev[c] EXCEPT !.recent = FALSE]
             r == [resize EXCEPT !.ev = [resize.ev EXCEPT ![c] = e],
                                 !.missed = [resize.missed EXCEPT ![c] = 0]]
  <2>2. resize' = r /\ resize.ev[c] \in Press
    BY <2>1 DEF ResizeState
  <2>3. e \in Press /\ e.last = resize.ev[c].last /\ e.start = resize.ev[c].start /\ e.y = resize.ev[c].y
    BY <2>2, Zenon DEF Press
  <2> HIDE DEF e
  <2>4. /\ r \in ResizeState /\ r.hook = resize.hook /\ r.down = resize.down /\ r.y = resize.y
        /\ r.height = resize.height /\ r.fit = resize.fit
        /\ r.ev = [resize.ev EXCEPT ![c] = e] /\ r.missed = [resize.missed EXCEPT ![c] = 0]
    BY <2>3, Zenon DEF ResizeState
  <2>5. /\ r.ev[c] = e /\ r.missed[c] = 0
        /\ \A d \in Handles \ {c} : r.ev[d] = resize.ev[d] /\ r.missed[d] = resize.missed[d]
    BY <2>4 DEF ResizeState
  <2> HIDE DEF r
  <2>6. ASSUME r.hook # NoHandle PROVE r.hook = r.down /\ Dragged(r, r.hook)
    <3>1. Dragged(resize, resize.hook) /\ resize.hook \in Handles /\ resize.hook = resize.down
      BY <2>4, <2>6 DEF ResizeState
    <3>2. /\ r.ev[r.hook].last = resize.ev[r.hook].last
          /\ r.ev[r.hook].start = resize.ev[r.hook].start /\ r.ev[r.hook].y = resize.ev[r.hook].y
      BY <2>3, <2>4, <2>5, <3>1
    <3> QED BY <2>4, <3>1, <3>2 DEF Dragged
  <2>7. ASSUME NEW d \in Handles PROVE r.missed[d] = 0 \/ Missed(r, d)
    <3>1. CASE d # c
      <4>1. /\ r.missed[d] = resize.missed[d] /\ r.height[d] = resize.height[d]
            /\ r.fit[d] = resize.fit[d] /\ r.ev[d] = resize.ev[d] /\ r.hook = resize.hook
        BY <2>4, <2>5, <3>1
      <4> QED BY <4>1, Zenon DEF Missed
    <3> QED BY <2>5, <3>1
  <2> QED BY <2>2, <2>4, <2>6, <2>7
<1>3. ASSUME LegendGrows PROVE ResizeGood(resize')
  <2>1. PICK c \in Handles, fit \in Nat : resize' = [resize EXCEPT !.fit[c] = fit, !.missed[c] = 0]
    <3>1. Heights \subseteq Nat
      BY ResizeAssumption DEF Heights
    <3> QED BY <1>3, <3>1, Zenon DEF LegendGrows
  <2>2. /\ resize' \in ResizeState /\ resize'.hook = resize.hook /\ resize'.down = resize.down
        /\ resize'.y = resize.y /\ resize'.height = resize.height /\ resize'.ev = resize.ev
        /\ resize'.fit = [resize.fit EXCEPT ![c] = fit]
        /\ resize'.missed = [resize.missed EXCEPT ![c] = 0]
    BY <2>1, Zenon DEF ResizeState
  <2>3. /\ resize'.missed[c] = 0
        /\ \A d \in Handles \ {c} : /\ resize'.fit[d] = resize.fit[d]
                                    /\ resize'.missed[d] = resize.missed[d]
    BY <2>2 DEF ResizeState
  <2>4. ASSUME NEW d \in Handles PROVE resize'.missed[d] = 0 \/ Missed(resize', d)
    <3>1. CASE d # c
      <4>1. /\ resize'.missed[d] = resize.missed[d] /\ resize'.height[d] = resize.height[d]
            /\ resize'.fit[d] = resize.fit[d] /\ resize'.ev[d] = resize.ev[d]
            /\ resize'.hook = resize.hook
        BY <2>2, <2>3, <3>1
      <4> QED BY <4>1, Zenon DEF Missed
    <3> QED BY <2>3, <3>1
  <2> QED BY <2>2, <2>4 DEF Dragged
<1> QED BY <1>1, <1>2, <1>3, PressHandleGood, MoveMouseGood DEF ResizeNext

(* The invariant gives the properties of the handles.                      *)
LEMMA ResizeGoodFollows ==
    ASSUME ResizeGood(resize)
    PROVE  HeightFollows /\ HookIsHeld /\ LegendIsShown
BY DEF ResizeGood, Dragged, Missed, HeightFollows, HookIsHeld, LegendIsShown

=============================================================================
