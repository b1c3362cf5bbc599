------------------------- MODULE PortalThreadsProof -------------------------
(***************************************************************************)
(* What the pages of the portal keep while requests, timers and the user   *)
(* take turns, for any number of charts, libraries and faults: the old     *)
(* portal has one thread of refreshes, the dashboard one refresher and no  *)
(* library without what it needs.                                          *)
(*                                                                         *)
(* The two parts share no state.  Each has an invariant of its record      *)
(* (OldGood, LibsGood), a lemma per function of the code that says what it *)
(* keeps, one that the initial states have the invariant, one that every   *)
(* step keeps it, and one that it gives the properties.  PortalProof puts  *)
(* them together.                                                          *)
(***************************************************************************)
EXTENDS OldPortal, ChartLibraries, TLAPS

-----------------------------------------------------------------------------
(* The libraries of the dashboard.                                         *)

LibCall == [op : {"script", "packages", "data"}, lib : Libraries, goal : Libraries,
            who : LibCharts \cup {Refresher}]

Positive == {n \in Nat : n > 0}

CallBags == UNION {[D -> Positive] : D \in SUBSET LibCall}

LibState == [initialized : BOOLEAN, enabled : BOOLEAN, script : BOOLEAN, packages : BOOLEAN]

LibLoops == {"none", "due", "waiting"}

LibsState ==
    [boot : {"started"}, of : [LibCharts -> Libraries], stop : SUBSET Libraries,
     lib : [Libraries -> LibState], loop : LibLoops, enabled : [LibCharts -> BOOLEAN],
     calls : CallBags, faults : Int]

Mine(calls) == {call \in DOMAIN calls : call.who = Refresher}

OneAwaited(calls, loop) ==
    IF loop = "waiting" THEN \E call \in Mine(calls) : Mine(calls) = {call} /\ calls[call] = 1
    ELSE Mine(calls) = {}

(* The one who goes on with a request can: the refresher has no other.     *)
MayGoOn(s, who) ==
    IF who = Refresher THEN Mine(s.calls) = {} /\ s.loop = "waiting"
    ELSE OneAwaited(s.calls, s.loop)

(* Requests are sent for what they can be answered with.                   *)
CallGood(lib, call) ==
    /\ call.who = Refresher => call.op # "data"
    /\ call.op = "script" /\ Base(call.lib) # call.lib => lib[Base(call.lib)].initialized

LibsShape(s) ==
    /\ s \in LibsState /\ s.faults <= LibFaults
    /\ \A call \in DOMAIN s.calls : CallGood(s.lib, call)
    /\ \A l \in Libraries :
          s.lib[l].initialized => s.lib[l].script /\ s.lib[Base(l)].script

LibReason(s, l) == {l, Base(l)} \cap s.stop # {} \/ s.faults < LibFaults

ChartReason(s, c) ==
    ~ ChartLibrary[s.of[c]].draws \/ HasPackages(s.of[c]) \/ LibReason(s, s.of[c])

LibsReasons(s) ==
    /\ \A l \in Libraries : ~ s.lib[l].enabled => LibReason(s, l)
    /\ \A c \in LibCharts : ~ s.enabled[c] => ChartReason(s, c)

LibsStarted(s) == LibsShape(s) /\ LibsReasons(s) /\ OneAwaited(s.calls, s.loop)

(* A library has one base, which is its own.                               *)
LEMMA BaseFacts ==
    ASSUME NEW l \in Libraries
    PROVE  Base(l) \in Libraries /\ Base(Base(l)) = Base(l)
<1>1. l \in DOMAIN ChartLibrary /\ Base(l) \in Libraries
  BY LibsAssumption
<1>2. l \in {"peity", "sparkline", "easypiechart", "gauge", "morris", "raphael", "c3", "d3", "google"}
  BY <1>1 DEF ChartLibrary
<1>3. Base(Base(l)) = Base(l)
  BY <1>2 DEF Base, ChartLibrary, Peity, Sparkline, EasyPieChart, GaugeJs, Morris, Raphael, C3,
              D3, Google
<1> QED BY <1>1, <1>3

(* The requests under way are requests, each a number of times.            *)
LEMMA CallBagFacts ==
    ASSUME NEW b \in CallBags
    PROVE  DOMAIN b \subseteq LibCall /\ b \in [DOMAIN b -> Positive]
BY DEF CallBags

(* Requests are sent.                                                      *)
LEMMA BagAdd ==
    ASSUME NEW b \in CallBags, NEW X \in SUBSET LibCall
    PROVE  LET r == Also(b, X)
           IN  /\ r \in CallBags /\ DOMAIN r = DOMAIN b \cup X
               /\ \A e \in DOMAIN b \ X : r[e] = b[e]
               /\ \A e \in X \ DOMAIN b : r[e] = 1
<1> DEFINE r == Also(b, X)
           D == DOMAIN b \cup X
<1>1. DOMAIN b \subseteq LibCall /\ b \in [DOMAIN b -> Positive]
  BY CallBagFacts
<1>3. r = [e \in D |-> (IF e \in DOMAIN b THEN b[e] ELSE 0) + (IF e \in X THEN 1 ELSE 0)]
  BY DEF Also
<1>4. DOMAIN r = D /\ \A e \in D : r[e] \in Positive
  BY <1>1, <1>3 DEF Positive
<1>5. r \in [D -> Positive] /\ D \in SUBSET LibCall
  BY <1>1, <1>3, <1>4, Zenon
<1>6. \A e \in DOMAIN b \ X : r[e] = b[e]
  BY <1>1, <1>3 DEF Positive
<1>7. \A e \in X \ DOMAIN b : r[e] = 1
  BY <1>3
<1> HIDE DEF r
<1> QED BY <1>4, <1>5, <1>6, <1>7 DEF CallBags, r

(* One copy of a request is answered.                                      *)
LEMMA BagTake ==
    ASSUME NEW b \in CallBags, NEW x \in DOMAIN b
    PROVE  LET r == Less(b, x)
           IN  /\ r \in CallBags /\ DOMAIN r \subseteq DOMAIN b
               /\ \A e \in DOMAIN b \ {x} : e \in DOMAIN r /\ r[e] = b[e]
               /\ b[x] = 1 => x \notin DOMAIN r
<1> DEFINE r == Less(b, x)
           D == {d \in DOMAIN b : d = x => b[d] > 1}
<1>1. DOMAIN b \subseteq LibCall /\ b \in [DOMAIN b -> Positive] /\ x \in DOMAIN b
  BY CallBagFacts
<1>2. r = [e \in D |-> IF e = x THEN b[e] - 1 ELSE b[e]]
  BY DEF Less
<1>3. DOMAIN r = D /\ \A e \in D : r[e] = IF e = x THEN b[e] - 1 ELSE b[e]
  BY <1>2
<1> HIDE DEF r
<1>4. \A e \in D : r[e] \in Positive
  BY <1>1, <1>3 DEF Positive
<1>5. r \in [D -> Positive] /\ D \in SUBSET LibCall
  BY <1>1, <1>2, <1>3, <1>4
<1>6. r \in CallBags
  BY <1>5 DEF CallBags
<1>7. \A e \in DOMAIN b \ {x} : e \in D /\ r[e] = b[e]
  BY <1>3
<1>8. b[x] = 1 => x \notin D
  OBVIOUS
<1> HIDE DEF D
<1>9. DOMAIN r \subseteq DOMAIN b
  BY <1>3 DEF D
<1> QED BY <1>3, <1>6, <1>7, <1>8, <1>9 DEF r

(* What is left of a step, once its request was taken.                     *)
GoesOn(s, r) ==
    /\ LibsShape(r) /\ OneAwaited(r.calls, r.loop) /\ r.faults = s.faults
    /\ LibsReasons(s) => LibsReasons(r)

(* A request for a script, the packages or data; the refresher sends no    *)
(* second one.                                                             *)
LEMMA AskLibGood ==
    ASSUME NEW s, LibsShape(s), NEW op \in {"script", "packages", "data"}, NEW l \in Libraries,
           NEW goal \in Libraries, NEW who \in LibCharts \cup {Refresher}, MayGoOn(s, who),
           who = Refresher => op # "data",
           op = "script" /\ Base(l) # l => s.lib[Base(l)].initialized
    PROVE  GoesOn(s, AskLib(s, op, l, goal, who))
<1> DEFINE call == [op |-> op, lib |-> l, goal |-> goal, who |-> who]
           b == Also(s.calls, {call})
           r == [s EXCEPT !.calls = b]
<1>1. s \in LibsState /\ s.calls \in CallBags
  BY DEF LibsShape, LibsState
<1>2. call \in LibCall /\ call.who = who /\ call.op = op /\ call.lib = l
  BY DEF LibCall
<1>3. AskLib(s, op, l, goal, who) = r
  BY DEF AskLib
<1> HIDE DEF call
<1>4. /\ b \in CallBags /\ DOMAIN b = DOMAIN s.calls \cup {call}
      /\ \A e \in DOMAIN s.calls \ {call} : b[e] = s.calls[e]
      /\ call \notin DOMAIN s.calls => b[call] = 1
  <2> DEFINE q == s.calls
             X == {call}
  <2>1. q \in CallBags /\ X \in SUBSET LibCall
    BY <1>1, <1>2
  <2> HIDE DEF q, X
  <2>2. LET t == Also(q, X)
        IN  /\ t \in CallBags /\ DOMAIN t = DOMAIN q \cup X
            /\ \A e \in DOMAIN q \ X : t[e] = q[e]
            /\ \A e \in X \ DOMAIN q : t[e] = 1
    BY <2>1, BagAdd, Zenon
  <2> QED BY <2>2 DEF q, X
<1> HIDE DEF b
<1>5. /\ r \in LibsState /\ r.calls = b /\ r.lib = s.lib /\ r.loop = s.loop /\ r.of = s.of
      /\ r.stop = s.stop /\ r.enabled = s.enabled /\ r.faults = s.faults
  BY <1>1, <1>4, Zenon DEF LibsState
<1> HIDE DEF r
<1>6. CallGood(s.lib, call)
  BY <1>2 DEF CallGood
<1>7. LibsShape(r)
  BY <1>4, <1>5, <1>6 DEF LibsShape
<1>8. LibsReasons(s) => LibsReasons(r)
  BY <1>5, Zenon DEF LibsReasons, LibReason, ChartReason
<1>9. OneAwaited(r.calls, r.loop)
  <2>1. CASE who = Refresher
    <3>1. Mine(s.calls) = {} /\ s.loop = "waiting"
      BY <2>1 DEF MayGoOn
    <3>2. Mine(b) = {call} /\ call \notin DOMAIN s.calls
      BY <1>2, <1>4, <2>1, <3>1 DEF Mine
    <3> QED BY <1>4, <1>5, <3>1, <3>2 DEF OneAwaited
  <2>2. CASE who # Refresher
    <3>1. OneAwaited(s.calls, s.loop)
      BY <2>2 DEF MayGoOn
    <3>2. Mine(b) = Mine(s.calls) /\ call \notin Mine(b)
      BY <1>2, <1>4, <2>2 DEF Mine
    <3>3. \A e \in Mine(b) : b[e] = s.calls[e]
      BY <1>4, <3>2 DEF Mine
    <3> QED BY <1>5, <3>1, <3>2, <3>3 DEF OneAwaited
  <2> QED BY <2>1, <2>2
<1> QED BY <1>3, <1>5, <1>7, <1>8, <1>9 DEF GoesOn

(* A chart is given up, for a reason there is.                             *)
LEMMA ChartErrorGood ==
    ASSUME NEW s, LibsShape(s), NEW c \in LibCharts, OneAwaited(s.calls, s.loop),
           LibsReasons(s) => ChartReason(s, c)
    PROVE  GoesOn(s, ChartError(s, c))
<1> DEFINE en == [s.enabled EXCEPT ![c] = FALSE]
           r == [s EXCEPT !.enabled = en]
<1>1. s \in LibsState
  BY DEF LibsShape
<1>2. en \in [LibCharts -> BOOLEAN] /\ \A d \in LibCharts : ~ en[d] => d = c \/ ~ s.enabled[d]
  BY <1>1 DEF LibsState
<1>3. ChartError(s, c) = r
  BY <1>1 DEF ChartError, LibsState
<1> HIDE DEF en
<1>4. /\ r \in LibsState /\ r.calls = s.calls /\ r.lib = s.lib /\ r.loop = s.loop /\ r.of = s.of
      /\ r.stop = s.stop /\ r.enabled = en /\ r.faults = s.faults
  BY <1>1, <1>2, Zenon DEF LibsState
<1> HIDE DEF r
<1>5. LibsShape(r)
  BY <1>4 DEF LibsShape
<1>6. LibsReasons(s) => LibsReasons(r)
  BY <1>2, <1>4 DEF LibsReasons, LibReason, ChartReason
<1> QED BY <1>3, <1>4, <1>5, <1>6 DEF GoesOn

(* initialize() of a library that is not used, or has its scripts, ends at *)
(* once.                                                                   *)
LEMMA DisabledGood ==
    ASSUME NEW s, LibsShape(s), NEW goal \in Libraries, EndsAtOnce(s, goal)
    PROVE  LET r == Disabled(s, goal)
           IN  /\ LibsShape(r) /\ r.faults = s.faults /\ (LibsReasons(s) => LibsReasons(r))
               /\ r.calls = s.calls /\ r.loop = s.loop /\ r.of = s.of /\ r.stop = s.stop
               /\ LibsReasons(s) => LibReason(s, goal)
<1> DEFINE base == Base(goal)
           off == {goal} \cup ({base} \cap s.stop)
           L2 == [l \in Libraries |->
                    IF l \in off THEN [s.lib[l] EXCEPT !.enabled = FALSE] ELSE s.lib[l]]
           r == [s EXCEPT !.lib = L2]
<1>1. s \in LibsState /\ base \in Libraries /\ Base(base) = base
  BY BaseFacts DEF LibsShape
<1>2. s.lib \in [Libraries -> LibState] /\ s.stop \in SUBSET Libraries
  BY <1>1 DEF LibsState
<1>3. Disabled(s, goal) = r
  BY DEF Disabled
<1>4. \A l \in Libraries : l \in off => l = goal \/ (l = base /\ base \in s.stop)
  OBVIOUS
<1> HIDE DEF off
<1>5. \A l \in Libraries : s.lib[l] \in LibState
  BY <1>2
<1>6. /\ L2 \in [Libraries -> LibState]
      /\ \A l \in Libraries : /\ L2[l].initialized = s.lib[l].initialized
                              /\ L2[l].script = s.lib[l].script
                              /\ ~ L2[l].enabled => l \in off \/ ~ s.lib[l].enabled
  BY <1>5, Zenon DEF LibState
<1> HIDE DEF L2
<1>8. /\ r \in LibsState /\ r.calls = s.calls /\ r.lib = L2 /\ r.loop = s.loop /\ r.of = s.of
      /\ r.stop = s.stop /\ r.enabled = s.enabled /\ r.faults = s.faults
  BY <1>1, <1>6, Zenon DEF LibsState
<1> HIDE DEF r
<1>9. \A l \in Libraries : L2[l].initialized = s.lib[l].initialized /\ L2[l].script = s.lib[l].script
  BY <1>6
<1>10. \A call \in DOMAIN s.calls : CallGood(L2, call)
  <2> SUFFICES ASSUME NEW call \in DOMAIN s.calls PROVE CallGood(L2, call)
    OBVIOUS
  <2>1. call \in LibCall
    BY <1>1, CallBagFacts DEF LibsState
  <2>2. Base(call.lib) \in Libraries
    BY <2>1, BaseFacts DEF LibCall
  <2>3. CallGood(s.lib, call)
    BY DEF LibsShape
  <2> QED BY <1>9, <2>2, <2>3 DEF CallGood
<1>11. LibsShape(r)
  <2>1. \A l \in Libraries : L2[l].initialized => L2[l].script /\ L2[Base(l)].script
    BY <1>9, BaseFacts DEF LibsShape
  <2>2. s.faults <= LibFaults
    BY DEF LibsShape
  <2> QED BY <1>8, <1>10, <2>1, <2>2 DEF LibsShape
<1>12. LibsReasons(s) => LibReason(s, goal)
  BY <1>1 DEF LibsReasons, LibReason, EndsAtOnce
<1>13. LibsReasons(s) => LibsReasons(r)
  <2> SUFFICES ASSUME LibsReasons(s) PROVE LibsReasons(r)
    OBVIOUS
  <2>1. \A l \in Libraries : LibReason(r, l) = LibReason(s, l)
    BY <1>8 DEF LibReason
  <2>2. \A c \in LibCharts : ChartReason(r, c) = ChartReason(s, c)
    BY <1>8 DEF LibReason, ChartReason
  <2>3. ASSUME NEW l \in Libraries, ~ L2[l].enabled PROVE LibReason(s, l)
    <3>1. CASE l = goal
      BY <1>12, <3>1
    <3>2. CASE ~ s.lib[l].enabled
      BY <3>2 DEF LibsReasons
    <3>3. CASE l = base /\ base \in s.stop
      BY <3>3 DEF LibReason
    <3> QED BY <1>4, <1>6, <2>3, <3>1, <3>2, <3>3
  <2> QED BY <1>8, <2>1, <2>2, <2>3 DEF LibsReasons
<1> QED BY <1>3, <1>8, <1>11, <1>12, <1>13

(* initialize() of a library: the base first, then the library itself.     *)
LEMMA InitializeGood ==
    ASSUME NEW s, LibsShape(s), NEW goal \in Libraries, NEW who \in LibCharts \cup {Refresher},
           MayGoOn(s, who)
    PROVE  GoesOn(s, Initialize(s, goal, who))
<1> DEFINE l == IF s.lib[Base(goal)].initialized THEN goal ELSE Base(goal)
<1>1. l \in Libraries /\ (Base(l) # l => s.lib[Base(l)].initialized)
  BY BaseFacts
<1>2. Initialize(s, goal, who) = AskLib(s, "script", l, goal, who)
  BY DEF Initialize
<1> HIDE DEF l
<1> QED BY <1>1, <1>2, AskLibGood

(* updateChart() of a chart: its library is loaded, or its data are asked  *)
(* for.                                                                    *)
LEMMA UpdateLibChartGood ==
    ASSUME NEW s, LibsShape(s), NEW c \in LibCharts, OneAwaited(s.calls, s.loop)
    PROVE  GoesOn(s, UpdateLibChart(s, c))
<1> DEFINE l == s.of[c]
<1>1. l \in Libraries
  BY DEF LibsShape, LibsState
<1>2. c # Refresher /\ MayGoOn(s, c)
  BY LibsAssumption DEF Refresher, MayGoOn
<1>3. CASE ~ s.enabled[c]
  <2>1. UpdateLibChart(s, c) = s
    BY <1>3 DEF UpdateLibChart
  <2> QED BY <2>1 DEF GoesOn
<1>4. CASE s.enabled[c] /\ s.lib[l].initialized
  <2>1. UpdateLibChart(s, c) = AskLib(s, "data", l, l, c)
    BY <1>4 DEF UpdateLibChart
  <2> QED BY <1>1, <1>2, <2>1, AskLibGood
<1>5. CASE s.enabled[c] /\ ~ s.lib[l].initialized /\ ~ s.lib[l].enabled
  <2>1. UpdateLibChart(s, c) = ChartError(s, c)
    BY <1>5 DEF UpdateLibChart
  <2>2. LibsReasons(s) => ChartReason(s, c)
    BY <1>1, <1>5 DEF LibsReasons, ChartReason
  <2> QED BY <2>1, <2>2, ChartErrorGood
<1>6. CASE s.enabled[c] /\ ~ s.lib[l].initialized /\ s.lib[l].enabled /\ EndsAtOnce(s, l)
  <2> DEFINE d == Disabled(s, l)
  <2>1. UpdateLibChart(s, c) = ChartError(d, c)
    BY <1>6 DEF UpdateLibChart
  <2>2. /\ LibsShape(d) /\ d.faults = s.faults /\ (LibsReasons(s) => LibsReasons(d))
        /\ d.calls = s.calls /\ d.loop = s.loop /\ d.of = s.of /\ d.stop = s.stop
        /\ LibsReasons(s) => LibReason(s, l)
    BY <1>1, <1>6, DisabledGood
  <2> HIDE DEF d
  <2>3. LibsReasons(s) => ChartReason(d, c)
    BY <2>2 DEF ChartReason, LibReason
  <2>4. CASE LibsReasons(s)
    <3>1. GoesOn(d, ChartError(d, c))
      BY <2>2, <2>3, <2>4, ChartErrorGood
    <3> QED BY <2>1, <2>2, <2>4, <3>1 DEF GoesOn
  <2>5. CASE ~ LibsReasons(s)
    <3> DEFINE en == [d.enabled EXCEPT ![c] = FALSE]
               r == [d EXCEPT !.enabled = en]
    <3>1. d \in LibsState /\ ChartError(d, c) = r /\ en \in [LibCharts -> BOOLEAN]
      BY <2>2 DEF ChartError, LibsState, LibsShape
    <3> HIDE DEF en
    <3>2. /\ r \in LibsState /\ r.calls = d.calls /\ r.lib = d.lib /\ r.loop = d.loop
          /\ r.faults = d.faults
      BY <3>1, Zenon DEF LibsState
    <3> HIDE DEF r
    <3>3. LibsShape(r)
      BY <2>2, <3>2 DEF LibsShape
    <3> QED BY <2>1, <2>2, <2>5, <3>1, <3>2, <3>3 DEF GoesOn
  <2> QED BY <2>4, <2>5
<1>7. CASE s.enabled[c] /\ ~ s.lib[l].initialized /\ s.lib[l].enabled /\ ~ EndsAtOnce(s, l)
  <2>1. UpdateLibChart(s, c) = Initialize(s, l, c)
    BY <1>7 DEF UpdateLibChart
  <2> QED BY <1>1, <1>2, <2>1, InitializeGood
<1> QED BY <1>3, <1>4, <1>5, <1>6, <1>7

(* The callback of initialize(): the chart, or the refresher, goes on.     *)
LEMMA CallBackGood ==
    ASSUME NEW s, LibsShape(s), NEW who \in LibCharts \cup {Refresher}, MayGoOn(s, who)
    PROVE  GoesOn(s, CallBack(s, who))
<1>1. CASE who = Refresher
  <2> DEFINE r == [s EXCEPT !.loop = "due"]
  <2>1. CallBack(s, who) = r /\ s \in LibsState /\ Mine(s.calls) = {}
    BY <1>1 DEF CallBack, LibsShape, MayGoOn
  <2>2. /\ r \in LibsState /\ r.calls = s.calls /\ r.lib = s.lib /\ r.loop = "due" /\ r.of = s.of
        /\ r.stop = s.stop /\ r.enabled = s.enabled /\ r.faults = s.faults
    <3>1. "due" \in LibLoops
      BY DEF LibLoops
    <3> QED BY <2>1, <3>1, Zenon DEF LibsState
  <2> HIDE DEF r
  <2>3. LibsShape(r)
    BY <2>2 DEF LibsShape
  <2>4. LibsReasons(s) => LibsReasons(r)
    BY <2>2, Zenon DEF LibsReasons, LibReason, ChartReason
  <2>5. OneAwaited(r.calls, r.loop)
    BY <2>1, <2>2 DEF OneAwaited
  <2> QED BY <2>1, <2>2, <2>3, <2>4, <2>5 DEF GoesOn
<1>2. CASE who # Refresher
  <2>1. CallBack(s, who) = UpdateLibChart(s, who) /\ who \in LibCharts
        /\ OneAwaited(s.calls, s.loop)
    BY <1>2 DEF CallBack, MayGoOn
  <2> QED BY <2>1, UpdateLibChartGood
<1> QED BY <1>1, <1>2

(* A library that was asked for is loaded, or its callback is called.      *)
LEMMA InitializeOrCallBackGood ==
    ASSUME NEW s, LibsShape(s), NEW goal \in Libraries, NEW who \in LibCharts \cup {Refresher},
           MayGoOn(s, who)
    PROVE  GoesOn(s, InitializeOrCallBack(s, goal, who))
<1>1. CASE EndsAtOnce(s, goal)
  <2> DEFINE d == Disabled(s, goal)
  <2>1. InitializeOrCallBack(s, goal, who) = CallBack(d, who)
    BY <1>1 DEF InitializeOrCallBack
  <2>2. /\ LibsShape(d) /\ d.faults = s.faults /\ (LibsReasons(s) => LibsReasons(d))
        /\ d.calls = s.calls /\ d.loop = s.loop
    BY <1>1, DisabledGood
  <2> HIDE DEF d
  <2>3. MayGoOn(d, who)
    BY <2>2 DEF MayGoOn
  <2>4. GoesOn(d, CallBack(d, who))
    BY <2>2, <2>3, CallBackGood
  <2> QED BY <2>1, <2>2, <2>4 DEF GoesOn
<1>2. CASE ~ EndsAtOnce(s, goal)
  <2>1. InitializeOrCallBack(s, goal, who) = Initialize(s, goal, who)
    BY <1>2 DEF InitializeOrCallBack
  <2> QED BY <2>1, InitializeGood
<1> QED BY <1>1, <1>2

(* An answered request is no longer under way; who asked may go on.        *)
LEMMA TakenGood ==
    ASSUME NEW s, LibsShape(s), OneAwaited(s.calls, s.loop), NEW call \in DOMAIN s.calls
    PROVE  LET r == Taken(s, call)
           IN  /\ LibsShape(r) /\ MayGoOn(r, call.who) /\ r.faults = s.faults
               /\ r.lib = s.lib /\ r.of = s.of /\ (LibsReasons(s) => LibsReasons(r))
               /\ call \in LibCall /\ CallGood(r.lib, call)
<1> DEFINE b == Less(s.calls, call)
           r == [s EXCEPT !.calls = b]
<1>1. s \in LibsState /\ s.calls \in CallBags
  BY DEF LibsShape, LibsState
<1>2. Taken(s, call) = r
  BY DEF Taken
<1>3. /\ b \in CallBags /\ DOMAIN b \subseteq DOMAIN s.calls
      /\ \A e \in DOMAIN s.calls \ {call} : e \in DOMAIN b /\ b[e] = s.calls[e]
      /\ s.calls[call] = 1 => call \notin DOMAIN b
  BY <1>1, BagTake, Zenon
<1> HIDE DEF b
<1>4. /\ r \in LibsState /\ r.calls = b /\ r.lib = s.lib /\ r.loop = s.loop /\ r.of = s.of
      /\ r.stop = s.stop /\ r.enabled = s.enabled /\ r.faults = s.faults
  BY <1>1, <1>3, Zenon DEF LibsState
<1> HIDE DEF r
<1>5. LibsShape(r)
  BY <1>3, <1>4 DEF LibsShape
<1>6. LibsReasons(s) => LibsReasons(r)
  BY <1>4, Zenon DEF LibsReasons, LibReason, ChartReason
<1>7. MayGoOn(r, call.who)
  <2>1. CASE call.who = Refresher
    <3>1. call \in Mine(s.calls)
      BY <2>1 DEF Mine
    <3>2. s.loop = "waiting" /\ Mine(s.calls) = {call} /\ s.calls[call] = 1
      BY <3>1 DEF OneAwaited
    <3>3. Mine(b) = {}
      BY <1>3, <3>2 DEF Mine
    <3> QED BY <1>4, <2>1, <3>2, <3>3 DEF MayGoOn
  <2>2. CASE call.who # Refresher
    <3>1. Mine(b) = Mine(s.calls) /\ \A e \in Mine(b) : b[e] = s.calls[e]
      BY <1>3, <2>2 DEF Mine
    <3>2. OneAwaited(b, s.loop)
      BY <3>1 DEF OneAwaited
    <3> QED BY <1>4, <2>2, <3>2 DEF MayGoOn
  <2> QED BY <2>1, <2>2
<1>8. call \in LibCall /\ CallGood(s.lib, call)
  BY <1>1, CallBagFacts DEF LibsShape
<1> QED BY <1>2, <1>4, <1>5, <1>6, <1>7, <1>8

(* A library changes; none stops being there.                              *)
LEMMA LibChanged ==
    ASSUME NEW s, LibsShape(s), NEW l \in Libraries, NEW x \in LibState,
           s.lib[l].initialized => x.initialized, s.lib[l].script => x.script,
           x.initialized => x.script /\ (Base(l) = l \/ s.lib[Base(l)].script)
    PROVE  LET r == [s EXCEPT !.lib[l] = x]
           IN  /\ LibsShape(r) /\ r.calls = s.calls /\ r.loop = s.loop /\ r.faults = s.faults
               /\ (x.enabled \/ ~ s.lib[l].enabled) /\ LibsReasons(s) => LibsReasons(r)
<1> DEFINE L == [s.lib EXCEPT ![l] = x]
           r == [s EXCEPT !.lib = L]
<1>1. s \in LibsState /\ s.lib \in [Libraries -> LibState]
  BY DEF LibsShape, LibsState
<1>2. [s EXCEPT !.lib[l] = x] = r
  BY <1>1 DEF LibsState
<1>3. L \in [Libraries -> LibState] /\ L[l] = x /\ \A m \in Libraries \ {l} : L[m] = s.lib[m]
  BY <1>1
<1> HIDE DEF L
<1>4. /\ r \in LibsState /\ r.calls = s.calls /\ r.lib = L /\ r.loop = s.loop /\ r.of = s.of
      /\ r.stop = s.stop /\ r.enabled = s.enabled /\ r.faults = s.faults
  BY <1>1, <1>3, Zenon DEF LibsState
<1> HIDE DEF r
<1>5. \A m \in Libraries : /\ s.lib[m].initialized => L[m].initialized
                           /\ s.lib[m].script => L[m].script
  BY <1>3
<1>6. \A call \in DOMAIN s.calls : CallGood(L, call)
  <2> SUFFICES ASSUME NEW call \in DOMAIN s.calls PROVE CallGood(L, call)
    OBVIOUS
  <2>1. call \in LibCall
    BY <1>1, CallBagFacts DEF LibsState
  <2>2. Base(call.lib) \in Libraries
    BY <2>1, BaseFacts DEF LibCall
  <2>3. CallGood(s.lib, call)
    BY DEF LibsShape
  <2> QED BY <1>5, <2>2, <2>3 DEF CallGood
<1>7. ASSUME NEW m \in Libraries, L[m].initialized PROVE L[m].script /\ L[Base(m)].script
  <2>1. Base(m) \in Libraries /\ Base(l) \in Libraries
    BY BaseFacts
  <2>2. CASE m = l
    BY <1>3, <1>5, <1>7, <2>1, <2>2
  <2>3. CASE m # l
    <3>1. s.lib[m].script /\ s.lib[Base(m)].script
      BY <1>3, <1>7, <2>3 DEF LibsShape
    <3> QED BY <1>5, <2>1, <3>1
  <2> QED BY <2>2, <2>3
<1>8. LibsShape(r)
  <2>1. s.faults <= LibFaults
    BY DEF LibsShape
  <2> QED BY <1>4, <1>6, <1>7, <2>1 DEF LibsShape
<1>9. (x.enabled \/ ~ s.lib[l].enabled) /\ LibsReasons(s) => LibsReasons(r)
  <2> SUFFICES ASSUME x.enabled \/ ~ s.lib[l].enabled, LibsReasons(s) PROVE LibsReasons(r)
    OBVIOUS
  <2>1. \A m \in Libraries : ~ L[m].enabled => ~ s.lib[m].enabled
    BY <1>3
  <2>2. \A m \in Libraries : LibReason(s, m) => LibReason(r, m)
    BY <1>4 DEF LibReason
  <2>3. \A c \in LibCharts : ChartReason(s, c) => ChartReason(r, c)
    BY <1>4 DEF LibReason, ChartReason
  <2> QED BY <1>4, <2>1, <2>2, <2>3 DEF LibsReasons
<1> QED BY <1>2, <1>4, <1>8, <1>9

(* registerChartLibrary(), when the script arrived, or did not.            *)
LEMMA RegisterGood ==
    ASSUME NEW s, LibsShape(s), NEW l \in Libraries, NEW loaded \in BOOLEAN,
           Base(l) # l => s.lib[Base(l)].initialized
    PROVE  LET r == RegisterChartLibrary(s, l, loaded)
           IN  /\ LibsShape(r) /\ r.calls = s.calls /\ r.loop = s.loop /\ r.faults = s.faults
               /\ loaded /\ LibsReasons(s) => LibsReasons(r)
<1>1. s.lib[l] \in LibState
  BY DEF LibsShape, LibsState
<1>2. Base(l) # l => s.lib[Base(l)].script
  BY BaseFacts DEF LibsShape
<1>3. CASE loaded
  <2> DEFINE x == [s.lib[l] EXCEPT !.initialized = TRUE, !.enabled = TRUE, !.script = TRUE]
  <2>1. x \in LibState /\ x.initialized /\ x.enabled /\ x.script
    BY <1>1, Zenon DEF LibState
  <2>2. RegisterChartLibrary(s, l, loaded) = [s EXCEPT !.lib[l] = x]
    BY <1>3 DEF RegisterChartLibrary
  <2> HIDE DEF x
  <2> QED BY <1>2, <2>1, <2>2, LibChanged
<1>4. CASE ~ loaded
  <2> DEFINE x == [s.lib[l] EXCEPT !.enabled = FALSE]
  <2>1. x \in LibState /\ x.initialized = s.lib[l].initialized /\ x.script = s.lib[l].script
    BY <1>1, Zenon DEF LibState
  <2>2. RegisterChartLibrary(s, l, loaded) = [s EXCEPT !.lib[l] = x]
    BY <1>4 DEF RegisterChartLibrary
  <2>3. x.initialized => x.script /\ (Base(l) = l \/ s.lib[Base(l)].script)
    BY <1>2, <2>1 DEF LibsShape
  <2> HIDE DEF x
  <2> QED BY <1>4, <2>1, <2>2, <2>3, LibChanged
<1> QED BY <1>3, <1>4

(* The answer of a script, to the end of its handler.                      *)
LEMMA AfterScriptGood ==
    ASSUME NEW s, LibsShape(s), NEW call \in LibCall, NEW loaded \in BOOLEAN,
           MayGoOn(s, call.who)
    PROVE  GoesOn(s, AfterScript(s, call, loaded))
<1>1. call.lib \in Libraries /\ call.goal \in Libraries /\ call.who \in LibCharts \cup {Refresher}
  BY DEF LibCall
<1>2. GoesOn(s, AskLib(s, "packages", call.lib, call.goal, call.who))
  BY <1>1, AskLibGood
<1>3. GoesOn(s, InitializeOrCallBack(s, call.goal, call.who))
  BY <1>1, InitializeOrCallBackGood
<1>4. GoesOn(s, CallBack(s, call.who))
  BY <1>1, CallBackGood
<1> QED BY <1>2, <1>3, <1>4 DEF AfterScript

(* A page whose scripts are on their way: nothing is under way but them.   *)
FreshPage(b, of, stop, loop, f) ==
    [boot |-> b, of |-> of, stop |-> stop, lib |-> [l \in Libraries |-> NewLibrary],
     loop |-> loop, enabled |-> [c \in LibCharts |-> TRUE], calls |-> Once({}), faults |-> f]

LibsFresh(s) ==
    \E b \in {"jquery", "bootstrap", "dead"}, of \in [LibCharts -> Libraries],
       stop \in SUBSET Libraries, f \in Int :
        f <= LibFaults /\ s = FreshPage(b, of, stop, "none", f)

LibsGood(s) == LibsStarted(s) \/ LibsFresh(s)

(* The page starts with every library to be loaded.                        *)
LEMMA FreshStarts ==
    ASSUME NEW of \in [LibCharts -> Libraries], NEW stop \in SUBSET Libraries,
           NEW f \in Int, f <= LibFaults
    PROVE  LibsStarted(FreshPage("started", of, stop, "due", f))
<1> DEFINE s == FreshPage("started", of, stop, "due", f)
<1>1. Once({}) = [e \in {} |-> 1]
  BY DEF Once
<1>2. Once({}) \in [{} -> Positive] /\ DOMAIN Once({}) = {}
  BY <1>1, Zenon
<1>3. {} \in SUBSET LibCall
  OBVIOUS
<1>4. Once({}) \in CallBags /\ DOMAIN Once({}) = {}
  BY <1>2, <1>3, Zenon DEF CallBags
<1>5. NewLibrary \in LibState /\ ~ NewLibrary.initialized /\ NewLibrary.enabled
  BY DEF NewLibrary, LibState
<1>6. "started" \in {"started"} /\ "due" \in LibLoops
  BY DEF LibLoops
<1>7. s \in LibsState
  BY <1>4, <1>5, <1>6 DEF LibsState, FreshPage
<1>8. LibsShape(s)
  BY <1>4, <1>5, <1>7 DEF LibsShape, FreshPage
<1>9. LibsReasons(s)
  BY <1>5 DEF LibsReasons, FreshPage
<1>10. OneAwaited(s.calls, s.loop)
  BY <1>4 DEF OneAwaited, Mine, FreshPage
<1> QED BY <1>8, <1>9, <1>10 DEF LibsStarted

(* The page begins before its own scripts.                                 *)
LEMMA LibsInitGood ==
    ASSUME LibsInit PROVE LibsGood(libs)
<1>1. PICK of \in [LibCharts -> Libraries], stop \in {{}} \cup {{l} : l \in Libraries} :
        libs = FreshPage("jquery", of, stop, "none", LibFaults)
  BY Zenon DEF LibsInit, FreshPage
<1>2. stop \in SUBSET Libraries /\ LibFaults \in Int /\ LibFaults <= LibFaults
  BY LibsAssumption
<1>3. LibsFresh(libs)
  BY <1>1, <1>2 DEF LibsFresh
<1> QED BY <1>3 DEF LibsGood

(* The page's own scripts are loaded, or it is dead.                       *)
LEMMA FreshStep ==
    ASSUME LibsFresh(libs), LibsNext
    PROVE  LibsGood(libs')
<1>1. PICK b \in {"jquery", "bootstrap", "dead"}, of \in [LibCharts -> Libraries],
           stop \in SUBSET Libraries, f \in Int :
        f <= LibFaults /\ libs = FreshPage(b, of, stop, "none", f)
  BY DEF LibsFresh
<1>2. libs.boot # "started" /\ libs.loop # "due" /\ libs.faults = f
  BY <1>1 DEF FreshPage
<1>3. DOMAIN libs.calls = {}
  BY <1>1 DEF FreshPage, Once
<1>4. Boot
  BY <1>2, <1>3, Zenon DEF LibsNext, LibPass, LibAnswers, LibChartUpdate
<1>5. CASE JQueryLoaded
  <2>1. libs' = FreshPage("bootstrap", of, stop, "none", f)
    BY <1>1, <1>5, Zenon DEF JQueryLoaded, FreshPage
  <2> QED BY <1>1, <2>1 DEF LibsGood, LibsFresh
<1>6. CASE JQueryFails
  <2>1. libs' = FreshPage("dead", of, stop, "none", f - 1)
    BY <1>1, <1>6, Zenon DEF JQueryFails, FreshPage
  <2>2. f - 1 \in Int /\ f - 1 <= LibFaults
    BY <1>1, LibsAssumption
  <2> QED BY <2>1, <2>2 DEF LibsGood, LibsFresh
<1>7. CASE BootstrapAnswer
  <2>1. PICK fails \in {0, 1} : libs' = FreshPage("started", of, stop, "due", f - fails)
    BY <1>1, <1>7, Zenon DEF BootstrapAnswer, FreshPage
  <2>2. f - fails \in Int /\ f - fails <= LibFaults
    BY <1>1, LibsAssumption
  <2> QED BY <2>1, <2>2, FreshStarts DEF LibsGood
<1> QED BY <1>4, <1>5, <1>6, <1>7 DEF Boot

(* A script arrives, or fails.                                             *)
LEMMA ScriptAnswerGood ==
    ASSUME LibsStarted(libs), NEW call \in DOMAIN libs.calls, ScriptAnswer(call)
    PROVE  LibsStarted(libs')
<1> DEFINE s0 == Taken(libs, call)
<1>1. /\ LibsShape(s0) /\ MayGoOn(s0, call.who) /\ s0.faults = libs.faults /\ LibsReasons(s0)
      /\ call \in LibCall /\ CallGood(s0.lib, call)
  BY TakenGood DEF LibsStarted
<1>2. PICK loaded \in BOOLEAN :
        /\ loaded \/ libs.faults > 0
        /\ libs' = [AfterScript(RegisterChartLibrary(s0, call.lib, loaded), call, loaded)
                       EXCEPT !.faults = IF loaded THEN @ ELSE @ - 1]
  BY DEF ScriptAnswer
<1> DEFINE s1 == RegisterChartLibrary(s0, call.lib, loaded)
           t == AfterScript(s1, call, loaded)
<1>3. call.lib \in Libraries /\ (Base(call.lib) # call.lib => s0.lib[Base(call.lib)].initialized)
  BY <1>1 DEF LibCall, CallGood, ScriptAnswer
<1> HIDE DEF s0
<1>4. /\ LibsShape(s1) /\ s1.calls = s0.calls /\ s1.loop = s0.loop /\ s1.faults = s0.faults
      /\ loaded /\ LibsReasons(s0) => LibsReasons(s1)
  BY <1>1, <1>3, RegisterGood
<1> HIDE DEF s1
<1>5. MayGoOn(s1, call.who)
  BY <1>1, <1>4 DEF MayGoOn
<1>6. GoesOn(s1, t)
  BY <1>1, <1>4, <1>5, AfterScriptGood
<1>7. libs' = [t EXCEPT !.faults = IF loaded THEN t.faults ELSE t.faults - 1]
  BY <1>2 DEF s1
<1> HIDE DEF t
<1> DEFINE f == IF loaded THEN t.faults ELSE t.faults - 1
<1>8. t \in LibsState /\ t.faults \in Int /\ t.faults <= LibFaults
  BY <1>6 DEF GoesOn, LibsShape, LibsState
<1>9. f \in Int /\ f <= LibFaults /\ (~ loaded => f < LibFaults) /\ f <= t.faults
  BY <1>8, LibsAssumption
<1> HIDE DEF f
<1>10. libs' = [t EXCEPT !.faults = f]
  BY <1>7 DEF f
<1>11. /\ libs' \in LibsState /\ libs'.calls = t.calls /\ libs'.lib = t.lib
       /\ libs'.loop = t.loop /\ libs'.of = t.of /\ libs'.stop = t.stop
       /\ libs'.enabled = t.enabled /\ libs'.faults = f
  BY <1>8, <1>9, <1>10, Zenon DEF LibsState
<1>12. LibsShape(libs') /\ OneAwaited(libs'.calls, libs'.loop)
  BY <1>6, <1>9, <1>11 DEF GoesOn, LibsShape
<1>13. LibsReasons(libs')
  <2>1. CASE loaded
    <3>1. LibsReasons(t)
      BY <1>1, <1>4, <1>6, <2>1 DEF GoesOn
    <3>2. t.faults < LibFaults => f < LibFaults
      BY <1>8, <1>9, LibsAssumption
    <3>3. \A l \in Libraries : LibReason(t, l) => LibReason(libs', l)
      BY <1>11, <3>2 DEF LibReason
    <3>4. \A c \in LibCharts : ChartReason(t, c) => ChartReason(libs', c)
      BY <1>11, <3>2 DEF LibReason, ChartReason
    <3> QED BY <1>11, <3>1, <3>3, <3>4 DEF LibsReasons
  <2>2. CASE ~ loaded
    BY <1>9, <1>11, <2>2 DEF LibsReasons, LibReason, ChartReason
  <2> QED BY <2>1, <2>2
<1> QED BY <1>12, <1>13 DEF LibsStarted

(* The packages of the Google charts arrive.                               *)
LEMMA PackagesAnswerGood ==
    ASSUME LibsStarted(libs), NEW call \in DOMAIN libs.calls, PackagesAnswer(call)
    PROVE  LibsStarted(libs')
<1> DEFINE s0 == Taken(libs, call)
           l == call.lib
           s1 == [s0 EXCEPT !.lib[l].packages = TRUE]
           x == [s0.lib[l] EXCEPT !.packages = TRUE]
<1>1. /\ LibsShape(s0) /\ MayGoOn(s0, call.who) /\ LibsReasons(s0) /\ call \in LibCall
  BY TakenGood DEF LibsStarted
<1>2. libs' = CallBack(s1, call.who)
  BY DEF PackagesAnswer
<1> HIDE DEF s0
<1>3. l \in Libraries /\ call.who \in LibCharts \cup {Refresher}
  BY <1>1 DEF LibCall
<1>4. s0.lib[l] \in LibState /\ s0 \in LibsState
  BY <1>1, <1>3 DEF LibsShape, LibsState
<1>5. /\ x \in LibState /\ x.initialized = s0.lib[l].initialized
      /\ x.script = s0.lib[l].script /\ x.enabled = s0.lib[l].enabled
  BY <1>4, Zenon DEF LibState
<1>6. s1 = [s0 EXCEPT !.lib[l] = x]
  BY <1>4 DEF LibsState
<1> HIDE DEF x, s1
<1>7. x.initialized => x.script /\ (Base(l) = l \/ s0.lib[Base(l)].script)
  BY <1>1, <1>3, <1>5, Zenon DEF LibsShape
<1>8. LibsShape(s1) /\ s1.calls = s0.calls /\ s1.loop = s0.loop /\ LibsReasons(s1)
  <2>1. x.enabled \/ ~ s0.lib[l].enabled
    BY <1>5
  <2> QED BY <1>1, <1>3, <1>5, <1>6, <1>7, <2>1, LibChanged
<1>9. MayGoOn(s1, call.who)
  BY <1>1, <1>8 DEF MayGoOn
<1>10. GoesOn(s1, CallBack(s1, call.who))
  BY <1>3, <1>8, <1>9, CallBackGood
<1> QED BY <1>2, <1>8, <1>10 DEF GoesOn, LibsStarted

(* The data of a chart arrive, or fail.                                    *)
LEMMA DataAnswerGood ==
    ASSUME LibsStarted(libs), NEW call \in DOMAIN libs.calls, DataAnswer(call)
    PROVE  LibsStarted(libs')
<1> DEFINE s0 == Taken(libs, call)
           c == call.who
<1>1. /\ LibsShape(s0) /\ MayGoOn(s0, c) /\ LibsReasons(s0) /\ call \in LibCall
      /\ CallGood(s0.lib, call) /\ s0.of = libs.of
  BY TakenGood DEF LibsStarted
<1>2. c \in LibCharts /\ c # Refresher
  BY <1>1 DEF LibCall, CallGood, DataAnswer
<1>3. OneAwaited(s0.calls, s0.loop)
  BY <1>1, <1>2 DEF MayGoOn
<1>4. CASE CanDraw(libs, libs.of[c])
  <2>1. libs' = s0
    BY <1>4 DEF DataAnswer
  <2> QED BY <1>1, <1>3, <2>1 DEF LibsStarted
<1>5. CASE ~ CanDraw(libs, libs.of[c])
  <2>1. libs' = ChartError(s0, c)
    BY <1>5 DEF DataAnswer
  <2>2. ChartReason(s0, c)
    BY <1>1, <1>5 DEF ChartReason, CanDraw
  <2>3. GoesOn(s0, ChartError(s0, c))
    BY <1>1, <1>2, <1>3, <2>2, ChartErrorGood
  <2> QED BY <1>1, <2>1, <2>3 DEF GoesOn, LibsStarted
<1> QED BY <1>4, <1>5

(* The refresher makes a pass over the charts.                             *)
LEMMA LibPassGood ==
    ASSUME LibsStarted(libs), LibPass
    PROVE  LibsStarted(libs')
<1> DEFINE lib(c) == libs.lib[libs.of[c]]
<1>1. /\ libs \in LibsState /\ LibsShape(libs) /\ LibsReasons(libs)
      /\ OneAwaited(libs.calls, "due") /\ libs.loop = "due"
  BY Zenon DEF LibsStarted, LibsShape, LibPass
<1>2. PICK seen \in SUBSET LibCharts :
        LET loads == {c \in seen : ~ lib(c).initialized /\ lib(c).enabled}
            passed == {c \in seen : \A d \in loads : d < c}
            lost == {c \in passed : ~ lib(c).enabled /\ (lib(c).initialized => loads = {})}
            s == [libs EXCEPT !.enabled =
                      [c \in LibCharts |-> libs.enabled[c] /\ c \notin lost]]
        IN  \/ \E c \in loads :
                  /\ \A d \in loads : d <= c
                  /\ libs' = InitializeOrCallBack([s EXCEPT !.loop = "waiting"],
                                                  libs.of[c], Refresher)
            \/ /\ loads = {}
               /\ \E ready \in SUBSET {c \in seen : s.enabled[c] /\ ~ HasDataRequest(s, c)} :
                     /\ Cardinality(Copies(s.calls, DOMAIN s.calls)) + Cardinality(ready) <= LibRequests
                     /\ libs' = [s EXCEPT !.calls =
                                     Also(@, {DataRequest(s, c) : c \in ready})]
  BY Zenon DEF LibPass
<1> DEFINE loads == {c \in seen : ~ lib(c).initialized /\ lib(c).enabled}
           passed == {c \in seen : \A d \in loads : d < c}
           lost == {c \in passed : ~ lib(c).enabled /\ (lib(c).initialized => loads = {})}
           en == [c \in LibCharts |-> libs.enabled[c] /\ c \notin lost]
           s == [libs EXCEPT !.enabled = en]
<1>3. Mine(libs.calls) = {}
  BY <1>1 DEF OneAwaited
<1>4. \A c \in lost : c \in LibCharts /\ ~ lib(c).enabled
  OBVIOUS
<1>5. \A c \in LibCharts : libs.of[c] \in Libraries
  BY <1>1 DEF LibsState
<1>6. \A c \in lost : ChartReason(libs, c)
  <2> TAKE c \in lost
  <2>1. c \in LibCharts /\ ~ lib(c).enabled
    BY <1>4
  <2>2. LibReason(libs, libs.of[c])
    BY <1>1, <1>5, <2>1 DEF LibsReasons
  <2> QED BY <2>1, <2>2 DEF ChartReason
<1>7. en \in [LibCharts -> BOOLEAN]
  <2>1. \A c \in LibCharts : (libs.enabled[c] /\ c \notin lost) \in BOOLEAN
    OBVIOUS
  <2> QED BY <2>1
<1>8. \A c \in LibCharts : ~ en[c] => ChartReason(libs, c)
  <2> SUFFICES ASSUME NEW c \in LibCharts, ~ en[c] PROVE ChartReason(libs, c)
    OBVIOUS
  <2>1. ~ libs.enabled[c] \/ c \in lost
    BY Zenon
  <2> HIDE DEF lost, en, lib
  <2> QED BY <1>1, <1>6, <2>1 DEF LibsReasons
<1> HIDE DEF en
<1>9. /\ s \in LibsState /\ s.calls = libs.calls /\ s.lib = libs.lib /\ s.loop = libs.loop
      /\ s.of = libs.of /\ s.stop = libs.stop /\ s.enabled = en /\ s.faults = libs.faults
  BY <1>1, <1>7, Zenon DEF LibsState
<1>10. CASE \E c \in loads : libs' = InitializeOrCallBack([s EXCEPT !.loop = "waiting"],
                                                         libs.of[c], Refresher)
  <2> DEFINE t == [s EXCEPT !.loop = "waiting"]
  <2>1. PICK c \in LibCharts : libs' = InitializeOrCallBack(t, libs.of[c], Refresher)
    BY <1>10
  <2> HIDE DEF s
  <2>2. "waiting" \in LibLoops
    BY DEF LibLoops
  <2>3. /\ t \in LibsState /\ t.calls = libs.calls /\ t.lib = libs.lib /\ t.loop = "waiting"
        /\ t.of = libs.of /\ t.stop = libs.stop /\ t.enabled = en /\ t.faults = libs.faults
    BY <1>9, <2>2, Zenon DEF LibsState
  <2> HIDE DEF t
  <2>4. LibsShape(t)
    BY <1>1, <2>3 DEF LibsShape
  <2>5. LibsReasons(t)
    BY <1>1, <1>8, <2>3 DEF LibsReasons, LibReason, ChartReason
  <2>6. MayGoOn(t, Refresher)
    BY <1>3, <2>3 DEF MayGoOn
  <2>7. GoesOn(t, libs')
    BY <1>5, <2>1, <2>4, <2>6, InitializeOrCallBackGood
  <2> QED BY <2>5, <2>7 DEF GoesOn, LibsStarted
<1>11. CASE loads = {} /\
            \E ready \in SUBSET {c \in seen : s.enabled[c] /\ ~ HasDataRequest(s, c)} :
                libs' = [s EXCEPT !.calls = Also(@, {DataRequest(s, c) : c \in ready})]
  <2> HIDE DEF s, loads, passed, lost, lib
  <2>1. PICK ready \in SUBSET LibCharts :
          libs' = [s EXCEPT !.calls = Also(s.calls, {DataRequest(s, c) : c \in ready})]
    BY <1>11, Zenon
  <2> DEFINE X == {DataRequest(s, c) : c \in ready}
             b == Also(s.calls, X)
  <2>2. \A x \in X : x \in LibCall /\ x.op = "data" /\ x.who # Refresher
    <3> SUFFICES ASSUME NEW c \in ready
                 PROVE  /\ DataRequest(s, c) \in LibCall /\ DataRequest(s, c).op = "data"
                        /\ DataRequest(s, c).who # Refresher
      BY Zenon
    <3>1. c \in LibCharts /\ s.of = libs.of /\ c # Refresher
      BY <1>9, LibsAssumption DEF Refresher
    <3>2. s.of[c] \in Libraries
      BY <1>5, <3>1, Zenon
    <3> QED BY <3>1, <3>2, Zenon DEF DataRequest, LibCall
  <2>3. s.calls \in CallBags /\ X \in SUBSET LibCall
    BY <1>9, <2>2 DEF LibsState
  <2>4. libs' = [s EXCEPT !.calls = b]
    BY <2>1
  <2> HIDE DEF X
  <2>5. b \in CallBags /\ DOMAIN b = DOMAIN s.calls \cup X
    BY <2>3, BagAdd, Zenon
  <2> HIDE DEF b
  <2>6. /\ libs' \in LibsState /\ libs'.calls = b /\ libs'.lib = libs.lib /\ libs'.loop = "due"
        /\ libs'.of = libs.of /\ libs'.stop = libs.stop /\ libs'.enabled = en
        /\ libs'.faults = libs.faults
    BY <1>1, <1>9, <2>4, <2>5, Zenon DEF LibsState
  <2>7. \A x \in X : CallGood(libs.lib, x)
    BY <2>2 DEF CallGood
  <2>8. LibsShape(libs')
    BY <1>1, <1>9, <2>5, <2>6, <2>7 DEF LibsShape
  <2>9. LibsReasons(libs')
    BY <1>1, <1>8, <2>6 DEF LibsReasons, LibReason, ChartReason
  <2>10. Mine(b) = {}
    BY <1>3, <1>9, <2>2, <2>5 DEF Mine
  <2>11. OneAwaited(libs'.calls, libs'.loop)
    BY <2>6, <2>10 DEF OneAwaited
  <2> QED BY <2>8, <2>9, <2>11 DEF LibsStarted
<1> QED BY <1>2, <1>10, <1>11, Zenon DEF en

(* Every step of the loading keeps the invariant.                          *)
LEMMA LibsStepGood ==
    ASSUME LibsGood(libs), LibsNext
    PROVE  LibsGood(libs')
<1>1. CASE LibsFresh(libs)
  BY <1>1, FreshStep
<1>2. CASE LibsStarted(libs)
  <2>1. libs.boot = "started"
    BY <1>2 DEF LibsStarted, LibsShape, LibsState
  <2>2. ~ Boot
    BY <2>1 DEF Boot, JQueryLoaded, JQueryFails, BootstrapAnswer
  <2>3. CASE LibPass
    BY <1>2, <2>3, LibPassGood DEF LibsGood
  <2>4. CASE LibAnswers
    <3>1. PICK call \in DOMAIN libs.calls :
            ScriptAnswer(call) \/ PackagesAnswer(call) \/ DataAnswer(call)
      BY <2>4 DEF LibAnswers
    <3> QED BY <1>2, <3>1, ScriptAnswerGood, PackagesAnswerGood, DataAnswerGood DEF LibsGood
  <2>5. CASE \E c \in LibCharts : LibChartUpdate(c)
    <3>1. PICK c \in LibCharts : libs' = UpdateLibChart(libs, c)
      BY <2>5 DEF LibChartUpdate
    <3>2. GoesOn(libs, libs')
      BY <1>2, <3>1, UpdateLibChartGood DEF LibsStarted
    <3> QED BY <1>2, <3>2 DEF GoesOn, LibsStarted, LibsGood
  <2> QED BY <2>2, <2>3, <2>4, <2>5 DEF LibsNext
<1> QED BY <1>1, <1>2 DEF LibsGood

(* The invariant gives the properties of the loading.                      *)
LEMMA LibsGoodIsSound ==
    ASSUME LibsGood(libs)
    PROVE  RefresherIsCalledOnce /\ LoadedWithItsBase /\ GivenUpForAReason
<1>1. CASE LibsStarted(libs)
  <2>1. RefresherIsCalledOnce
    BY <1>1 DEF LibsStarted, OneAwaited, Mine, RefresherIsCalledOnce
  <2>2. LoadedWithItsBase
    BY <1>1 DEF LibsStarted, LibsShape, LoadedWithItsBase
  <2>3. GivenUpForAReason
    BY <1>1 DEF LibsStarted, LibsReasons, ChartReason, LibReason, GivenUpForAReason
  <2> QED BY <2>1, <2>2, <2>3
<1>2. CASE LibsFresh(libs)
  <2>1. PICK b \in {"jquery", "bootstrap", "dead"}, of \in [LibCharts -> Libraries],
             stop \in SUBSET Libraries, f \in Int : libs = FreshPage(b, of, stop, "none", f)
    BY <1>2 DEF LibsFresh
  <2>2. DOMAIN libs.calls = {} /\ libs.loop = "none"
    BY <2>1 DEF FreshPage, Once
  <2>3. (\A l \in Libraries : libs.lib[l].initialized = FALSE)
        /\ (\A c \in LibCharts : libs.enabled[c] = TRUE)
    BY <2>1 DEF FreshPage, NewLibrary
  <2> QED BY <2>2, <2>3 DEF RefresherIsCalledOnce, LoadedWithItsBase, GivenUpForAReason
<1> QED BY <1>1, <1>2 DEF LibsGood

-----------------------------------------------------------------------------
(* The old portal: timers and requests are bags, the thread a token in them. *)

(* A bag and a set, and a bag without one of its elements.                    *)
LEMMA PlusSet ==
    ASSUME NEW b, IsPending(b), NEW X
    PROVE  LET r == Also(b, X)
           IN  /\ IsPending(r) /\ DOMAIN r = DOMAIN b \cup X
               /\ \A e \in DOMAIN b \ X : r[e] = b[e]
               /\ \A e \in X \ DOMAIN b : r[e] = 1
<1> DEFINE r == Also(b, X)
           D == DOMAIN b \cup X
           P == Nat \ {0}
<1>1. b \in [DOMAIN b -> P]
  BY DEF IsPending
<1>3. r = [e \in D |-> (IF e \in DOMAIN b THEN b[e] ELSE 0) + (IF e \in X THEN 1 ELSE 0)]
  BY DEF Also
<1>4. DOMAIN r = D /\ \A e \in D : r[e] \in P
  BY <1>1, <1>3
<1>5. r \in [DOMAIN r -> P]
  BY <1>3, <1>4, Zenon
<1>6. \A e \in DOMAIN b \ X : r[e] = b[e]
  BY <1>1, <1>3
<1>7. \A e \in X \ DOMAIN b : r[e] = 1
  BY <1>3
<1> HIDE DEF r
<1>8. IsPending(r)
  BY <1>5 DEF IsPending
<1> QED BY <1>4, <1>6, <1>7, <1>8 DEF r

(* A bag (-) one of its elements: the last copy of it leaves the bag.      *)
LEMMA MinusOne ==
    ASSUME NEW b, IsPending(b), NEW x \in DOMAIN b
    PROVE  LET r == Less(b, x)
           IN  /\ IsPending(r) /\ DOMAIN r \subseteq DOMAIN b
               /\ \A e \in DOMAIN b \ {x} : e \in DOMAIN r /\ r[e] = b[e]
               /\ b[x] = 1 => x \notin DOMAIN r
<1> DEFINE r == Less(b, x)
           D == {d \in DOMAIN b : d = x => b[d] > 1}
<1>1. b \in [DOMAIN b -> Nat \ {0}] /\ x \in DOMAIN b
  BY DEF IsPending
<1>2. r = [e \in D |-> IF e = x THEN b[e] - 1 ELSE b[e]]
  BY DEF Less
<1>3. DOMAIN r = D /\ \A e \in D : r[e] = IF e = x THEN b[e] - 1 ELSE b[e]
  BY <1>2
<1> HIDE DEF r
<1>4. \A e \in D : r[e] \in Nat \ {0}
  BY <1>1, <1>3
<1>5. r \in [DOMAIN r -> Nat \ {0}]
  BY <1>2, <1>3, <1>4
<1>6. \A e \in DOMAIN b \ {x} : e \in D /\ r[e] = b[e]
  BY <1>3
<1>7. b[x] = 1 => x \notin D
  OBVIOUS
<1> HIDE DEF D
<1>8. DOMAIN r \subseteq DOMAIN b
  BY <1>3 DEF D
<1>9. IsPending(r)
  BY <1>5 DEF IsPending
<1> QED BY <1>3, <1>6, <1>7, <1>8, <1>9 DEF r

OldFields ==
    {"mode", "refresh", "stale", "visible", "resize", "scroll", "watchdog", "thumbs", "off",
     "group", "main", "gen", "last", "timers", "net", "late", "acts", "faults"}

OldModes == {"none", "thumbs", "groups", "main"}

(* A screen that is not there, or is: it has a number.                     *)
Screen(s) == s = Null \/ "gen" \in DOMAIN s

OldShape(w) ==
    /\ DOMAIN w = OldFields
    /\ IsPending(w.timers) /\ IsPending(w.net)
    /\ \A req \in DOMAIN w.net : req.kind = "load" \/ req.next \in {"callback", "hidden", "trigger"}
    /\ w.mode \in OldModes /\ w.late \in BOOLEAN
    /\ Screen(w.main) /\ Screen(w.group)
    /\ w.mode = "main" => w.main # Null
    /\ w.mode = "groups" => w.group # Null

(* Nobody refreshes; at most one thread does.                              *)
Resting(w) == DOMAIN w.timers = {} /\ GoesOnWithThread(w) = {}

Single(w) ==
    \/ Resting(w)
    \/ /\ GoesOnWithThread(w) = {}
       /\ \E f \in DOMAIN w.timers : DOMAIN w.timers = {f} /\ w.timers[f] = 1
    \/ /\ DOMAIN w.timers = {}
       /\ \E req \in DOMAIN w.net : GoesOnWithThread(w) = {req} /\ w.net[req] = 1

OldGood(w) == OldShape(w) /\ (w.late \/ Single(w))

(* Nothing about the threads changes; a handler goes on with the thread.   *)
Like(w, r) == OldShape(r) /\ r.late = w.late /\ r.timers = w.timers /\ r.net = w.net

Continues(w, r) == OldShape(r) /\ r.late = w.late /\ (Resting(w) => Single(r))

(* A screen with a number is a screen.                                     *)
LEMMA ScreenIsThere ==
    ASSUME NEW s, "gen" \in DOMAIN s
    PROVE  s # Null
BY DEF Null

(* Going on after a step that leaves the threads alone.                    *)
LEMMA LikeContinues ==
    ASSUME NEW w, NEW s, NEW r, Like(w, s), Continues(s, r)
    PROVE  Continues(w, r)
BY DEF Like, Continues, Resting, GoesOnWithThread

(* A step that leaves the threads alone keeps the invariant.               *)
LEMMA LikeIsGood ==
    ASSUME NEW w, NEW r, OldGood(w), Like(w, r)
    PROVE  OldGood(r)
BY DEF Like, OldGood, Single, Resting, GoesOnWithThread

(* A step that leaves the threads alone goes on with none.                 *)
LEMMA LikeRests ==
    ASSUME NEW w, NEW r, OldShape(w), Like(w, r)
    PROVE  Continues(w, r)
BY DEF Like, Continues, Single, Resting, GoesOnWithThread

(* setTimeout() goes on with the thread: one timer.                        *)
LEMMA SetTimeoutGood ==
    ASSUME NEW w, OldShape(w), NEW f
    PROVE  Continues(w, SetTimeout(w, f))
<1> DEFINE b == Also(w.timers, {f})
           r == [w EXCEPT !.timers = b]
<1>1. SetTimeout(w, f) = r
  BY DEF SetTimeout
<1>2. /\ IsPending(b) /\ DOMAIN b = DOMAIN w.timers \cup {f}
      /\ \A e \in {f} \ DOMAIN w.timers : b[e] = 1
  <2> DEFINE t == w.timers
             X == {f}
  <2>1. IsPending(t)
    BY DEF OldShape
  <2> HIDE DEF t, X
  <2>2. LET q == Also(t, X)
        IN  IsPending(q) /\ DOMAIN q = DOMAIN t \cup X /\ \A e \in X \ DOMAIN t : q[e] = 1
    BY <2>1, PlusSet, Zenon
  <2> QED BY <2>2 DEF t, X
<1> HIDE DEF b
<1>3. /\ DOMAIN r = OldFields /\ r.timers = b /\ r.net = w.net /\ r.mode = w.mode
      /\ r.late = w.late /\ r.main = w.main /\ r.group = w.group
  BY DEF OldShape, OldFields
<1> HIDE DEF r
<1>4. OldShape(r)
  BY <1>2, <1>3 DEF OldShape
<1>5. Resting(w) => Single(r)
  BY <1>2, <1>3 DEF Resting, Single, GoesOnWithThread
<1> QED BY <1>1, <1>3, <1>4, <1>5 DEF Continues

(* A request for data goes on with the thread: one request.                *)
LEMMA AskGood ==
    ASSUME NEW w, OldShape(w), NEW kind, kind # "load", NEW chart, NEW gen, NEW family,
           NEW next \in {"callback", "hidden", "trigger"}
    PROVE  Continues(w, Ask(w, kind, chart, gen, family, next))
<1> DEFINE req == [kind |-> kind, chart |-> chart, gen |-> gen, family |-> family, next |-> next]
           b == Also(w.net, {req})
           r == [w EXCEPT !.net = b]
<1>1. Ask(w, kind, chart, gen, family, next) = r
  BY DEF Ask
<1>2. req.kind # "load" /\ req.next \in {"callback", "hidden", "trigger"}
  OBVIOUS
<1> HIDE DEF req
<1>3. /\ IsPending(b) /\ DOMAIN b = DOMAIN w.net \cup {req}
      /\ \A e \in {req} \ DOMAIN w.net : b[e] = 1
  <2> DEFINE t == w.net
             X == {req}
  <2>1. IsPending(t)
    BY DEF OldShape
  <2> HIDE DEF t, X
  <2>2. LET q == Also(t, X)
        IN  IsPending(q) /\ DOMAIN q = DOMAIN t \cup X /\ \A e \in X \ DOMAIN t : q[e] = 1
    BY <2>1, PlusSet, Zenon
  <2> QED BY <2>2 DEF t, X
<1> HIDE DEF b
<1>4. /\ DOMAIN r = OldFields /\ r.net = b /\ r.timers = w.timers /\ r.mode = w.mode
      /\ r.late = w.late /\ r.main = w.main /\ r.group = w.group
  BY DEF OldShape, OldFields
<1> HIDE DEF r
<1>5. OldShape(r)
  BY <1>2, <1>3, <1>4 DEF OldShape
<1>6. ASSUME Resting(w) PROVE Single(r)
  <2>1. \A e \in DOMAIN w.net : e.kind = "load"
    BY <1>6 DEF Resting, GoesOnWithThread
  <2>2. req \notin DOMAIN w.net /\ b[req] = 1
    BY <1>2, <1>3, <2>1
  <2>3. GoesOnWithThread(r) = {req}
    BY <1>2, <1>3, <1>4, <2>1 DEF GoesOnWithThread
  <2> QED BY <1>3, <1>4, <1>6, <2>2, <2>3 DEF Resting, Single
<1> QED BY <1>1, <1>4, <1>5, <1>6 DEF Continues

(* A page that differs in what no thread is made of is like the other.     *)
LEMMA LikeBy ==
    ASSUME NEW w, OldShape(w), NEW r, DOMAIN r = OldFields, r.timers = w.timers, r.net = w.net,
           r.late = w.late, r.mode \in OldModes, Screen(r.main), Screen(r.group),
           r.mode = "main" => r.main # Null, r.mode = "groups" => r.group # Null
    PROVE  Like(w, r)
BY DEF Like, OldShape

(* triggerRefresh() starts one timer, whatever the screen.                 *)
LEMMA TriggerRefreshGood ==
    ASSUME NEW w, OldShape(w)
    PROVE  Continues(w, TriggerRefresh(w))
<1> DEFINE s == [w EXCEPT !.stale = FALSE]
<1>1. /\ DOMAIN s = OldFields /\ s.timers = w.timers /\ s.net = w.net /\ s.late = w.late
      /\ s.mode = w.mode /\ s.main = w.main /\ s.group = w.group
  BY DEF OldShape, OldFields
<1> HIDE DEF s
<1>2. Like(w, s) /\ OldShape(s)
  BY <1>1 DEF Like, OldShape
<1>3. Continues(s, SetTimeout(s, "trigger"))
  BY <1>2, SetTimeoutGood
<1>4. Continues(w, SetTimeout(s, "trigger"))
  BY <1>2, <1>3, LikeContinues
<1>5. \A f : Continues(w, SetTimeout(w, f))
  BY SetTimeoutGood
<1>6. TriggerRefresh(w) = SetTimeout(s, "trigger") \/ \E f : TriggerRefresh(w) = SetTimeout(w, f)
  BY DEF TriggerRefresh, s
<1> QED BY <1>4, <1>5, <1>6

(* refreshHiddenChart() asks for the one hidden chart, or goes on at once. *)
LEMMA RefreshHiddenChartGood ==
    ASSUME NEW w, OldShape(w)
    PROVE  Continues(w, RefreshHiddenChart(w))
<1>1. CASE w.main = Null
  <2>1. RefreshHiddenChart(w) = w
    BY <1>1 DEF RefreshHiddenChart
  <2> QED BY <2>1 DEF Continues, Single
<1>2. CASE RefreshHiddenChart(w) = TriggerRefresh(w)
  BY <1>2, TriggerRefreshGood
<1>3. CASE w.main # Null /\ RefreshHiddenChart(w) # TriggerRefresh(w)
  <2> DEFINE clean == w.main.wrappers /\ w.main.count > CleanEvery
             m == [w.main EXCEPT !.wrappers = TRUE, !.hshown = w.main.hshown /\ ~clean,
                                 !.count = IF clean \/ ~w.main.wrappers THEN 0 ELSE w.main.count]
             s == [w EXCEPT !.main = m]
  <2>1. RefreshHiddenChart(w) = Ask(s, "hidden", MainDiv, w.main.gen, 0, "trigger")
    BY <1>3 DEF RefreshHiddenChart
  <2>2. "gen" \in DOMAIN m
    BY <1>3 DEF OldShape, Screen
  <2> HIDE DEF m
  <2>3. /\ DOMAIN s = OldFields /\ s.timers = w.timers /\ s.net = w.net /\ s.late = w.late
        /\ s.mode = w.mode /\ s.main = m /\ s.group = w.group
    BY DEF OldShape, OldFields
  <2> HIDE DEF s
  <2>4. m # Null
    BY <2>2, ScreenIsThere
  <2>5. Like(w, s) /\ OldShape(s)
    BY <2>2, <2>3, <2>4 DEF Like, OldShape, Screen
  <2>6. Continues(s, RefreshHiddenChart(w))
    BY <2>1, <2>5, AskGood
  <2> QED BY <2>5, <2>6, LikeContinues
<1> QED BY <1>1, <1>2, <1>3

(* mainChartRefresh() asks for the main chart, or waits.                   *)
LEMMA MainChartRefreshGood ==
    ASSUME NEW w, OldShape(w)
    PROVE  Continues(w, MainChartRefresh(w))
<1>1. Continues(w, Ask(w, "main", MainDiv, w.main.gen, 0, "hidden"))
  BY AskGood
<1> QED BY <1>1, TriggerRefreshGood, RefreshHiddenChartGood, Zenon DEF MainChartRefresh

(* The chart refreshed last is no part of a thread.                        *)
LEMMA LastChanges ==
    ASSUME NEW w, OldShape(w), NEW x
    PROVE  LET s == [w EXCEPT !.last = x] IN Like(w, s) /\ OldShape(s)
<1> DEFINE s == [w EXCEPT !.last = x]
<1>1. /\ DOMAIN s = OldFields /\ s.timers = w.timers /\ s.net = w.net /\ s.late = w.late
      /\ s.mode = w.mode /\ s.main = w.main /\ s.group = w.group
  BY DEF OldShape, OldFields
<1> HIDE DEF s
<1>2. Like(w, s) /\ OldShape(s)
  BY <1>1 DEF Like, OldShape
<1> QED BY <1>2 DEF s

(* roundRobinRenderChart() asks for one chart of the screen, or waits.     *)
LEMMA RoundRobinGood ==
    ASSUME NEW w, OldShape(w), NEW screen, screen # "load", NEW charts, NEW gen, NEW family
    PROVE  Continues(w, RoundRobinRenderChart(w, screen, charts, gen, family))
<1> DEFINE all == Cardinality(DOMAIN charts)
           start == IF w.last[screen] + 1 >= all THEN 0 ELSE w.last[screen] + 1
           At(k) == (start + k) % all
           ready == {k \in 0 .. all - 1 : LET c == charts[At(k)]
                                          IN  CanChartBeRefreshed(w, c.id, c.enabled, c.due)}
           x == At(all - 1) + 1
           y == At(FirstReady(ready))
           lx == [w.last EXCEPT ![screen] = x]
           ly == [w.last EXCEPT ![screen] = y]
           s == [w EXCEPT !.last = lx]
           t == [w EXCEPT !.last = ly]
<1>1. RoundRobinRenderChart(w, screen, charts, gen, family) =
        IF ready = {} THEN TriggerRefresh(s) ELSE Ask(t, screen, y, gen, family, "callback")
  BY DEF RoundRobinRenderChart
<1> HIDE DEF all, start, At, ready, x, y, lx, ly
<1>2. Like(w, s) /\ OldShape(s) /\ Like(w, t) /\ OldShape(t)
  BY LastChanges, Zenon
<1> HIDE DEF s, t
<1>3. Continues(s, TriggerRefresh(s))
  BY <1>2, TriggerRefreshGood
<1>4. Continues(t, Ask(t, screen, y, gen, family, "callback"))
  BY <1>2, AskGood
<1>5. Continues(w, TriggerRefresh(s))
  BY <1>2, <1>3, LikeContinues
<1>6. Continues(w, Ask(t, screen, y, gen, family, "callback"))
  BY <1>2, <1>4, LikeContinues
<1> QED BY <1>1, <1>5, <1>6

(* The two screens of many charts go on with their next one.               *)
LEMMA RefreshNextGood ==
    ASSUME NEW w, OldShape(w)
    PROVE  Continues(w, ThumbChartsRefreshNext(w)) /\ Continues(w, GroupChartsRefreshNext(w))
<1>1. Continues(w, TriggerRefresh(w))
  BY TriggerRefreshGood
<1>2. Continues(w, RoundRobinRenderChart(w, "thumbs", w.thumbs, 0, 0))
  BY RoundRobinGood
<1>3. Continues(w, RoundRobinRenderChart(w, "groups", w.group.charts, w.group.gen, w.group.family))
  BY RoundRobinGood
<1> QED BY <1>1, <1>2, <1>3 DEF ThumbChartsRefreshNext, GroupChartsRefreshNext

(* cleanupCharts() leaves the threads alone.                               *)
LEMMA CleanupChartsLike ==
    ASSUME NEW w, OldShape(w)
    PROVE  Like(w, CleanupCharts(w)) /\ OldShape(CleanupCharts(w))
<1> DEFINE m == IF w.mode = "main" THEN w.main ELSE Null
           g == IF w.mode # "groups" THEN Null
                ELSE [w.group EXCEPT !.charts = Closing(w.group.charts)]
           r == [w EXCEPT !.main = m, !.thumbs = Closing(w.thumbs), !.group = g]
<1>1. CleanupCharts(w) = r
  BY DEF CleanupCharts
<1>2. Screen(m) /\ (w.mode = "main" => m # Null)
  BY DEF OldShape, Screen
<1>3. w.mode = "groups" => "gen" \in DOMAIN g
  BY DEF OldShape, Screen
<1>4. w.mode # "groups" => g = Null
  OBVIOUS
<1> HIDE DEF m, g
<1>5. w.mode = "groups" => g # Null
  BY <1>3, ScreenIsThere
<1>6. /\ DOMAIN r = OldFields /\ r.timers = w.timers /\ r.net = w.net /\ r.late = w.late
      /\ r.mode = w.mode /\ r.main = m /\ r.group = g
  BY DEF OldShape, OldFields
<1> HIDE DEF r
<1>7. Like(w, r) /\ OldShape(r)
  BY <1>2, <1>3, <1>4, <1>5, <1>6 DEF Like, OldShape, Screen
<1> QED BY <1>1, <1>7

(* resizeCharts() leaves the threads alone.                                *)
LEMMA ResizeChartsLike ==
    ASSUME NEW w, OldShape(w)
    PROVE  Like(w, ResizeCharts(w)) /\ OldShape(ResizeCharts(w))
<1>1. CASE ResizeThrows(w)
  <2> DEFINE m == [w.main EXCEPT !.shown = FALSE, !.due = TRUE]
             r == [w EXCEPT !.main = m]
  <2>1. ResizeCharts(w) = r /\ w.main # Null
    BY <1>1 DEF ResizeCharts, ResizeThrows
  <2>2. "gen" \in DOMAIN m
    BY <2>1 DEF OldShape, Screen
  <2> HIDE DEF m
  <2>3. m # Null
    BY <2>2, ScreenIsThere
  <2>4. /\ DOMAIN r = OldFields /\ r.timers = w.timers /\ r.net = w.net /\ r.late = w.late
        /\ r.mode = w.mode /\ r.main = m /\ r.group = w.group
    BY DEF OldShape, OldFields
  <2> HIDE DEF r
  <2>5. Like(w, r) /\ OldShape(r)
    BY <2>2, <2>3, <2>4 DEF Like, OldShape, Screen
  <2> QED BY <2>1, <2>5
<1>2. CASE ~ ResizeThrows(w)
  <2> DEFINE m == IF w.main = Null THEN Null
                  ELSE [w.main EXCEPT !.shown = FALSE, !.due = TRUE, !.hshown = FALSE, !.hdue = TRUE]
             g == IF w.group = Null THEN Null
                  ELSE [w.group EXCEPT !.charts = Redrawn(w.group.charts)]
             r == [w EXCEPT !.main = m, !.thumbs = Redrawn(w.thumbs), !.group = g, !.resize = FALSE]
  <2>1. ResizeCharts(w) = r
    BY <1>2 DEF ResizeCharts
  <2>2. (w.main = Null /\ m = Null) \/ "gen" \in DOMAIN m
    BY DEF OldShape, Screen
  <2>3. (w.group = Null /\ g = Null) \/ "gen" \in DOMAIN g
    BY DEF OldShape, Screen
  <2> HIDE DEF m, g
  <2>4. (w.main # Null => m # Null) /\ (w.group # Null => g # Null)
    BY <2>2, <2>3, ScreenIsThere
  <2>5. /\ DOMAIN r = OldFields /\ r.timers = w.timers /\ r.net = w.net /\ r.late = w.late
        /\ r.mode = w.mode /\ r.main = m /\ r.group = g
    BY DEF OldShape, OldFields
  <2> HIDE DEF r
  <2>6. Like(w, r) /\ OldShape(r)
    BY <2>2, <2>3, <2>4, <2>5 DEF Like, OldShape, Screen
  <2> QED BY <2>1, <2>6
<1> QED BY <1>1, <1>2

(* The next step is chosen by the screen that is shown: one step.          *)
LEMMA ScheduleGood ==
    ASSUME NEW w, OldShape(w)
    PROVE  Continues(w, Schedule(w))
<1> DEFINE s == [w EXCEPT !.scroll = "none"]
<1>1. /\ DOMAIN s = OldFields /\ s.timers = w.timers /\ s.net = w.net /\ s.late = w.late
      /\ s.mode = w.mode /\ s.main = w.main /\ s.group = w.group
  BY DEF OldShape, OldFields
<1>2. \/ Schedule(w) = SetTimeout(w, "trigger")
      \/ Schedule(w) = MainChartRefresh(s)
      \/ \E f : Schedule(w) = SetTimeout(s, f)
  BY DEF Schedule
<1> HIDE DEF s
<1>3. Like(w, s) /\ OldShape(s)
  BY <1>1 DEF Like, OldShape
<1>4. CASE Schedule(w) = SetTimeout(w, "trigger")
  BY <1>4, SetTimeoutGood
<1>5. CASE Schedule(w) = MainChartRefresh(s)
  BY <1>3, <1>5, MainChartRefreshGood, LikeContinues
<1>6. CASE \E f : Schedule(w) = SetTimeout(s, f)
  <2>1. PICK f : Schedule(w) = SetTimeout(s, f)
    BY <1>6
  <2>2. Continues(s, SetTimeout(s, f))
    BY <1>3, SetTimeoutGood
  <2> QED BY <1>3, <2>1, <2>2, LikeContinues
<1> QED BY <1>2, <1>4, <1>5, <1>6

(* renderChartCallback() tidies up, and goes on with the thread.           *)
LEMMA RenderChartCallbackGood ==
    ASSUME NEW p, OldShape(p)
    PROVE  Continues(p, RenderChartCallback(p))
<1> DEFINE w == [p EXCEPT !.stale = FALSE]
           c == CleanupCharts(w)
           z == ResizeCharts(c)
<1>1. /\ DOMAIN w = OldFields /\ w.timers = p.timers /\ w.net = p.net /\ w.late = p.late
      /\ w.mode = p.mode /\ w.main = p.main /\ w.group = p.group
  BY DEF OldShape, OldFields
<1>2. RenderChartCallback(p) \in {SetTimeout(w, "trigger"), Schedule(w), z, Schedule(z)}
  BY DEF RenderChartCallback
<1> HIDE DEF w
<1>3. Like(p, w) /\ OldShape(w)
  BY <1>1 DEF Like, OldShape
<1>4. Like(w, c) /\ OldShape(c)
  BY <1>3, CleanupChartsLike
<1> HIDE DEF c
<1>5. Like(c, z) /\ OldShape(z)
  BY <1>4, ResizeChartsLike
<1> HIDE DEF z
<1>6. Like(p, z)
  BY <1>3, <1>4, <1>5 DEF Like
<1>7. Continues(w, SetTimeout(w, "trigger")) /\ Continues(w, Schedule(w)) /\ Continues(z, Schedule(z))
  BY <1>3, <1>5, SetTimeoutGood, ScheduleGood
<1>8. Continues(p, SetTimeout(w, "trigger")) /\ Continues(p, Schedule(w))
  BY <1>3, <1>7, LikeContinues
<1>9. Continues(p, Schedule(z)) /\ Continues(p, z)
  BY <1>6, <1>7, LikeContinues, LikeRests
<1> QED BY <1>2, <1>8, <1>9

(* Whatever a timer runs goes on with the thread.                          *)
LEMMA RunGood ==
    ASSUME NEW w, OldShape(w),
           NEW f \in {"trigger", "callback", "thumbs", "groups", "main", "hidden"}
    PROVE  Continues(w, Run(f, w))
<1>1. /\ Continues(w, TriggerRefresh(w)) /\ Continues(w, RenderChartCallback(w))
      /\ Continues(w, ThumbChartsRefreshNext(w)) /\ Continues(w, GroupChartsRefreshNext(w))
      /\ Continues(w, MainChartRefresh(w)) /\ Continues(w, RefreshHiddenChart(w))
  BY TriggerRefreshGood, RenderChartCallbackGood, RefreshNextGood, MainChartRefreshGood,
     RefreshHiddenChartGood
<1> QED BY <1>1 DEF Run

(* The thread that is restarted is a second one only when one was there.   *)
LEMMA NoThreadRests ==
    ASSUME NEW w, OldShape(w), Threads(w) = {}
    PROVE  Resting(w)
<1>1. ASSUME NEW f \in DOMAIN w.timers PROVE FALSE
  <2>1. w.timers[f] \in Nat /\ w.timers[f] > 0
    BY DEF OldShape, IsPending
  <2>2. 1 \in 1 .. w.timers[f]
    BY <2>1
  <2>3. <<f, 1>> \in Copies(w.timers, DOMAIN w.timers)
    BY <2>2 DEF Copies
  <2>4. <<"timer", <<f, 1>>>> \in Threads(w)
    BY <2>3 DEF Threads
  <2> QED BY <2>4
<1>2. ASSUME NEW q \in GoesOnWithThread(w) PROVE FALSE
  <2>1. q \in DOMAIN w.net
    BY DEF GoesOnWithThread
  <2>2. w.net[q] \in Nat /\ w.net[q] > 0
    BY <2>1 DEF OldShape, IsPending
  <2>3. 1 \in 1 .. w.net[q]
    BY <2>2
  <2>4. <<q, 1>> \in Copies(w.net, GoesOnWithThread(w))
    BY <2>3 DEF Copies
  <2>5. <<"request", <<q, 1>>>> \in Threads(w)
    BY <2>4 DEF Threads
  <2> QED BY <2>5
<1> QED BY <1>1, <1>2 DEF Resting

(* A restart begins a thread only where nobody refreshes.                  *)
LEMMA RestartGood ==
    ASSUME NEW w, OldShape(w)
    PROVE  OldGood(Restart(w))
<1> DEFINE l == w.late \/ Threads(w) # {}
           s == [w EXCEPT !.late = l]
<1>1. l \in BOOLEAN
  OBVIOUS
<1>2. ~ l => Resting(w)
  BY NoThreadRests
<1>3. Restart(w) = RenderChartCallback(s)
  BY DEF Restart
<1> HIDE DEF l
<1>4. /\ DOMAIN s = OldFields /\ s.timers = w.timers /\ s.net = w.net /\ s.late = l
      /\ s.mode = w.mode /\ s.main = w.main /\ s.group = w.group
  BY DEF OldShape, OldFields
<1> HIDE DEF s
<1>5. OldShape(s) /\ (~ l => Resting(s))
  BY <1>1, <1>2, <1>4 DEF OldShape, Resting, GoesOnWithThread
<1>6. Continues(s, Restart(w))
  BY <1>3, <1>5, RenderChartCallbackGood
<1> QED BY <1>4, <1>5, <1>6 DEF Continues, OldGood

(* playGraphs() resumes, and begins no second thread.                      *)
LEMMA PlayGraphsGood ==
    ASSUME NEW w, OldGood(w)
    PROVE  OldGood(PlayGraphs(w))
<1> DEFINE s == [w EXCEPT !.refresh = "always"]
<1>1. OldShape(w)
  BY DEF OldGood
<1>2. /\ DOMAIN s = OldFields /\ s.timers = w.timers /\ s.net = w.net /\ s.late = w.late
      /\ s.mode = w.mode /\ s.main = w.main /\ s.group = w.group
  BY <1>1 DEF OldShape, OldFields
<1>3. PlayGraphs(w) \in {w, Restart(s), s}
  BY DEF PlayGraphs
<1> HIDE DEF s
<1>4. Like(w, s) /\ OldShape(s)
  BY <1>1, <1>2 DEF Like, OldShape
<1>5. OldGood(s) /\ OldGood(Restart(s))
  BY <1>4, LikeIsGood, RestartGood
<1> QED BY <1>3, <1>5

(* Counting an action of the user or a fault changes nothing else.         *)
LEMMA CountedGood ==
    ASSUME NEW w, OldGood(w)
    PROVE  OldGood([w EXCEPT !.acts = w.acts + 1]) /\ OldGood(OldFault(w))
<1> DEFINE a == [w EXCEPT !.acts = w.acts + 1]
           b == OldFault(w)
<1>1. OldShape(w)
  BY DEF OldGood
<1>2. /\ DOMAIN a = OldFields /\ a.timers = w.timers /\ a.net = w.net /\ a.late = w.late
      /\ a.mode = w.mode /\ a.main = w.main /\ a.group = w.group
  BY <1>1 DEF OldShape, OldFields
<1>3. /\ DOMAIN b = OldFields /\ b.timers = w.timers /\ b.net = w.net /\ b.late = w.late
      /\ b.mode = w.mode /\ b.main = w.main /\ b.group = w.group
  BY <1>1 DEF OldShape, OldFields, OldFault
<1> HIDE DEF a, b
<1>4. Like(w, a) /\ Like(w, b)
  BY <1>1, <1>2, <1>3 DEF Like, OldShape
<1>5. OldGood(a) /\ OldGood(b)
  BY <1>4, LikeIsGood
<1> QED BY <1>5 DEF a, b

(* The invariant gives the properties of the old page.                     *)
LEMMA OldGoodHolds ==
    ASSUME OldGood(old)
    PROVE  AtMostOneThread /\ ScreenHasItsCharts
<1>1. ScreenHasItsCharts
  BY DEF OldGood, OldShape, ScreenHasItsCharts
<1>2. ASSUME Single(old) PROVE \A a, b \in Threads(old) : a = b
  <2> DEFINE T == Threads(old)
             ct == Copies(old.timers, DOMAIN old.timers)
             cr == Copies(old.net, GoesOnWithThread(old))
  <2>1. T = ({"timer"} \X ct) \cup ({"request"} \X cr)
    BY DEF Threads
  <2>2. DOMAIN old.timers = {} => ct = {}
    BY DEF Copies
  <2>3. GoesOnWithThread(old) = {} => cr = {}
    BY DEF Copies
  <2>4. ASSUME NEW f \in DOMAIN old.timers, DOMAIN old.timers = {f}, old.timers[f] = 1
        PROVE  ct = {<<f, 1>>}
    BY <2>4 DEF Copies
  <2>5. ASSUME NEW q \in DOMAIN old.net, GoesOnWithThread(old) = {q}, old.net[q] = 1
        PROVE  cr = {<<q, 1>>}
    BY <2>5 DEF Copies
  <2> HIDE DEF T, ct, cr
  <2>6. T = {} \/ \E x : T = {x}
    <3>1. CASE Resting(old)
      BY <2>1, <2>2, <2>3, <3>1 DEF Resting
    <3>2. CASE GoesOnWithThread(old) = {} /\
               \E f \in DOMAIN old.timers : DOMAIN old.timers = {f} /\ old.timers[f] = 1
      <4>1. PICK f : ct = {<<f, 1>>}
        BY <2>4, <3>2
      <4>2. T = {<<"timer", <<f, 1>>>>}
        BY <2>1, <2>3, <3>2, <4>1
      <4> QED BY <4>2
    <3>3. CASE DOMAIN old.timers = {} /\
               \E q \in DOMAIN old.net : GoesOnWithThread(old) = {q} /\ old.net[q] = 1
      <4>1. PICK q : cr = {<<q, 1>>}
        BY <2>5, <3>3
      <4>2. T = {<<"request", <<q, 1>>>>}
        BY <2>1, <2>2, <3>3, <4>1
      <4> QED BY <4>2
    <3> QED BY <1>2, <3>1, <3>2, <3>3 DEF Single
  <2> QED BY <2>6 DEF T
<1> QED BY <1>1, <1>2 DEF OldGood, AtMostOneThread

(* The page begins with nobody refreshing.                                 *)
LEMMA OldInitGood ==
    ASSUME OldInit PROVE OldGood(old)
<1> DEFINE load == [kind |-> "load", chart |-> 0, gen |-> 0, family |-> 0, next |-> "none"]
<1>1. /\ DOMAIN old = OldFields /\ old.mode = "none" /\ old.main = Null /\ old.group = Null
      /\ old.timers = Once({"trigger"}) /\ old.net = Once({load}) /\ old.late = FALSE
  BY DEF OldInit, OldFields
<1>2. \A x : IsPending(Once({x})) /\ DOMAIN Once({x}) = {x} /\ Once({x})[x] = 1
  <2> TAKE x
  <2>1. Once({x}) = [e \in {x} |-> 1]
    BY DEF Once
  <2>2. [e \in {x} |-> 1] \in [{x} -> Nat \ {0}]
    OBVIOUS
  <2> QED BY <2>1, <2>2 DEF IsPending
<1>3. load.kind = "load"
  OBVIOUS
<1> HIDE DEF load
<1>4. /\ IsPending(old.timers) /\ DOMAIN old.timers = {"trigger"} /\ old.timers["trigger"] = 1
      /\ IsPending(old.net) /\ DOMAIN old.net = {load}
  BY <1>1, <1>2, Zenon
<1>5. old.mode \in OldModes /\ old.late \in BOOLEAN /\ Screen(old.main) /\ Screen(old.group)
  BY <1>1, Zenon DEF OldModes, Screen
<1>6. OldShape(old)
  BY <1>1, <1>3, <1>4, <1>5 DEF OldShape
<1>7. GoesOnWithThread(old) = {}
  BY <1>3, <1>4 DEF GoesOnWithThread
<1>8. Single(old)
  BY <1>4, <1>7 DEF Single
<1> QED BY <1>6, <1>8, Zenon DEF OldGood

(* An answered request is gone: its thread is between two steps.           *)
LEMMA AnswerGood ==
    ASSUME OldGood(old), NEW req \in DOMAIN old.net
    PROVE  LET r == Answer(req)
           IN  /\ OldShape(r)
               /\ req.kind # "load" =>
                     /\ req.next \in {"callback", "hidden", "trigger"}
                     /\ r.late \/ Resting(r)
               /\ req.kind = "load" => OldGood(r)
<1> DEFINE b == Less(old.net, req)
           r == [old EXCEPT !.net = b]
<1>1. Answer(req) = r
  BY DEF Answer
<1>2. OldShape(old) /\ req \in DOMAIN old.net /\ IsPending(old.net)
  BY DEF OldGood, OldShape
<1>3. /\ IsPending(b) /\ DOMAIN b \subseteq DOMAIN old.net
      /\ \A e \in DOMAIN old.net \ {req} : e \in DOMAIN b /\ b[e] = old.net[e]
      /\ old.net[req] = 1 => req \notin DOMAIN b
  <2> DEFINE n == old.net
  <2>1. IsPending(n) /\ req \in DOMAIN n
    BY <1>2
  <2> HIDE DEF n
  <2>2. LET q == Less(n, req)
        IN  /\ IsPending(q) /\ DOMAIN q \subseteq DOMAIN n
            /\ \A e \in DOMAIN n \ {req} : e \in DOMAIN q /\ q[e] = n[e]
            /\ n[req] = 1 => req \notin DOMAIN q
    BY <2>1, MinusOne
  <2> QED BY <2>2 DEF n
<1> HIDE DEF b
<1>4. /\ DOMAIN r = OldFields /\ r.net = b /\ r.timers = old.timers /\ r.mode = old.mode
      /\ r.late = old.late /\ r.main = old.main /\ r.group = old.group
  BY <1>2 DEF OldShape, OldFields
<1> HIDE DEF r
<1>5. OldShape(r)
  BY <1>2, <1>3, <1>4 DEF OldShape
<1>6. ASSUME req.kind # "load", Single(old) PROVE Resting(r)
  <2>1. req \in GoesOnWithThread(old)
    BY <1>2, <1>6 DEF GoesOnWithThread
  <2>2. DOMAIN old.timers = {} /\ GoesOnWithThread(old) = {req} /\ old.net[req] = 1
    BY <1>6, <2>1 DEF Single, Resting
  <2>3. \A e \in DOMAIN b : e.kind = "load"
    BY <1>3, <2>2 DEF GoesOnWithThread
  <2> QED BY <1>4, <2>2, <2>3 DEF Resting, GoesOnWithThread
<1>7. ASSUME req.kind = "load", Single(old) PROVE Single(r)
  <2>1. GoesOnWithThread(r) = GoesOnWithThread(old)
    BY <1>3, <1>4, <1>7 DEF GoesOnWithThread
  <2>2. \A e \in GoesOnWithThread(old) : e \in DOMAIN b /\ b[e] = old.net[e]
    BY <1>3, <1>7 DEF GoesOnWithThread
  <2> QED BY <1>4, <1>7, <2>1, <2>2 DEF Single, Resting
<1>8. req.kind # "load" => req.next \in {"callback", "hidden", "trigger"}
  BY <1>2 DEF OldShape
<1>9. req.kind # "load" => r.late \/ Resting(r)
  BY <1>4, <1>6 DEF OldGood
<1>10. req.kind = "load" => OldGood(r)
  BY <1>4, <1>5, <1>7 DEF OldGood
<1> QED BY <1>1, <1>5, <1>8, <1>9, <1>10

(* A handler whose timer or request is gone may go on with the thread.     *)
LEMMA ContinuesGood ==
    ASSUME NEW w, w.late \/ Resting(w), NEW r, Continues(w, r)
    PROVE  OldGood(r)
BY DEF Continues, OldGood

(* The charts of the page arrive, and the first thread begins.             *)
LEMMA LoadChartsGood ==
    ASSUME OldGood(old), NEW ok, NEW enabled, LoadCharts(ok, enabled)
    PROVE  OldGood(old')
<1>1. PICK req \in DOMAIN old.net :
        /\ req.kind = "load"
        /\ Ends(IF ok THEN PlayGraphs([Answer(req) EXCEPT
                                !.thumbs = [i \in Indices |-> NewThumb(i, i \in enabled)],
                                !.mode = "thumbs", !.watchdog = TRUE])
                ELSE Answer(req), ok)
  BY Zenon DEF LoadCharts
<1> DEFINE w == Answer(req)
           th == [i \in Indices |-> NewThumb(i, i \in enabled)]
           s == [w EXCEPT !.thumbs = th, !.mode = "thumbs", !.watchdog = TRUE]
<1>2. OldGood(w) /\ OldShape(w)
  BY <1>1, AnswerGood
<1>3. old' = IF ok THEN PlayGraphs(s) ELSE OldFault(w)
  BY <1>1 DEF Ends
<1> HIDE DEF w, th
<1>4. /\ DOMAIN s = OldFields /\ s.timers = w.timers /\ s.net = w.net /\ s.late = w.late
      /\ s.mode = "thumbs" /\ s.main = w.main /\ s.group = w.group
  BY <1>2 DEF OldShape, OldFields
<1> HIDE DEF s
<1>5. Like(w, s)
  BY <1>2, <1>4 DEF Like, OldShape, OldModes
<1>6. OldGood(s)
  BY <1>2, <1>5, LikeIsGood
<1>7. OldGood(PlayGraphs(s)) /\ OldGood(OldFault(w))
  BY <1>2, <1>6, PlayGraphsGood, CountedGood, Zenon
<1> QED BY <1>3, <1>7

(* Drawing the data of a chart leaves the threads alone.                   *)
LEMMA RefreshedLike ==
    ASSUME NEW w, OldShape(w), NEW req, req.kind \in {"thumbs", "groups", "main"}
    PROVE  Like(w, Refreshed(w, req)) /\ OldShape(Refreshed(w, req))
<1> DEFINE r == Refreshed(w, req)
           g == WithDue(w.group, req.chart, FALSE)
           m == [w.main EXCEPT !.shown = TRUE, !.due = FALSE]
<1>1. w.group # Null => "gen" \in DOMAIN g
  BY DEF OldShape, Screen, WithDue
<1>2. w.main # Null => "gen" \in DOMAIN m
  BY DEF OldShape, Screen
<1>3. (w.group # Null => g # Null) /\ (w.main # Null => m # Null)
  BY <1>1, <1>2, ScreenIsThere, Zenon
<1> HIDE DEF g, m
<1>4. /\ DOMAIN r = OldFields /\ r.timers = w.timers /\ r.net = w.net /\ r.late = w.late
      /\ r.mode = w.mode /\ (r.main = w.main \/ (w.main # Null /\ r.main = m))
      /\ (r.group = w.group \/ (w.group # Null /\ r.group = g))
  <2>1. CASE req.kind = "thumbs"
    BY <2>1 DEF Refreshed, OldShape, OldFields
  <2>2. CASE req.kind = "groups"
    BY <2>2, Zenon DEF Refreshed, OldShape, OldFields, g
  <2>3. CASE req.kind = "main"
    BY <2>3, Zenon DEF Refreshed, OldShape, OldFields, m
  <2> QED BY <2>1, <2>2, <2>3
<1> HIDE DEF r
<1>5. Like(w, r) /\ OldShape(r)
  BY <1>1, <1>2, <1>3, <1>4 DEF Like, OldShape, Screen
<1> QED BY <1>5 DEF r

(* The data of a chart arrive, or fail to, and the thread goes on.         *)
LEMMA RenderChartGood ==
    ASSUME OldGood(old), NEW req \in DOMAIN old.net, NEW result, RenderChart(req, result)
    PROVE  OldGood(old')
<1> DEFINE w == Answer(req)
           f == Refreshed(w, req)
<1>1. req.kind \in {"thumbs", "groups", "main"}
  BY DEF RenderChart
<1>2. OldShape(w) /\ req.next \in {"callback", "hidden", "trigger"} /\ (w.late \/ Resting(w))
  BY <1>1, AnswerGood
<1>3. PICK x \in {Run(req.next, w), w, Run(req.next, f)} : old' = x \/ old' = OldFault(x)
  BY DEF RenderChart, Ends
<1> HIDE DEF w
<1>4. Like(w, f) /\ OldShape(f)
  BY <1>1, <1>2, RefreshedLike
<1> HIDE DEF f
<1>5. Continues(w, Run(req.next, w)) /\ Continues(f, Run(req.next, f))
  BY <1>2, <1>4, RunGood
<1>6. Continues(w, Run(req.next, f)) /\ Continues(w, w)
  <2>1. Continues(w, Run(req.next, f))
    BY <1>4, <1>5, LikeContinues, Zenon
  <2> QED BY <1>2, <2>1, Zenon DEF Continues, Single
<1>7. OldGood(x)
  BY <1>2, <1>3, <1>5, <1>6, ContinuesGood
<1> QED BY <1>3, <1>7, CountedGood, Zenon

(* The same for a hidden chart.                                            *)
LEMMA HiddenChartGood ==
    ASSUME OldGood(old), NEW req \in DOMAIN old.net, NEW result, HiddenChart(req, result)
    PROVE  OldGood(old')
<1> DEFINE w == Answer(req)
           m == [w.main EXCEPT !.hshown = TRUE, !.hdue = FALSE,
                               !.count = IF w.main.count > CleanEvery THEN w.main.count
                                         ELSE w.main.count + 1]
           s == [w EXCEPT !.main = m]
<1>1. req.kind = "hidden"
  BY DEF HiddenChart
<1>2. OldShape(w) /\ (w.late \/ Resting(w))
  BY <1>1, AnswerGood
<1>3. PICK x : /\ x = TriggerRefresh(w) \/ x = w \/ (w.main # Null /\ x = TriggerRefresh(s))
               /\ old' = x \/ old' = OldFault(x)
  BY DEF HiddenChart, Ends
<1> HIDE DEF w
<1>4. w.main # Null => "gen" \in DOMAIN m
  BY <1>2 DEF OldShape, Screen
<1>5. w.main # Null => m # Null
  BY <1>4, ScreenIsThere, Zenon
<1> HIDE DEF m
<1>6. /\ DOMAIN s = OldFields /\ s.timers = w.timers /\ s.net = w.net /\ s.late = w.late
      /\ s.mode = w.mode /\ s.main = m /\ s.group = w.group
  BY <1>2 DEF OldShape, OldFields
<1> HIDE DEF s
<1>7. w.main # Null => Like(w, s) /\ OldShape(s)
  BY <1>2, <1>4, <1>5, <1>6, Zenon DEF Like, OldShape, Screen
<1>8. Continues(w, TriggerRefresh(w)) /\ Continues(w, w)
  BY <1>2, TriggerRefreshGood DEF Continues, Single
<1>9. w.main # Null => Continues(w, TriggerRefresh(s))
  BY <1>7, TriggerRefreshGood, LikeContinues
<1>10. OldGood(x)
  BY <1>2, <1>3, <1>8, <1>9, ContinuesGood, Zenon
<1> QED BY <1>3, <1>10, CountedGood, Zenon

(* A timer fires: the thread is with the function it runs.                 *)
LEMMA FireGood ==
    ASSUME OldGood(old), NEW f \in {"trigger", "callback", "thumbs", "groups", "main"}, Fire(f)
    PROVE  OldGood(old')
<1> DEFINE b == Less(old.timers, f)
           r == [old EXCEPT !.timers = b]
<1>1. old' = Run(f, r) /\ f \in DOMAIN old.timers
  BY DEF Fire
<1>2. OldShape(old) /\ IsPending(old.timers)
  BY DEF OldGood, OldShape
<1>3. /\ IsPending(b) /\ DOMAIN b \subseteq DOMAIN old.timers
      /\ old.timers[f] = 1 => f \notin DOMAIN b
  <2> DEFINE n == old.timers
  <2>1. IsPending(n) /\ f \in DOMAIN n
    BY <1>1, <1>2
  <2> HIDE DEF n
  <2>2. LET q == Less(n, f)
        IN  IsPending(q) /\ DOMAIN q \subseteq DOMAIN n /\ (n[f] = 1 => f \notin DOMAIN q)
    BY <2>1, MinusOne
  <2> QED BY <2>2 DEF n
<1> HIDE DEF b
<1>4. /\ DOMAIN r = OldFields /\ r.net = old.net /\ r.timers = b /\ r.mode = old.mode
      /\ r.late = old.late /\ r.main = old.main /\ r.group = old.group
  BY <1>2, Zenon DEF OldShape, OldFields
<1> HIDE DEF r
<1>5. OldShape(r)
  BY <1>2, <1>3, <1>4 DEF OldShape
<1>6. ASSUME Single(old) PROVE Resting(r)
  <2>1. GoesOnWithThread(old) = {} /\ DOMAIN old.timers = {f} /\ old.timers[f] = 1
    BY <1>1, <1>6 DEF Single, Resting
  <2>2. DOMAIN b = {}
    BY <1>3, <2>1, Zenon
  <2> QED BY <1>4, <2>1, <2>2 DEF Resting, GoesOnWithThread
<1>7. r.late \/ Resting(r)
  BY <1>4, <1>6 DEF OldGood
<1>8. Continues(r, Run(f, r))
  BY <1>5, RunGood
<1> QED BY <1>1, <1>7, <1>8, ContinuesGood

(* Time alone begins no thread.                                            *)
LEMMA TimePassesGood ==
    ASSUME OldGood(old), MinutePasses \/ OtherDelays \/ \E i \in Indices : ThumbDue(i)
    PROVE  OldGood(old')
<1>1. OldShape(old)
  BY DEF OldGood
<1>2. Like(old, old')
  <2>1. CASE MinutePasses
    <3>1. /\ DOMAIN old' = OldFields /\ old'.timers = old.timers /\ old'.net = old.net
          /\ old'.late = old.late /\ old'.mode = old.mode /\ old'.main = old.main
          /\ old'.group = old.group
      BY <1>1, <2>1 DEF MinutePasses, OldShape, OldFields
    <3> QED BY <1>1, <3>1 DEF Like, OldShape
  <2>2. CASE MainDue
    <3> DEFINE m == [old.main EXCEPT !.due = TRUE, !.hdue = TRUE]
    <3>1. old.main # Null /\ old' = [old EXCEPT !.main = m]
      BY <2>2 DEF MainDue
    <3>2. "gen" \in DOMAIN m
      BY <1>1, <3>1 DEF OldShape, Screen
    <3> HIDE DEF m
    <3>3. m # Null
      BY <3>2, ScreenIsThere
    <3>4. /\ DOMAIN old' = OldFields /\ old'.timers = old.timers /\ old'.net = old.net
          /\ old'.late = old.late /\ old'.mode = old.mode /\ old'.main = m
          /\ old'.group = old.group
      BY <1>1, <3>1, Zenon DEF OldShape, OldFields
    <3> QED BY <1>1, <3>2, <3>3, <3>4 DEF Like, OldShape, Screen
  <2>3. CASE ScrollIsOver
    <3>1. /\ DOMAIN old' = OldFields /\ old'.timers = old.timers /\ old'.net = old.net
          /\ old'.late = old.late /\ old'.mode = old.mode /\ old'.main = old.main
          /\ old'.group = old.group
      BY <1>1, <2>3 DEF ScrollIsOver, OldShape, OldFields
    <3> QED BY <1>1, <3>1 DEF Like, OldShape
  <2>4. ASSUME NEW i \in Indices, GroupDue(i) PROVE Like(old, old')
    <3> DEFINE g == WithDue(old.group, i, TRUE)
    <3>1. old.group # Null /\ old' = [old EXCEPT !.group = g]
      BY <2>4 DEF GroupDue
    <3>2. "gen" \in DOMAIN g
      BY <1>1, <3>1 DEF OldShape, Screen, WithDue
    <3> HIDE DEF g
    <3>3. g # Null
      BY <3>2, ScreenIsThere
    <3>4. /\ DOMAIN old' = OldFields /\ old'.timers = old.timers /\ old'.net = old.net
          /\ old'.late = old.late /\ old'.mode = old.mode /\ old'.main = old.main
          /\ old'.group = g
      BY <1>1, <3>1 DEF OldShape, OldFields
    <3> QED BY <1>1, <3>2, <3>3, <3>4 DEF Like, OldShape, Screen
  <2>5. ASSUME NEW i \in Indices, ThumbDue(i) PROVE Like(old, old')
    <3>1. /\ DOMAIN old' = OldFields /\ old'.timers = old.timers /\ old'.net = old.net
          /\ old'.late = old.late /\ old'.mode = old.mode /\ old'.main = old.main
          /\ old'.group = old.group
      BY <1>1, <2>5 DEF ThumbDue, OldShape, OldFields
    <3> QED BY <1>1, <3>1 DEF Like, OldShape
  <2> QED BY <2>1, <2>2, <2>3, <2>4, <2>5 DEF OtherDelays
<1> QED BY <1>2, LikeIsGood

(* What an action of the user makes of the page before it is played.       *)
LEMMA ByUserGood ==
    ASSUME NEW w, OldGood(w), ByUser(w)
    PROVE  OldGood(old')
BY CountedGood DEF ByUser

(* The main chart is made due, and the page paused.                        *)
LEMMA RefreshIsDueLike ==
    ASSUME OldGood(old), old.mode = "main"
    PROVE  OldGood(RefreshIsDue(old)) /\ OldGood(PauseGraphs(RefreshIsDue(old)))
<1> DEFINE m == [old.main EXCEPT !.shown = FALSE, !.due = TRUE]
           r == RefreshIsDue(old)
           p == PauseGraphs(r)
<1>1. OldShape(old) /\ r = [old EXCEPT !.main = m] /\ p = [r EXCEPT !.refresh = "paused"]
  BY DEF OldGood, RefreshIsDue, PauseGraphs
<1>2. "gen" \in DOMAIN m
  BY <1>1 DEF OldShape, Screen
<1> HIDE DEF m
<1>3. m # Null
  BY <1>2, ScreenIsThere
<1> HIDE DEF r, p
<1>4. /\ DOMAIN r = OldFields /\ r.timers = old.timers /\ r.net = old.net /\ r.late = old.late
      /\ r.mode = old.mode /\ r.main = m /\ r.group = old.group
  BY <1>1 DEF OldShape, OldFields
<1>5. Like(old, r)
  BY <1>1, <1>2, <1>3, <1>4 DEF Like, OldShape, Screen
<1>6. /\ DOMAIN p = OldFields /\ p.timers = old.timers /\ p.net = old.net /\ p.late = old.late
      /\ p.mode = old.mode /\ p.main = m /\ p.group = old.group
  BY <1>1, <1>4 DEF OldFields
<1>7. Like(old, p)
  BY <1>1, <1>2, <1>3, <1>6 DEF Like, OldShape, Screen
<1>8. OldGood(r) /\ OldGood(p)
  BY <1>5, <1>7, LikeIsGood
<1> QED BY <1>8 DEF r, p

(* A change of the screen begins no second thread.                         *)
LEMMA ScreensGood ==
    ASSUME OldGood(old),
           InitMainChart \/ SwitchToThumbGraphs \/ \E family \in 0 .. OldFamilies - 1 :
               InitGroupGraphs(family)
    PROVE  OldGood(old')
<1>1. OldShape(old)
  BY DEF OldGood
<1>2. CASE InitMainChart
  <2> DEFINE n == NewMain(old.gen + 1)
             s == [old EXCEPT !.main = n, !.gen = old.gen + 1, !.mode = "main"]
  <2>1. ByUser(PlayGraphs(s))
    BY <1>2 DEF InitMainChart
  <2>2. "gen" \in DOMAIN n
    BY DEF NewMain
  <2> HIDE DEF n
  <2>3. n # Null
    BY <2>2, ScreenIsThere
  <2>4. /\ DOMAIN s = OldFields /\ s.timers = old.timers /\ s.net = old.net /\ s.late = old.late
        /\ s.mode = "main" /\ s.main = n /\ s.group = old.group
    BY <1>1, Zenon DEF OldShape, OldFields
  <2> HIDE DEF s
  <2>5. Like(old, s)
    BY <1>1, <2>2, <2>3, <2>4 DEF Like, OldShape, Screen, OldModes
  <2> QED BY <2>1, <2>5, LikeIsGood, PlayGraphsGood, ByUserGood
<1>3. CASE SwitchToThumbGraphs
  <2> DEFINE s == [old EXCEPT !.mode = "thumbs"]
  <2>1. ByUser(PlayGraphs(s))
    BY <1>3 DEF SwitchToThumbGraphs
  <2>2. /\ DOMAIN s = OldFields /\ s.timers = old.timers /\ s.net = old.net /\ s.late = old.late
        /\ s.mode = "thumbs" /\ s.main = old.main /\ s.group = old.group
    BY <1>1, Zenon DEF OldShape, OldFields
  <2> HIDE DEF s
  <2>3. Like(old, s)
    BY <1>1, <2>2 DEF Like, OldShape, OldModes
  <2> QED BY <2>1, <2>3, LikeIsGood, PlayGraphsGood, ByUserGood
<1>4. ASSUME NEW family, InitGroupGraphs(family) PROVE OldGood(old')
  <2> DEFINE g == GroupOf(family, old.gen + 1, old.thumbs)
             s == [old EXCEPT !.group = g, !.gen = old.gen + 1, !.mode = "groups"]
  <2>1. ByUser(PlayGraphs(s))
    BY <1>4, Zenon DEF InitGroupGraphs
  <2>2. "gen" \in DOMAIN g
    BY DEF GroupOf
  <2> HIDE DEF g
  <2>3. g # Null
    BY <2>2, ScreenIsThere
  <2>4. /\ DOMAIN s = OldFields /\ s.timers = old.timers /\ s.net = old.net /\ s.late = old.late
        /\ s.mode = "groups" /\ s.main = old.main /\ s.group = g
    BY <1>1, Zenon DEF OldShape, OldFields
  <2> HIDE DEF s
  <2>5. Like(old, s)
    BY <1>1, <2>2, <2>3, <2>4 DEF Like, OldShape, Screen, OldModes
  <2> QED BY <2>1, <2>5, LikeIsGood, PlayGraphsGood, ByUserGood
<1> QED BY <1>2, <1>3, <1>4

(* Nor does a button, a scroll, or the focus.                              *)
LEMMA ButtonsGood ==
    ASSUME OldGood(old),
           \/ SetMainChart \/ MainchartControlStateHandler \/ ButtonGlobalPlayPause
           \/ WindowResize \/ SetPresentation \/ \E off \in SUBSET {MainDiv, 0} : OnUserScroll(off)
           \/ \E on \in BOOLEAN : OldFocus(on)
    PROVE  OldGood(old')
<1>1. OldShape(old)
  BY DEF OldGood
<1>2. CASE SetMainChart
  BY <1>2, RefreshIsDueLike, ByUserGood DEF SetMainChart
<1>3. CASE MainchartControlStateHandler
  BY <1>3, RefreshIsDueLike, ByUserGood DEF MainchartControlStateHandler
<1>4. CASE ButtonGlobalPlayPause
  <2> DEFINE m == [old.main EXCEPT !.shown = FALSE, !.due = TRUE, !.hshown = FALSE, !.hdue = TRUE]
             s == [old EXCEPT !.main = m]
             p == [old EXCEPT !.refresh = "paused"]
  <2>1. \/ ByUser(p) \/ ByUser(PlayGraphs(old))
        \/ old.mode = "main" /\ ByUser(PlayGraphs(s))
    BY <1>4 DEF ButtonGlobalPlayPause, PauseGraphs
  <2>2. old.mode = "main" => "gen" \in DOMAIN m
    BY <1>1 DEF OldShape, Screen
  <2> HIDE DEF m
  <2>3. old.mode = "main" => m # Null
    BY <2>2, ScreenIsThere
  <2>4. /\ DOMAIN s = OldFields /\ s.timers = old.timers /\ s.net = old.net /\ s.late = old.late
        /\ s.mode = old.mode /\ s.main = m /\ s.group = old.group
    BY <1>1 DEF OldShape, OldFields
  <2>5. /\ DOMAIN p = OldFields /\ p.timers = old.timers /\ p.net = old.net /\ p.late = old.late
        /\ p.mode = old.mode /\ p.main = old.main /\ p.group = old.group
    BY <1>1 DEF OldShape, OldFields
  <2> HIDE DEF s, p
  <2>6. old.mode = "main" => Like(old, s)
    BY <1>1, <2>2, <2>3, <2>4, Zenon DEF Like, OldShape, Screen
  <2>7. Like(old, p)
    BY <1>1, <2>5 DEF Like, OldShape
  <2>8. OldGood(p) /\ (old.mode = "main" => OldGood(s))
    BY <2>6, <2>7, LikeIsGood
  <2>9. OldGood(PlayGraphs(old)) /\ (old.mode = "main" => OldGood(PlayGraphs(s)))
    BY <2>8, PlayGraphsGood
  <2> QED BY <2>1, <2>8, <2>9, ByUserGood
<1>5. CASE WindowResize \/ SetPresentation
  <2> DEFINE s == [old EXCEPT !.resize = TRUE]
  <2>1. ByUser(s) \/ ByUser(PlayGraphs(s))
    BY <1>5 DEF WindowResize, SetPresentation
  <2>2. /\ DOMAIN s = OldFields /\ s.timers = old.timers /\ s.net = old.net /\ s.late = old.late
        /\ s.mode = old.mode /\ s.main = old.main /\ s.group = old.group
    BY <1>1 DEF OldShape, OldFields
  <2> HIDE DEF s
  <2>3. OldGood(s)
    <3>1. Like(old, s)
      BY <1>1, <2>2 DEF Like, OldShape
    <3> QED BY <3>1, LikeIsGood
  <2>4. OldGood(PlayGraphs(s))
    BY <2>3, PlayGraphsGood
  <2> QED BY <2>1, <2>3, <2>4, ByUserGood
<1>6. ASSUME NEW off, OnUserScroll(off) PROVE OldGood(old')
  <2> DEFINE s == [old EXCEPT !.scroll = "recent", !.off = off]
  <2>1. ByUser(s)
    BY <1>6, Zenon DEF OnUserScroll
  <2>2. /\ DOMAIN s = OldFields /\ s.timers = old.timers /\ s.net = old.net /\ s.late = old.late
        /\ s.mode = old.mode /\ s.main = old.main /\ s.group = old.group
    BY <1>1 DEF OldShape, OldFields
  <2> HIDE DEF s
  <2>3. Like(old, s)
    BY <1>1, <2>2 DEF Like, OldShape
  <2> QED BY <2>1, <2>3, LikeIsGood, ByUserGood
<1>7. ASSUME NEW on, OldFocus(on) PROVE OldGood(old')
  <2> DEFINE s == [old EXCEPT !.visible = on]
  <2>1. ByUser(s)
    BY <1>7 DEF OldFocus
  <2>2. /\ DOMAIN s = OldFields /\ s.timers = old.timers /\ s.net = old.net /\ s.late = old.late
        /\ s.mode = old.mode /\ s.main = old.main /\ s.group = old.group
    BY <1>1 DEF OldShape, OldFields
  <2> HIDE DEF s
  <2>3. Like(old, s)
    BY <1>1, <2>2 DEF Like, OldShape
  <2> QED BY <2>1, <2>3, LikeIsGood, ByUserGood
<1> QED BY <1>2, <1>3, <1>4, <1>5, <1>6, <1>7

(* Nor does turning a chart off.                                           *)
LEMMA DisableChartGood ==
    ASSUME OldGood(old), NEW i, DisableChart(i)
    PROVE  OldGood(old')
<1> DEFINE g == [old.group EXCEPT !.charts[i].closing = TRUE]
           s == [old EXCEPT !.group = g, !.resize = TRUE]
           t == [old EXCEPT !.thumbs[i].closing = TRUE, !.resize = TRUE]
<1>1. OldShape(old)
  BY DEF OldGood
<1>2. (old.mode = "groups" /\ ByUser(s)) \/ ByUser(t)
  BY DEF DisableChart
<1>3. old.mode = "groups" => "gen" \in DOMAIN g
  BY <1>1 DEF OldShape, Screen
<1> HIDE DEF g
<1>4. old.mode = "groups" => g # Null
  BY <1>3, ScreenIsThere
<1>5. /\ DOMAIN s = OldFields /\ s.timers = old.timers /\ s.net = old.net /\ s.late = old.late
      /\ s.mode = old.mode /\ s.main = old.main /\ s.group = g
  BY <1>1 DEF OldShape, OldFields
<1>6. /\ DOMAIN t = OldFields /\ t.timers = old.timers /\ t.net = old.net /\ t.late = old.late
      /\ t.mode = old.mode /\ t.main = old.main /\ t.group = old.group
  BY <1>1 DEF OldShape, OldFields
<1> HIDE DEF s, t
<1>7. old.mode = "groups" => Like(old, s)
  BY <1>1, <1>3, <1>4, <1>5, Zenon DEF Like, OldShape, Screen
<1>8. Like(old, t)
  BY <1>1, <1>6 DEF Like, OldShape
<1> QED BY <1>2, <1>7, <1>8, LikeIsGood, ByUserGood

(* Every step of the old page keeps the invariant.                         *)
LEMMA OldStepGood ==
    ASSUME OldGood(old), OldNext
    PROVE  OldGood(old')
<1>1. CASE Answers
  BY <1>1, LoadChartsGood, RenderChartGood, HiddenChartGood, Zenon DEF Answers
<1>2. CASE Fires
  BY <1>2, FireGood DEF Fires
<1>3. CASE Watch
  <2>1. CASE CheckRefreshThread
    BY <2>1, RestartGood DEF CheckRefreshThread, OldGood
  <2> QED BY <1>3, <2>1, TimePassesGood DEF Watch
<1>4. CASE OtherDelays \/ \E i \in Indices : ThumbDue(i)
  BY <1>4, TimePassesGood
<1>5. CASE UserOfOld
  BY <1>5, ScreensGood, ButtonsGood, DisableChartGood DEF UserOfOld
<1> QED BY <1>1, <1>2, <1>3, <1>4, <1>5 DEF OldNext

=============================================================================
