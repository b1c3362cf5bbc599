\* every part of the portal, with two of whatever can interfere
CONSTANTS
  Parts = {"old", "storage", "legend", "alarms", "registry", "libraries", "scale", "gauge", "resize", "math", "format", "server"}
  OldCharts = 2
  OldFamilies = 2
  CleanEvery = 1
  OldActs = 2
  OldFaults = 1
  Tabs = {1, 2}
  StoreActs = 4
  StoreFaults = 1
  NDims = 3
  KnownDims = 2
  ThemeColors = 2
  PageColors = 1
  AlarmIds = {1, 2}
  LogLength = 2
  PollEvery = 3
  LogRequests = 2
  AlarmReloads = 1
  AlarmFaults = 1
  Machines = {1, 2}
  Persons = {1, 2}
  RegistryActs = 1
  RegistryFaults = 1
  LibCharts = {1, 2}
  Libraries = {"peity", "morris", "raphael", "google"}
  LibRequests = 3
  LibFaults = 1
  Lines = {1, 2}
  Dials = {3}
  MaxValue = 2
  Zero = 1
  NewValues = 2
  GaugeRows = {1, 2}
  GaugeValues = {1, 2}
  GaugeTimers = {1, 2, 3}
  Handles = {1}
  MaxHeight = 3
  MinDrag = 2
  MathRange = 4
  MaxPoints = 130
  MaxScreen = 6
  FormatCharts = {1, 2}
  FormatNumbers = {1, 101, 10001, 100001}
  FormatDetail = 8
  Connections = {1, 2}
  Names = {1, 2}
  Emails = {1, 2}
  WebActs = 9
SPECIFICATION Spec
INVARIANT OneThread
INVARIANT SavedIsUsed
INVARIANT ResetWorks
 
INVARIANT NotifiedOnce
INVARIANT MachinesAreTrue
INVARIANT LoadingIsSound
INVARIANT NothingIsCutOff
INVARIANT NeedleAgrees
INVARIANT DragFollows
INVARIANT NumbersAreRight
INVARIANT RegisteredIsKept
INVARIANT LoginIsSound
CHECK_DEADLOCK FALSE
