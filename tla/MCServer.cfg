SPECIFICATION Spec
CONSTANTS
  Tabs = {t1, t2}
  Sources = {s1, s2}
  Window = 2
  MaxStreams = 2
INVARIANTS
  TypeOK
  OnlyFailuresReconnect
  CleanStopDelivers
PROPERTIES
  HandlersEnd
  StopsWhenTold
