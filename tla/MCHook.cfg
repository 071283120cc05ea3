CONSTANTS
  s1 = s1
  s2 = s2
  make = make
  makeTest = makeTest
  job = job
  secret = secret
  Shell <- MCShell
  KindOf <- MCKindOf
  Text <- MCText
  NoText = NoText
  Nothing = Nothing
  OwnHook = OwnHook
  NoSession = NoSession
  NoID = NoID
  Line <- MCLine
  StartsWith <- MCStartsWith
  Background = {job}
  HistControl <- MCHistControl
  MaxCycle <- MCMaxCycle
  Conditions = {"nested"}
SPECIFICATION Spec
CHECK_DEADLOCK FALSE
INVARIANTS
  TypeOK
  EndReportsItsCommand
  RunsAreRecorded
  OnlyRunsAreRecorded
