SPECIFICATION SideSpec
CONSTANTS
  Letters = {a}
  Wide = {w}
  NewLines = {n}
  Garbled = garbled
  MaxSize = 4
  MaxLines = 3
  DefaultLines = 2
  NoFile = noFile
  Nothing = nothing
  Members = {m1, m2}
  Runs = {t1, t2}
  Unset = unset
  NoDemand = noDemand
  Fault = fault
SYMMETRY Alike
INVARIANTS
  TypeOK
  AnswersOneMoment
  TasksTypeOK
  ListsWhatRuns
  StatusWasTrue
  ExecutedOrThrown
