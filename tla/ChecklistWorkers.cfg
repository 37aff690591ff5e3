\* A request and a message at a time: up to three commands of all sorts overlap.
SPECIFICATION Spec
CONSTANTS
  l1 = l1
  l2 = l2
  t1 = t1
  t2 = t2
  Lists = {l1, l2}
  Rows = {t1, t2}
  HttpWorkers = {http}
  RadioWorkers = {radio}
  Requests <- AllSorts
  MaxCommands = 3
INVARIANTS
  TypeOK
  ListsAgree
  
PROPERTIES
  ChangesAreKept
CHECK_DEADLOCK FALSE
