SPECIFICATION Spec
CONSTANTS
  Proc = {p1, p2}
  Arg <- CommandLines
  Atoi <- Words
  MAX_LISTS = 1
  Capacity = 3
  Stale = 99
  Nobody = Nobody
INVARIANTS TypeOK
PROPERTIES ImplementsTwoLists
