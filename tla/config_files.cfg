CONSTANTS
  a = a
  b = b
  Host = {a, b}
  Export <- Names
  Files <- Small
  MaxLen = 2
SPECIFICATION Spec
INVARIANTS
  TypeOK
  PartnersAgree
  WildOnlyIfUneven
CHECK_DEADLOCK FALSE
