SPECIFICATION FairSpec
CONSTANTS
  Ann = Ann
  Bob = Bob
  People <- PeopleDef
  Tokens <- TokensDef
  Service = Service
  MaxEvents = 4
  None = None
INVARIANTS
  ReviewersKept
PROPERTIES
  InTheirName
  CoreConverges
CHECK_DEADLOCK FALSE
