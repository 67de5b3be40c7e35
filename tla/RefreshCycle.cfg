SPECIFICATION Spec
CONSTANTS
  plain = plain
  aborted = aborted
  Nil = Nil
  MaxLeaves = 3
  MinSet = 1
  Plain = {plain}
  Aborted = {aborted}
  Others = {3}
  Listed = {3}
  MaxTriggers = 2
  MaxFaults = 1

  
PROPERTIES
  PublishedGrows
  EveryLeafIsPublished
CHECK_DEADLOCK FALSE
