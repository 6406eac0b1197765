SPECIFICATION EndsSpec
PROPERTIES
  EveryJobEnds
