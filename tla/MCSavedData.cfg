SPECIFICATION FairSpec
CONSTANTS
  Parts = {map, players}
  Shipped = {shipped}
  Played = {played}
  Archived = {archived}
  MaxFailures = 2
INVARIANTS
  NothingLost
  PublishedWhole
PROPERTIES
  ReturnsLinked
  MigrationCompletes
