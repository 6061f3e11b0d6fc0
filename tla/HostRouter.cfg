SPECIFICATION Spec
CONSTANTS
  Suites <- MCSuites
  CoreCounts <- MCCoreCounts
INVARIANTS
  AnnouncedRouteIsTaken
  MoreCoresKeepParallel
