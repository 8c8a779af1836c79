SPECIFICATION TrackingSpec
CONSTANTS
  here = here
  there = there
  unknown = unknown
  Missing = Missing
  Repositories <- MCRepositories
  Directories <- MCDirectories
  Unknown = unknown
  MaxCandidates = 2
  Rank <- MCRank
  Fold <- MCFold
  NoticeNames <- MCNoticeNames
  Chunks <- MCChunks
  UnsafeNames = {}
  Portable <- MCPortable
  MaxEntries = 7
  MaxBytes = 8
  Worlds <- MCWorlds
  Links = {"codex"}
  Contents <- MCContents
  Documents <- MCDocuments
  MaxChanges = 2
  MaxFaults = 1
INVARIANTS
  PreviewStandsAfterFetch
  ProposalIsSound
  VerdictIsTrue
PROPERTIES
  ManifestIsWhole
  AdoptionIsFounded
\* Others may have nothing left to do, and a skill be neither adopted nor adoptable.
CHECK_DEADLOCK FALSE
