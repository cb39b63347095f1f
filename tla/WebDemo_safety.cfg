SPECIFICATION FairSpec
CONSTANTS
    Boards <- TestBoards
    Watched <- TestReadings
    MaxBoots = 2
INVARIANTS EveryChipScheduled OffShowsNothing SettingsAreSaved
PROPERTIES SampledForEver
