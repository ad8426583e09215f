CONSTANTS
    w1 = w1
    w2 = w2
    r1 = r1
    r2 = r2
    v1 = v1
    v2 = v2
    Writers <- TwoWriters
    Readers <- TwoReaders
    Values <- TwoValues
    Length = 2
    MaxKills = 3
    None = None
    Cases = {1, 2}
    Local = 3
    Copying = {TRUE}
    MaxEvents = 2
    MaxHarm = 1
    Hour = 1
    LastInstant = 3
    MaxNotes = 2
    MaxLapses = 2
    Benchmarks = {1, 2, 3}
    Bodies = {"a", "b"}
    SoundBodies = {"a", "b"}
    Packs = {1}
    Budgets = {3, 4}
    Extensions = {1, 2}
    Revisions <- TwoRevisions
    Absent = Absent
    Empty = Empty
    MaxAims = 1
    Artifacts = 1
    SizeBytes = 2
    Longest = 3
    NoFile = NoFile
    NotRegular = NotRegular
    MaxWrites = 3
SPECIFICATION StoresSpec
INVARIANTS TipFollowsRows ReadersSeeTheCommitted ReceiptsStand ProblemsAreReported
    AnswersAreOneRevision VerdictsWereTrue
PROPERTY ImplementsCommitLog
