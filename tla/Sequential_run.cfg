\* Plans and reports of three lines; batches that are full, due and asked for,
\* before and after a sink that raises; a file with an earlier buffer's lines, one
\* that rotates, one with an entry above its size, and one that is written in part.
CONSTANTS
    MaxText = 3
    MaxChars = 40
    Files <- MCFiles
    Environments <- MCEnvironments
    Lower <- MCLower
    Strip <- MCStrip
    ProviderNames = {"anthropic", " anthropic", "Anthropic", "openrouter", "typo"}
    Modes = {"", " ", "api_key", " api_key", "API_KEY", "login"}
    ModelNames = {"anthropic-default"}
    KeyTexts = {"key of the environment"}
    Specs <- MCSpecs
    Known <- MCKnown
    Interval = 2
    MaxBatch = 2
    MaxLines = 2
    CapBytes = 5
    Bytes <- MCBytes
    MaxEarlier = 2
    MaxPushes = 6
    MaxTime = 4
    MaxAppends = 8
SPECIFICATION SequentialSpec
INVARIANTS
    PlanSound
    EvidenceExact
    CallsBounded
    SettingsAgree
    BatchesKept
    LinesKept
CHECK_DEADLOCK FALSE
