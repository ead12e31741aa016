CONSTANTS
    NoFile = NoFile
    NaN = NaN
    None = None
    Files <- MCFiles
    Sessions = {s1, s2, s3}
    Taken = {65533}
    Ephemeral = {32768, 32769, 65535}

SPECIFICATION FairSpec

INVARIANTS
    ConfigWhole
    SettingsValid
    NeverRefused
    ToldIsListening

PROPERTY SearchEnds
