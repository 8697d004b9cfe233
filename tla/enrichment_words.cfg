\* The window's audio is stitched without its pauses.
SPECIFICATION Spec
CONSTANTS
    r1 = r1
    r2 = r2
    r3 = r3
    SoundsOf <- Sounds
    Silence = "none"
    VoiceOf <- Voice
    Roster = {"dylan", "alex"}
    Identified <- Recognised
    Nobody = "nobody"
    Enrolled = {"dylan", "alex"}
    Likeness <- Alike
    MinSpeech = 2
    Threshold = 70
    Margin = 15
    Batch <- Batches
    Run <- Runs
    VersionOf <- Version
    Cutoff = {0, 8}
    FixedWindow = 18
    MaxFaults = 1
INVARIANTS
    OwnWords
CHECK_DEADLOCK FALSE
