SPECIFICATION FairSpec
CONSTANTS
    Proc = {p1, p2}
    Session = {s1, s2}
    MaxCrashes = 1
INVARIANTS UnlistedOnlyByRace MessagesHaveMeta
PROPERTIES OrphansGo
