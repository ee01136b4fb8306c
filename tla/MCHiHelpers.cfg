SPECIFICATION Spec
CONSTANTS
    NaN = NaN
    Reading = {0, 1, 2, 3}
    Delta = 2
    MaxGap = 5
    Period = 2
    Seconds = 16
    Key <- MCKey
    Texts <- MCTexts
    Sizes <- MCSizes
INVARIANTS
    Tracks
    SentInWindow
    Reveals
