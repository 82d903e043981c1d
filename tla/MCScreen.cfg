SPECIFICATION FairSpec
CONSTANTS
    Cards = {c1, c2}
    Known = {c1}
    Empty = Empty
INVARIANTS StatusFitsCount CardWasGranted
PROPERTIES ConnectedIsShown
