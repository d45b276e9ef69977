SPECIFICATION Spec
CONSTANTS
    Games = {g1, g2}
    TeamGames = {g1}
    Teams = {t1, t2, t3}
    Players = {p1, p2}
    Ids = {i1, i2}
    Points <- MCPoints
    MaxRounds <- MCMaxRounds
    MaxAway = 1
    MaxResults = 1
    None = None
INVARIANTS TypeOK RankedFairly BoardAddsUp WinsAreEarned
SYMMETRY Symmetry
