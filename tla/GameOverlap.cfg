SPECIFICATION Spec
CONSTANTS
    Workers = {w1, w2}
    Teams = {}
    Players = {1}
    Modes = {"INDIVIDUAL"}
    MaxRounds = 2
    MaxScores = 1
    Timed = FALSE
    Ops = {"forceStartGame", "startFirstRound", "startNextRound", "endCurrentRound", "pauseGame", "resumeGame", "submitScore", "completeGame", "cancelGame", "deleteScore", "delete", "restart"}
    None = None
    Undef = Undef
INVARIANTS TypeOK RoundMatchesStatus CompletedHasResults
PROPERTIES HistoryNeverRewritten
SYMMETRY Symmetry
