SPECIFICATION Spec
CONSTANTS
    Workers = {w1, w2}
    Teams = {1, 2}
    Players = {}
    Modes = {"TEAM"}
    MaxRounds = 1
    MaxScores = 0
    Timed = TRUE
    Ops = {"startGame", "startFirstRound", "startNextRound", "endCurrentRound", "nextTurn", "cancelGame", "update"}
    None = None
    Undef = Undef
PROPERTIES NoTurnAfterCancel
