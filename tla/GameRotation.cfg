SPECIFICATION FairSpec
CONSTANTS
    Workers = {w1}
    Teams = {1, 2, 3}
    Players = {}
    Modes = {"TEAM"}
    MaxRounds = 2
    MaxScores = 1
    Timed = TRUE
    Ops = {"startGame", "startFirstRound", "startNextRound", "endCurrentRound", "pauseGame", "resumeGame", "submitScore", "nextTurn", "completeGame", "cancelGame", "update"}
    None = None
    Undef = Undef
PROPERTIES TurnsGoRound CompletionReachesHistory
