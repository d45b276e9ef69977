SPECIFICATION Spec
CONSTANTS
    Workers = {w1}
    Teams = {1, 2}
    Players = {3, 4}
    Modes = {"TEAM", "INDIVIDUAL"}
    MaxRounds = 2
    MaxScores = 0
    Timed = TRUE
    Ops = {"startGame", "forceStartGame", "startFirstRound", "startNextRound", "endCurrentRound", "pauseGame", "resumeGame", "nextTurn", "completeGame", "cancelGame", "update", "resetGame", "submitScore", "createScore", "delete", "deleteScore", "moveTeam", "deleteTeam", "presence", "restart", "dbError"}
    None = None
    Undef = Undef
INVARIANTS TimerOnlyWhileActive
