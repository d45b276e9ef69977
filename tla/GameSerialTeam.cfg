SPECIFICATION Spec
CONSTANTS
    Workers = {w1}
    Teams = {1, 2}
    Players = {}
    Modes = {"TEAM"}
    MaxRounds = 2
    MaxScores = 1
    Timed = TRUE
    Ops = {"startGame", "forceStartGame", "startFirstRound", "startNextRound", "endCurrentRound", "pauseGame", "resumeGame", "nextTurn", "completeGame", "cancelGame", "update", "resetGame", "cancelSession", "submitScore", "createScore", "delete", "deleteScore", "moveTeam", "deleteTeam", "presence", "restart", "dbError"}
    None = None
    Undef = Undef
INVARIANTS TimerIsOfCurrentTurn CompletionIsRecorded
PROPERTIES ImplementsLifecycle
