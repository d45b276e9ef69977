SPECIFICATION Spec
CONSTANTS
    Handlers = {h1, h2}
    Players = {p1, p2}
    Games = {g1, g2}
    Teams = {t1}
    Names = {n1, n2}
    Libs = {l1, l2}
    Codes = {c1}
    Ops = {"start", "complete", "cancel", "update", "code", "removeSession", "addGames", "removeGame", "applyPlan", "play", "team", "join", "enrol", "player", "rename", "removePlayer", "kick", "fail"}
    Overlapping = {"join", "enrol", "play"}
    None = None
INVARIANTS TypeOK NoLibraryTwice MembersBelong JoinAnswered
PROPERTIES ImplementsLife StartedTogether PlayersStay
CHECK_DEADLOCK FALSE
SYMMETRY Symmetry
