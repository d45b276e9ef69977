SPECIFICATION Spec
CONSTANTS
    Handlers = {h1}
    Players = {p1, p2, p3}
    Games = {g1, g2}
    Teams = {t1, t2, t3}
    MinTeams = 2
    MaxTeams = 3
    Preferred = 3
    Demand <- MCDemand
    Ops = {"create", "clear", "rebalance", "shuffle", "manual", "swap", "dissolve", "reassign", "add", "update", "fail"}
    None = None
INVARIANTS TypeOK PlacedFairly FormedAsPlaced OneTeamEach
PROPERTIES NobodyDropped
SYMMETRY Symmetry
