SPECIFICATION Spec
CONSTANTS
    Handlers = {h1, h2, h3}
    Sockets = {s1, s2, s3}
    Ops = {"setStatus", "remove", "restart"}
    None = None
    Undef = Undef
INVARIANTS TypeOK OneGraceTimer
SYMMETRY Symmetry
