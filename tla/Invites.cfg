SPECIFICATION Spec
CONSTANTS
    Handlers = {h1}
    Links = {l1}
    MaxInvites = 2
    Names = {n1}
    Emails = {e1}
    MaxPlus = 1
    Ops = {"create", "rsvp", "self", "remove", "walkin", "join", "checkin", "cron", "night", "fail"}
    Overlapping = {"checkin", "join", "walkin", "link"}
    None = None
INVARIANTS TypeOK PlusOnesOnlyGoing
PROPERTIES SelfRsvpOnce RemindedOnce LinkKept
