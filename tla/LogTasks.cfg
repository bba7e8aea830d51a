\* Two clients that ask for a task while it ends, expires and is swept.
CONSTANTS
    t1 = t1
    c1 = c1
    c2 = c2
    Tasks = {t1}
    Clients = {c1, c2}
    TTL = 2
    Never = Never
    Idle = Idle
SPECIFICATION HFairSpec
INVARIANTS KeptForItsTime Inv AnswersWereTrue
PROPERTIES TasksLeave
