CONSTANTS
    Machines = {m1, m2}
    m1 = m1
    m2 = m2
    Tickets = {t1, t2}
    t1 = t1
    t2 = t2
    building = building
    qa = qa
    done = done
    Lanes = {building, qa, done}
    Ideas = building
    DoneLanes = {done}
    None = None
    LastStage <- MCLastStage
    Worlds <- LateEditWorlds
SPECIFICATION Spec
INVARIANT UnchangedIsConverged
