CONSTANTS
    k1 = k1
    k2 = k2
    c1 = c1
    c2 = c2
    r1 = r1
    r2 = r2
    Conns = {k1, k2}
    Clients = {c1, c2}
    Owner <- TwoOwners
    Topics <- EventTopics
    Requests = {r1, r2}
    Asker <- OneEach
    Tasks = {t1, t2}
    Devices = {d1, d2}
    Renderers = {d1}
    None = None
SPECIFICATION Spec
INVARIANT StillSubscribed
