SPECIFICATION Spec
CONSTANTS
    Gids = {g1, g2}
    Roots = {r0, r1}
    Zero = r0
    Seeds = {s1, s2, s3}
    HMaxes = {1}
    Ttls = {1, 2}
    RhoLimit = 2
SYMMETRY Symmetry
INVARIANTS
    IndexExact
    TicketAvailable
    TicketMergeable
    GuardCoversJoins
