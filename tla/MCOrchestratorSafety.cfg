CONSTANTS
    Jids = {ann, bob}
    Workers = {w1, w2, w3}
    Restarters = {r1}
    Main = Main
    Loops = {l1, l2}
    None = None
SPECIFICATION Spec
SYMMETRY Symmetric
INVARIANTS
    TypeOK
    AtMostOneLoop
    FollowsSubscribers
