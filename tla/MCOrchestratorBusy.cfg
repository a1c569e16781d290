CONSTANTS
    Jids = {ann, bob}
    Workers = {w1, w2}
    Restarters = {r1}
    Main = Main
    Loops = {l1, l2}
    None = None
SPECIFICATION Spec
INVARIANTS
    AlwaysFollowsSubscribers
