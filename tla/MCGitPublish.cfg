SPECIFICATION Spec
CONSTANTS
    o1 = o1
    o2 = o2
    Nil = Nil
    Refs = {main, dev}
    Oids = {o1, o2}
    Pushes = {p1, p2}
    Announces = {a1, a2}
    Main = main
    Reach <- Line
    Starts <- Lives
    MaxPacks = 2
    CompactAt = 2
INVARIANTS StoreInv AnswersSettle
PROPERTIES PushesAreAtomic NeverReinstalled
CHECK_DEADLOCK FALSE
SYMMETRY Symmetry
VIEW View
