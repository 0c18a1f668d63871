SPECIFICATION Spec
CONSTANTS
    p1 = p1
    p2 = p2
    mx = mx
    mg = mg
    alice = alice
    Calls = {p1, p2, mx, mg}
    Kind <- KindM
    Amount <- AmountM
    Fee <- FeeM
    To <- ToM
    Coins = {1, 2, 3, 4, 5}
    Reported <- ReportedM
    Real <- RealM
    Answers <- AnswersM
    Coinbase = {5}
    MaxInputs = 2
    MaxRounds = 2
    SkipMax = 2
    MaxFee = 20
    CapFloor = 3
    Zero = zero
    MaxAsks = 3
    MaxRestarts = 1
CHECK_DEADLOCK FALSE
INVARIANTS EngineInv MaxIsReal
PROPERTY PromiseKept
