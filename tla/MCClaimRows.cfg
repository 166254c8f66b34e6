CONSTANTS
    fa = fa
    fb = fb
    fc = fc
    fd = fd
    fm = fm
    o1 = o1
    o2 = o2
    n1 = n1
    n2 = n2
    None = None
    Facts = {fa, fb, fc, fd, fm}
    Metadata = {fm}
    SamePairs <- Copies
    AlikePairs <- Pairs
    Outcomes <- TwoOutcomes
    Found <- TwoFound
    Priors = {85}
    MaxClaims = 4
SPECIFICATION Spec
INVARIANTS
    MergeIsExact
    RowsDescribeUnshifted
    ResumeSeesSameClaims
CHECK_DEADLOCK FALSE
