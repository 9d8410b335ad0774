\* Four users of three blocks; the cache grows and shrinks while waits are interrupted.
CONSTANTS
    ta = ta
    tb = tb
    tc = tc
    td = td
    bx = bx
    by = by
    bz = bz
    p1 = p1
    p2 = p2
    p3 = p3
    Resizer = Resizer
    NoBlock = NoBlock
    NoPage = NoPage
    NoRequest = NoRequest
    User = {ta, tb, tc, td}
    Page = {p1, p2, p3}
    Block = {bx, by, bz}
    Request <- TwoPairs
    InitialSize = 2
    Size = {0, 1, 3}
    IoFails = TRUE
    KernelApcs = TRUE
SPECIFICATION FscSpec
INVARIANTS ElementsAccounted NoLostWakeup Coherent
SYMMETRY Symmetry
