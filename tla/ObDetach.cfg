\* Two threads, two named objects, two handles.
CONSTANTS
    ta = ta
    tb = tb
    oa = oa
    ob = ob
    ha = ha
    hb = hb
    NoObject = NoObject
    Thread = {ta, tb}
    Object = {oa, ob}
    Handle = {ha, hb}
    Attributes <- Named
SPECIFICATION Spec
INVARIANTS DetachedOnce
