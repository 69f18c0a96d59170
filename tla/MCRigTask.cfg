SPECIFICATION Spec
CONSTANTS
    Tunings = {t0, t1}
    Initial = t0
    Offered = {"tune", "ptt", "power", "lock", "toggle", "snapshot", "decoder", "filter", "center"}
    VfoPrime = {TRUE, FALSE}
INVARIANTS
    MirrorUnlessTorn
    NeverSilentlyKeyed
    OffUntilAsked
PROPERTIES
    PttSeenByCommandOnly
    ShownAsItIs
    BackToSelect
CHECK_DEADLOCK FALSE
