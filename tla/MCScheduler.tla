---------------------------- MODULE MCScheduler ----------------------------
EXTENDS Scheduler
Entry(bm, extra, start, end, record) ==
    [bm |-> bm, extra |-> extra, start |-> start, end |-> end, gap |-> None,
     record |-> record, exclusive |-> FALSE]
Satellite(record) ==
    [enabled |-> TRUE,
     entries |-> <<[name |-> "noaa", norad |-> 1, bm |-> "c", extra |-> {}, min |-> 5,
                    priority |-> 1, record |-> record]>>]
Spans ==
    [mode |-> "timespan", gap |-> None, grayline |-> None, sats |-> Satellite(TRUE),
     entries |-> <<Entry("a", {}, 0, 2, TRUE), Entry("b", {"a"}, 2, 0, FALSE)>>]
OnlySatellites ==
    [mode |-> "disabled", gap |-> None, grayline |-> None, sats |-> Satellite(FALSE),
     entries |-> <<>>]
MCConfigs == {Spans, OnlySatellites}
MCPasses == <<[norad |-> 1, aos |-> 1, los |-> 1, elevation |-> 30]>>
=============================================================================
