SPECIFICATION Spec
CONSTANTS
    Threads = {"t1", "t2"}
    Watchers = {"rd", "wr"}
    RdWatcher = "rd"
    NumTags = 2
    MaxCC = 2
    AfuCC = {1, 2}
    Limit = 1
    Wrap = 16
    PageBytes = 2
    RangesOf <- Ranges
    AtcPages = {6}
    AfuOfPage <- FirstAfu
    MaxUnmaps = 1
    MaxTraffic = 2
INVARIANTS CompletionsAccepted MsgFramed StaleDropped
