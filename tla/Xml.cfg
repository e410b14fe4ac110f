SPECIFICATION Spec
CONSTANTS
    Names = {"a", "b", "version"}
    Tags = {"a", "b"}
    Chars = {"x", "&amp;", "#x41;"}
    Keys = {"version"}
    MaxLen = 15
    MaxItems = 3
INVARIANTS ReadsWhatIsMeant CutIsNoticed PrintsBack
CHECK_DEADLOCK FALSE
