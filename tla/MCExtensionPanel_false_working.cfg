\* The header while requests of this browser fail.
SPECIFICATION Spec
CONSTANTS
    NoRun = NoRun  r1 = r1  r2 = r2
    Worker = Worker  Panel = Panel  u1 = u1  u2 = u2  u3 = u3  NoId = NoId
    Outside = Outside  NoLabel = NoLabel  None = None  Us = Us
    Runs = {r1, r2}
    MaxRounds = 2
    MaxAsks = 2
    Elements <- MCElements
    Handlers = {1, 2}
    MaxFields = 2
    Asked = {"click_element", "fill_form", "snapshot", "navigate", "list_tabs", "take_screenshot"}
    Ids = {u1, u2, u3}
    MaxFailures = 1
    Bridges = {b1}
    b1 = b1
    MaxNews = 2
    Scenes <- MCStorms
CHECK_DEADLOCK FALSE
PROPERTY FailureIsNotWorking
