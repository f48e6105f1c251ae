CONSTANTS
    c1 = c1  i1 = i1  i2 = i2  main = main  dev = dev  here = here  there = there
    bot = bot  dingtalk = dingtalk  wecom = wecom  extra = extra
    None = None
    Changes = {c1}
    Importers = {i1, i2}
    Channels <- ChannelOrder
    Calendar <- Midnight
    Scenes <- SomeScenes
SPECIFICATION Spec
INVARIANTS TypeOK  ImportsAreExact MinutesAreServed 
CHECK_DEADLOCK FALSE
