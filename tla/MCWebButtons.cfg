CONSTANTS
    Channels = {c1, c2}
    MaxHides = 3
    motion = motion
    rec0 = rec0
    beat = beat
    fast = fast
    Toggles = {motion}
    Kinds = {"prudynt", "wireguard", "daynight", "audio", "imp"}
    Numeric = {}
    Recorders = {rec0}
    Sources = {beat}
    Carries <- MCCarries
    MaxClicks = 2
    MaxChanges = 1
    Hold = 2
    Net = 3
    MaxPpClicks = 3
    Settings = {s0, s1, s2}
    s0 = s0
    s1 = s1
    s2 = s2
    Defaults = s0
    MaxTlClicks = 2
    MaxTlSaves = 1
SPECIFICATION MCSpec
INVARIANTS ChannelInv BarInv TimelapseInv
PROPERTIES GateImplemented ChannelsReturn BarSettles PrivacyButtonReturns NoFlickerBack
CHECK_DEADLOCK FALSE
