CONSTANTS
    v1 = v1
    MaxViews = 2
    MaxOutages = 1
    Plain = {}
    Fonts = {font, stroke}
    Imaging = {tone}
    Values = {v1, v2}
    MaxSets = 2
    Settings = {v1}
    MaxPageOps = 3
    MaxTyped = 1
    Nets = {n1}
    MaxZtOps = 2
    MaxZtLoads = 1
    MaxZtFaults = 1
SPECIFICATION MCSpec
   
PROPERTIES PreviewComesBack  PagesReturn
CHECK_DEADLOCK FALSE
