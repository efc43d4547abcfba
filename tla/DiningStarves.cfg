SPECIFICATION BusySpec
CONSTANT N = 4
PROPERTY NoStarvation
