SPECIFICATION Spec
CHECK_DEADLOCK FALSE
CONSTANTS
    Menus = {main, sub}
    Main = main
    NoProcess = {sub}
    Entered = {sub, NULL}
    NULL = NULL
    Size = 3
INVARIANTS
    EmergencyShown
    OnlyFullTabCrashes
PROPERTIES
    MenuComesBack
