\* Input of a window, see README.md.
SPECIFICATION Spec
CONSTANTS
    MaxRetry = 1
    Understood = {"S", "P", "R", "I"}
    Letters = {"letter"}
    Others = {"other"}
    Super = "Super"
    Left = "Left"
    Wheel = "Wheel"
    Fingers = {1}
    Points = {1}
    TableSize = 6
    MaxQueue = 1
    MaxTouch = 2
    MaxHeld = 2
INVARIANTS
    InputTypeOK
    KeysTracked
    CleanBetweenWindows
    TableSuffices
    NoStuckKey
    DeliveryInv
PROPERTIES
    ClicksLand
    KeysReleased
