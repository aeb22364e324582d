SPECIFICATION RtcSpec
CONSTANTS
    Day = 6
    Tolerance = 2
    MaxNow = 15
    FirstNow = {6, 7, 8, 9, 10, 11}
    FirstRtc = {1, 2, 3, 4, 5, 6, 7, 8, 9, 10, 11, 12, 13, 14, 15, 16, 24}
INVARIANT Synced
