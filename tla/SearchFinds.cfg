SPECIFICATION BtreeSpec
CONSTANTS
  Keys = {0, 1}
  MaxEntries = 3
  PageBodies = {36}
  KeySizes = {8}
  PageIds = {1, 2, 3, 4, 5, 6, 7, 8, 9, 10}
INVARIANT KeysFound
CHECK_DEADLOCK FALSE
