SPECIFICATION Spec
CONSTANTS
  OfflineAfter = 2
  Word = 2
  LineMax = 3
  Sizes = {1, 3, 4, 5}
  MaxLines = 2
  MaxBeats = 1
  MaxTime = 2
PROPERTIES OnlineOnlyIfHeard WeatherOfOneLine WeatherWithBadge StatusArrives
CHECK_DEADLOCK FALSE
