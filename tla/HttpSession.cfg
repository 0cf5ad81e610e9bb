SPECIFICATION SessionSpec
CONSTANTS
  Urls <- MCUrls
  Headers <- MCHeaders
  IpAddresses <- MCIpAddresses
  BaseUrl <- MCBaseUrl
  ProviderUrl <- MCProviderUrl
  Calls = {a1, a2}
  Logins = {l1, l2}
  MaxActive = 2
  MaxTime = 1
INVARIANTS
  CookiesStayAtHome
  JarIsTheHistory
  LoginsDoNotMix
SYMMETRY Symmetry
CHECK_DEADLOCK FALSE
