SPECIFICATION MCFairSpec
CONSTANTS
    c1 = c1
    c2 = c2
    Ledgers = {c1, c2}
    Nil = Nil
    Authorities <- MCAuthorities
    StaticCAs <- MCStaticCAs
    Certs <- MCCerts
    MaxHeight = 3
    MaxCrashes = 2
    MaxFailures = 1
INVARIANTS
  CreationIsAtomic
  AlwaysStarts
  CachedConfigNotBehind
  TrustFollowsChannels
PROPERTIES
  GenesisIsListed
  ListedComesUp
