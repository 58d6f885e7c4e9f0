\* Two loads at a time, three in all, of two dictionaries over one cache file,
\* two replaced or removed files and one loss of power.  All loads may be over.
SPECIFICATION CacheSpec
CONSTANTS
  Loaders = {l1, l2}
  Probed <- MCProbed
  MaxStamp = 3
  MaxLoads = 3
  MaxCrashes = 1
SYMMETRY LoaderSymmetry
INVARIANTS LoadIsCurrent CacheNeverTorn
CHECK_DEADLOCK FALSE
