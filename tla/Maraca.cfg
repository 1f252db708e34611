\* The Connected Maraca: all interleavings of the two threads.
SPECIFICATION FairSpec
INVARIANTS TypeOK OfflineExplained
PROPERTIES ThreadOnce CloudComesBack
