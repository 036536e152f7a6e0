\* One monitor over three boot cycles, on Android and elsewhere.
CONSTANT MaxCycle = 3
SPECIFICATION FairSpec
INVARIANTS DescriptorsOnce ThreadOwned WiredBeforeBoot
PROPERTIES HandshakeEnds
CHECK_DEADLOCK FALSE
