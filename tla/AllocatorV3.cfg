\* Two-bit words, one word to a slotset, three entries to an L1 or L2 word:
\* seven blocks need four words, the last of which is half padding, two L1
\* words with two padding entries and an L2 word with one.
CONSTANTS
    Total = 7
    BitsPerSlot = 2
    SlotsPerSlotset = 1
    EntriesPerSlot = 3
    Wants <- MCWants
    ExtentLists <- MCExtentLists
SPECIFICATION Spec
INVARIANTS SummariesExact AvailableExact ResultsExact SearchComplete NextFit
PROPERTY ImplementsPool
