SPECIFICATION Questions
CONSTANTS
    Ports = 64
    PageBits = 12
    PaddrBits = 17
    IndexBits = 2
    Usizes = 65536
    IoRanges <- MCIoRanges
    IoOffsets <- MCIoOffsets
    BufLens <- MCBufLens
    Paddrs <- MCPaddrs
    Virts <- MCVirts
    Levels <- MCLevels
    Signatures = {FACP, APIC}
    Guids = {ACPI, ACPI2, SMBIOS}
    MaxTables = 3
    MadtSize = 5
    MadtBytes = {0, 1, 2, 3, 4}
    RegWords <- MCRegWords
    AddressCells = {0, 1, 2, 3}
    SizeCells = {0, 1, 2}
    MaxWords = 4
    PciAddrs <- MCPciAddrs
    Places <- MCPlaces
    Attributes <- MCAttributes
    TreeChildren <- MCTreeChildren
    MaxChildren = 2
    TreeStrings <- MCTreeStrings
    Freqs <- MCFreqs
    Counts <- MCCounts
INVARIANTS BufferInOrder EntrySaysWhatWasAsked WalksFindWhatIsListed RegIsWhatWasWritten
    TreeReadsBack SaveIsComplete CpuFindsItsSegments PitTellsTheTime
