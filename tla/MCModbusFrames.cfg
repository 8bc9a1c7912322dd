CONSTANTS
    Modes = {"modeTCP", "modeRTU", "modeASCII"}
    Unit = 3
    Addresses <- MCAddresses
    ReadLengths <- MCReadLengths
    WriteCounts = {0, 1, 123, 124}
    Bytes = {0, 165, 255}
    CRC <- Crc16
    LRC <- Lrc
SPECIFICATION ExchangeSpec
INVARIANTS
    WholeReplyTaken
    DamageNoticed
    StringWhole
