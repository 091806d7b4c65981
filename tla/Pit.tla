--------------------------------- MODULE Pit ---------------------------------
(***************************************************************************)
(* The interval timer (vaerk-x86_64/pit.cpp): the register writes of init *)
(* and the accesses of readCount, against channel 0 of an 8254, which     *)
(* counts on between any two of them.  A channel keeps the period of its  *)
(* counter, which bytes of it an access moves, whether the next one is    *)
(* the high byte, and the count it was told to latch.                      *)
(***************************************************************************)
EXTENDS Integers, Sequences

FREQ == 1193182

NoCount == -1

(* The driver: u16 div, and the mode CHANNEL1 | LOWBYTE | SQUARE_WAVE.      *)
Div(freq) == (FREQ \div freq) % 2 ^ 16

InitWrites(freq) ==
    << <<"CMD", 32 + 16 + 6>>, <<"PORT0", Div(freq) % 256>>, <<"PORT0", Div(freq) \div 256>> >>

-----------------------------------------------------------------------------
(* The channel.  The two bits of a command above the mode say which bytes   *)
(* follow, low and then high for 3; 0 latches the count instead, unless one *)
(* that was latched is still to be read.  A period of 0 counts 2^16.        *)

Command(channel, value, count) ==
    IF (value \div 16) % 4 = 0
    THEN IF channel.latched = NoCount THEN [channel EXCEPT !.latched = count % 2 ^ 16] ELSE channel
    ELSE [channel EXCEPT !.bytes = (value \div 16) % 4, !.high = FALSE, !.latched = NoCount]

PutByte(channel, byte) ==
    CASE channel.bytes = 1 -> [channel EXCEPT !.period = byte]
      [] channel.bytes = 2 -> [channel EXCEPT !.period = 256 * byte]
      [] channel.bytes = 3 /\ ~channel.high -> [channel EXCEPT !.low = byte, !.high = TRUE]
      [] channel.bytes = 3 /\ channel.high  -> [channel EXCEPT !.period = 256 * byte + channel.low, !.high = FALSE]

Written(channel, write, count) ==
    IF write[1] = "CMD" THEN Command(channel, write[2], count) ELSE PutByte(channel, write[2])

(* What a read of PORT0 answers, and the channel after it.                  *)
GetByte(channel, count) ==
    LET source == IF channel.latched = NoCount THEN count % 2 ^ 16 ELSE channel.latched
        upper  == channel.bytes = 2 \/ (channel.bytes = 3 /\ channel.high)
        more   == channel.bytes = 3 /\ ~channel.high
    IN  [byte |-> IF upper THEN source \div 256 ELSE source % 256,
         channel |-> [channel EXCEPT !.high = more, !.latched = IF more THEN @ ELSE NoCount]]

-----------------------------------------------------------------------------

PitInit(channel, freq) ==
    LET writes == InitWrites(freq)
    IN  Written(Written(Written(channel, writes[1], 0), writes[2], 0), writes[3], 0)

(* Mutant: the counter is read as it runs. *)
ReadCountLive(channel, counts) ==
    LET low  == GetByte(channel, counts[2])
        high == GetByte(low.channel, counts[3])
    IN  256 * high.byte + low.byte

(* readCount; counts[k] is where the counter stands at the k-th access.     *)
ReadCount(channel, counts) ==
    LET latched == Written(channel, <<"CMD", 0>>, counts[1])
        low     == GetByte(latched, counts[2])
        high    == GetByte(low.channel, counts[3])
    IN  256 * high.byte + low.byte
=============================================================================
