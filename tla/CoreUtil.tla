------------------------------ MODULE CoreUtil ------------------------------
(* The 16-bit CRC of the CoreMark benchmark (software/coremark/core_util.c)   *)
(* and the C integer widths its parts share.                                  *)
EXTENDS Integers, Bitwise

U16(x) == x % 65536
S16(x) == IF U16(x) >= 32768 THEN U16(x) - 65536 ELSE U16(x)

(* crcu8 takes n bits of the byte, the lowest first: where bit and checksum    *)
(* differ the polynomial is applied, and the checksum is shifted right.        *)
CrcBits[n \in 0 .. 8, byte \in 0 .. 255, crc \in 0 .. 65535] ==
    IF n = 0 THEN crc
    ELSE CrcBits[n - 1, byte \div 2,
                 IF (byte + crc) % 2 = 1 THEN ((crc ^^ 16386) \div 2) + 32768 ELSE crc \div 2]

crcu8(byte, crc) == CrcBits[8, byte, crc]
crcu16(word, crc) == crcu8(word \div 256, crcu8(word % 256, crc))
crc16(short, crc) == crcu16(U16(short), crc)
crcu32(word, crc) == crcu16((word \div 65536) % 65536, crcu16(word % 65536, crc))
=============================================================================
