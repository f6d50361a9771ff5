-------------------------------- MODULE Padding --------------------------------
(***************************************************************************)
(* The frames that hide from the relay how long a text or a file is: a     *)
(* text is [length][text][random tail] in buckets of PadBlock bytes        *)
(* (services/e2e.ts and groupE2E.ts: padBytes, unpadBytes), a file         *)
(* [magic][length][bytes][random tail] in buckets of FilePadBlock          *)
(* (services/fileE2E.ts). What was written before there were frames is     *)
(* still read: texts in buckets of LegacyPadBlock, plain texts and files.  *)
(*                                                                         *)
(* Left out: the cipher around the frame, and base64 around a text, which  *)
(* are undone before the frame is looked at.                               *)
(***************************************************************************)
EXTENDS Integers, Sequences

CONSTANTS
    PadBlock,           \* 512
    LegacyPadBlock,     \* 128
    MaxText,            \* 8192
    FilePadBlock,       \* 64 KB
    Bytes,              \* the bytes a text or a file is written with
    MaxLen,             \* bound: bytes of a text or a file
    Unread

ASSUME BlocksAssumption ==
    /\ PadBlock \in Nat \ {0} /\ LegacyPadBlock \in Nat \ {0}
    /\ FilePadBlock \in Nat \ {0} /\ MaxText \in Nat
    /\ Bytes \subseteq 0..255 /\ MaxLen \in Nat /\ Unread \notin Seq(0..255)
(* A length has four bytes; the relay takes files of up to 50 MB            *)
(* (shared/config.py:154).                                                  *)
FourBytes(n) == n \div 16777216 < 256
ASSUME LengthAssumption == FourBytes(MaxLen)

VARIABLES
    plain,      \* what is written
    form,       \* what it is sent as
    wire,       \* the bytes inside the cipher
    shown       \* what the reader gets

paddingVars == <<plain, form, wire, shown>>

Forms == {"text", "old text", "plain text", "file", "plain file"}

-----------------------------------------------------------------------------
(* The four bytes of a length, big end first.                               *)
BE(n) == <<(n \div 16777216) % 256, (n \div 65536) % 256, (n \div 256) % 256, n % 256>>
Uint32(b, at) ==
    b[at] * 16777216 + b[at + 1] * 65536 + b[at + 2] * 256 + b[at + 3]

(* n bytes take whole buckets.                                              *)
Bucket(n, block) == ((n + block - 1) \div block) * block

TailLen(n, block) == Bucket(n, block) - n

PadBytes(text, tail) == BE(Len(text)) \o text \o tail

(* Mutant: a text that fills its bucket to the last byte is no frame.       *)
UnpadBytes_Exact(b) ==
    IF \/ Len(b) < 4
       \/ Len(b) % PadBlock # 0 /\ Len(b) % LegacyPadBlock # 0
       \/ Uint32(b, 1) >= Len(b) - 4 \/ Uint32(b, 1) > MaxText
    THEN Unread
    ELSE SubSeq(b, 5, 4 + Uint32(b, 1))

UnpadBytes(b) ==
    IF \/ Len(b) < 4
       \/ Len(b) % PadBlock # 0 /\ Len(b) % LegacyPadBlock # 0
       \/ Uint32(b, 1) > Len(b) - 4 \/ Uint32(b, 1) > MaxText
    THEN Unread
    ELSE SubSeq(b, 5, 4 + Uint32(b, 1))

Magic == <<78, 67, 70, 49>>

PadFileBytes(file, tail) == Magic \o BE(Len(file)) \o file \o tail

UnpadFileBytes(b) ==
    IF \/ Len(b) < 8 \/ Len(b) % FilePadBlock # 0
       \/ b[1] # Magic[1] \/ b[2] # Magic[2] \/ b[3] # Magic[3] \/ b[4] # Magic[4]
       \/ Uint32(b, 5) > Len(b) - 8
    THEN Unread
    ELSE SubSeq(b, 9, 8 + Uint32(b, 5))

(* What is no frame is shown as it is.                                      *)
ReadText(b) == IF UnpadBytes(b) = Unread THEN b ELSE UnpadBytes(b)
DecryptFileBytes(b) == IF UnpadFileBytes(b) = Unread THEN b ELSE UnpadFileBytes(b)

-----------------------------------------------------------------------------
Init ==
    /\ plain \in {<<>>, Magic}
    /\ form = Unread /\ wire = <<>> /\ shown = Unread

Write(byte) ==
    /\ form = Unread /\ Len(plain) < MaxLen
    /\ plain' = Append(plain, byte)
    /\ UNCHANGED <<form, wire, shown>>

Sends(how, bytes) ==
    /\ form = Unread /\ form' = how /\ wire' = bytes
    /\ UNCHANGED <<plain, shown>>

(* The tail is random: TLC takes one byte for the whole of it.              *)
Tail_(n, block, byte) == [i \in 1..TailLen(n, block) |-> byte]

Send(byte) ==
    LET n == Len(plain)
    IN  \/ Sends("text", PadBytes(plain, Tail_(n + 4, PadBlock, byte)))
        \/ Sends("old text", PadBytes(plain, Tail_(n + 4, LegacyPadBlock, byte)))
        \/ Sends("plain text", plain)
        \/ Sends("file", PadFileBytes(plain, Tail_(n + 8, FilePadBlock, byte)))
        \/ Sends("plain file", plain)

Receive ==
    /\ form # Unread /\ shown = Unread
    /\ shown' = IF form \in {"file", "plain file"} THEN DecryptFileBytes(wire)
                ELSE ReadText(wire)
    /\ UNCHANGED <<plain, form, wire>>

Next == (\E byte \in Bytes : Write(byte) \/ Send(byte)) \/ Receive

Spec == Init /\ [][Next]_paddingVars

-----------------------------------------------------------------------------
(* What unpadBytes takes for a frame although nobody framed it.             *)
LooksFramed ==
    \/ form = "plain text" /\ UnpadBytes(plain) # Unread
    \/ form = "plain file" /\ UnpadFileBytes(plain) # Unread

(* A text or a file is read as it was written, at every length up to and   *)
(* over the edge of a bucket, whatever the tail is, in every form there    *)
(* was; but for a text of more than MaxText bytes, and for bytes without a  *)
(* frame that look like one.                                                *)
ReadAsWritten ==
    \/ shown = Unread \/ shown = plain \/ LooksFramed
    \/ form \in {"text", "old text"} /\ Len(plain) > MaxText

(* The same without the bound: the reader falls back gracefully (e2e.ts:    *)
(* 64-65). Refuted: unpadBytes refuses what padBytes makes of a longer text *)
(* and the reader shows length, text and tail together.                     *)
LongTextsToo == shown = Unread \/ shown = plain \/ LooksFramed

-----------------------------------------------------------------------------
(* What ReadAsWritten follows from: what is sent is the frame of what was   *)
(* written, with a tail up to the end of a bucket, and neither changes any  *)
(* more.                                                                    *)
Framed ==
    LET n == Len(plain)
    IN  \E byte \in Bytes :
        \/ form = "text" /\ wire = PadBytes(plain, Tail_(n + 4, PadBlock, byte))
        \/ form = "old text" /\ wire = PadBytes(plain, Tail_(n + 4, LegacyPadBlock, byte))
        \/ form = "file" /\ wire = PadFileBytes(plain, Tail_(n + 8, FilePadBlock, byte))
        \/ form \in {"plain text", "plain file"} /\ wire = plain

PaddingInv ==
    /\ plain \in Seq(0..255) /\ (Len(plain) <= MaxLen \/ plain = Magic)
    /\ form # Unread => Framed
    /\ shown # Unread => form # Unread
    /\ ReadAsWritten
===============================================================================
