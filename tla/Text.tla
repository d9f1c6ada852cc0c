-------------------------------- MODULE Text --------------------------------
(***************************************************************************)
(* decode_dbisam_text: text columns are Windows-1252; bytes that already   *)
(* are UTF-8 pass unchanged, all others are taken byte by byte.            *)
(***************************************************************************)
EXTENDS Integers, Sequences, SequencesExt

\* A head and, behind it, the first n parts.
Joined(head, n, parts) ==
    LET joined[k \in 0..n] == IF k = 0 THEN head ELSE joined[k - 1] \o parts[k]
    IN joined[n]

\* Continuation bytes that a lead byte announces; -1: not a lead byte.
Follow(b) ==
    CASE b \in 0..127   -> 0
      [] b \in 194..223 -> 1
      [] b \in 224..239 -> 2
      [] b \in 240..244 -> 3
      [] OTHER          -> -1

\* The scan counts down the continuation bytes still due; -1 once it failed.
StillDue(due, b) ==
    IF due = 0 THEN Follow(b) ELSE IF due > 0 /\ b \in 128..191 THEN due - 1 ELSE -1
IsValidUtf8(bytes) ==
    LET due[k \in 0..Len(bytes)] == IF k = 0 THEN 0 ELSE StillDue(due[k - 1], bytes[k])
    IN due[Len(bytes)] = 0

\* Windows-1252 16#80..16#9F; what it leaves undefined stays itself.
Cp1252High == <<8364, 129, 8218, 402, 8222, 8230, 8224, 8225, 710, 8240, 352, 8249, 338, 141, 381, 143,
                144, 8216, 8217, 8220, 8221, 8226, 8211, 8212, 732, 8482, 353, 8250, 339, 157, 382, 376>>
CodePoint(b) == IF b \in 128..159 THEN Cp1252High[b - 127] ELSE b

Utf8(cp) ==
    IF cp < 128 THEN <<cp>>
    ELSE IF cp < 2048 THEN <<192 + cp \div 64, 128 + (cp % 64)>>
    ELSE <<224 + cp \div 4096, 128 + ((cp \div 64) % 64), 128 + (cp % 64)>>

DecodeText(bytes) ==
    IF IsValidUtf8(bytes) THEN bytes
    ELSE Joined(<<>>, Len(bytes), [i \in DOMAIN bytes |-> Utf8(CodePoint(bytes[i]))])

=============================================================================
