------------------------------- MODULE Script -------------------------------
(***************************************************************************)
(* Reading the data pushes of an OP_RETURN script, byte by byte, as        *)
(* packages/btcnotar/src/chain.js and the Python package's core.py do, and *)
(* building the script of an anchor.  JsPushesOrNone, PyRaises and         *)
(* BuildDirect are plausible mistakes in the definition below each.        *)
(***************************************************************************)
EXTENDS Integers, Sequences

\* Opcodes that push data: up to Direct the opcode is the length, the others
\* are followed by a length of one, two or four bytes.
Direct == 75
PushData1 == 76
PushData2 == 77
PushData4 == 78

LengthBytes(op) == CASE op = PushData1 -> 1 [] op = PushData2 -> 2 [] op = PushData4 -> 4
                     [] OTHER -> 0

\* The length in the n bytes after place i, the lowest first.
LittleEndian(bytes, i, n) ==
    LET sum[k \in 0..n] == IF k = 0 THEN 0
                           ELSE 256 * sum[k - 1] + bytes[i + n + 1 - k]
    IN  sum[n]

Pushed(out)  == [kind |-> "pushes", out |-> out]
Null   == [kind |-> "null", out |-> <<>>]
Throws == [kind |-> "throws", out |-> <<>>]

\* The loop of scriptPushes, from the place after the first i bytes.  A length
\* that is itself cut short is malformed, or raises an error after an opcode
\* of "raising".
Pushes(bytes, raising) ==
    LET rest[i \in 0..Len(bytes)] ==
            IF i = Len(bytes) THEN Pushed(<<>>)
            ELSE LET op   == bytes[i + 1]
                     n    == LengthBytes(op)
                     from == i + 1 + n
                     len  == IF n = 0 THEN op ELSE LittleEndian(bytes, i + 1, n)
                 IN  IF op = 0 \/ op > PushData4 THEN rest[i + 1]
                     ELSE IF from > Len(bytes) THEN (IF op \in raising THEN Throws ELSE Null)
                     ELSE IF from + len > Len(bytes) THEN Null
                     ELSE IF rest[from + len].kind # "pushes" THEN rest[from + len]
                     ELSE Pushed(<<SubSeq(bytes, from + 1, from + len)>>
                                   \o rest[from + len].out)
    IN  rest[0]

\* chain.js: one missing byte reads as undefined, which is tested for; a read
\* of two or four bytes past the end throws.
JsRaising == {PushData2, PushData4}
JsPushesOrNone(bytes) == IF Pushes(bytes, JsRaising) = Null THEN Pushed(<<>>)
                                                            ELSE Pushes(bytes, JsRaising)
JsPushes(bytes) == Pushes(bytes, JsRaising)

\* core.py looks at what is left before it reads any length.
PyRaises == {PushData1}
PyRaising == {}
PyPushes(bytes) == Pushes(bytes, PyRaising)

\* build_op_return_script after its first byte; bitcoinjs-lib compiles the same.
BuildDirect(data) == <<Len(data)>> \o data
BuildPush(data) ==
    IF Len(data) <= Direct THEN <<Len(data)>> \o data
                           ELSE <<PushData1, Len(data)>> \o data
=============================================================================
