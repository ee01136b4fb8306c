------------------------------ MODULE HiSecret ------------------------------
(***************************************************************************)
(* Obfuscated credentials: hi_secret_reveal() (src/hi_secret.c) on what    *)
(* tools/obfuscate.py writes, on plain values and on malformed ones.       *)
(*                                                                         *)
(* A credential is a sequence of bytes.  A stored value is a plain one, or *)
(* "obf1:" followed by hexadecimal digits, each of which is its number;    *)
(* any other character is the number NotHex.                               *)
(***************************************************************************)
EXTENDS Integers, Sequences

CONSTANTS
    Key,     \* KEY, without the NUL that ends it
    Texts,   \* the credentials
    Sizes    \* out_size

Byte == 0 .. 255
ASSUME SecretAssumption ==
    /\ Key \in Seq(Byte) /\ Key # << >>
    /\ Texts \subseteq Seq(Byte \ {0}) /\ Sizes \subseteq Nat

VARIABLE call   \* the last call: its text, the value stored, out_size, ok and out

NotHex == 16

\* "^" of two bytes, bit by bit.
Bit(a, weight) == (a \div weight) % 2
Differ(a, b, weight) == IF Bit(a, weight) = Bit(b, weight) THEN 0 ELSE weight
ByteXor(a, b) ==
    Differ(a, b, 1) + Differ(a, b, 2) + Differ(a, b, 4) + Differ(a, b, 8)
    + Differ(a, b, 16) + Differ(a, b, 32) + Differ(a, b, 64) + Differ(a, b, 128)

\* What is mixed into byte i, from 0: of KEY without its NUL.
KeyByteNul(i) == Append(Key, 0)[(i % (Len(Key) + 1)) + 1]
KeyByte(i)    == Key[(i % Len(Key)) + 1]
Mixed(byte, i) == ByteXor(ByteXor(byte, KeyByte(i)), (i * 31 + 7) % 256)

\* obfuscate() of tools/obfuscate.py, whose key is the same and has no NUL.
ToolMixed(byte, i) == ByteXor(ByteXor(byte, Key[(i % Len(Key)) + 1]), (i * 31 + 7) % 256)
Plain(text) == [prefix |-> FALSE, text |-> text]
Hex(digits) == [prefix |-> TRUE, text |-> digits]
Obfuscated(text) ==
    IF text = << >> THEN Plain(text)
    ELSE Hex([j \in 1 .. 2 * Len(text) |->
                 LET i == (j - 1) \div 2
                     byte == ToolMixed(text[i + 1], i)
                 IN IF j % 2 = 1 THEN byte \div 16 ELSE byte % 16])

\* hi_secret_reveal(): out is what is written before the NUL that ends it.
Failed == [ok |-> FALSE, out |-> << >>]
Fits(n, size) == n < size
Reveal(v, size) ==
    LET n == Len(v.text) \div 2
        ByteAt(i) == v.text[2 * i + 1] * 16 + v.text[2 * i + 2]
    IN IF size = 0 THEN Failed
       ELSE IF ~v.prefix
       THEN IF Fits(Len(v.text), size) THEN [ok |-> TRUE, out |-> v.text] ELSE Failed
       ELSE IF Len(v.text) % 2 # 0 \/ ~Fits(n, size)
               \/ \E j \in 1 .. Len(v.text) : v.text[j] = NotHex
       THEN Failed
       ELSE [ok |-> TRUE, out |-> [i \in 1 .. n |-> Mixed(ByteAt(i - 1), i - 1)]]

-----------------------------------------------------------------------------
\* Stored values that hold a credential, and values that were damaged: a
\* digit too few, or a character that is no digit.
Damaged(text) ==
    IF text = << >> THEN {}
    ELSE LET digits == Obfuscated(text).text
         IN {Hex(Tail(digits)), Hex([digits EXCEPT ![1] = NotHex]),
             Hex([digits EXCEPT ![Len(digits)] = NotHex])}

NoCall == [text |-> << >>, value |-> Plain(<< >>), size |-> 1, ok |-> TRUE, out |-> << >>]

Calls(text, value, size) ==
    call' = [text |-> text, value |-> value, size |-> size,
             ok |-> Reveal(value, size).ok, out |-> Reveal(value, size).out]

SecretNext ==
    \E text \in Texts, size \in Sizes :
        \E value \in {Plain(text), Obfuscated(text)} \cup Damaged(text) :
            Calls(text, value, size)

SecretSpec == call = NoCall /\ [][SecretNext]_call

-----------------------------------------------------------------------------
\* "Writes the clear value into out.  False when out is too small or the hex is
\* malformed (out is then an empty string)" (hi_secret.h:14-15): what the tool
\* wrote comes back, however long, and nothing else is revealed.
Reveals ==
    IF call.value \in {Plain(call.text), Obfuscated(call.text)} /\ Len(call.text) < call.size
    THEN call.ok /\ call.out = call.text
    ELSE ~call.ok /\ call.out = << >>
=============================================================================
