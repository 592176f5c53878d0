------------------------------ MODULE Numerals ------------------------------
(***************************************************************************)
(* Numbers as text in utils::String (utils/strings.h): reading integers of *)
(* a fixed width, amounts with decimals, and hexadecimal.  The widths are  *)
(* constants: 32 and 64 bits are too many values for a model.              *)
(***************************************************************************)
EXTENDS Strings

CONSTANTS
    Width,              \* bits of an unsigned int, an int and, for Stoi64, a long long
    MaxDigits           \* most digits of an unsigned int: 10 of 32 bits

Zero == 48
Nine == 57
Dot == 46
Minus == 45

ASSUME NumeralsAssumption ==
    /\ Width \in Nat \ {0} /\ MaxDigits \in Nat
    /\ 10 ^ (MaxDigits - 1) < 2 ^ Width /\ 2 ^ Width <= 10 ^ MaxDigits

\* ToString of a number, by snprintf.
RECURSIVE Digits(_)
Digits(n) == IF n < 10 THEN <<Zero + n>> ELSE Append(Digits(n \div 10), Zero + (n % 10))

NumeralOf(n) == IF n < 0 THEN <<Minus>> \o Digits(-n) ELSE Digits(n)

\* The digits s begins with, as a number.
Leading(s, Class(_)) == SubSeq(s, 1, Max({i \in 0 .. Len(s) : \A j \in 1 .. i : Class(s[j])}))
ValueOf(digits) == FoldLeft(LAMBDA v, c : 10 * v + (c - Zero), 0, digits)

(***************************************************************************)
(* Integers.                                                               *)
(***************************************************************************)
\* Stoui: the spaces before the digits are skipped; the value wraps.
Stoui(str) == ValueOf(Leading(Ltrim(str), IsDigit)) % 2 ^ Width

\* strtol of a long that holds it: spaces, a sign, digits.
StrToL(str) ==
    LET s == Ltrim(str)
        signed == s # <<>> /\ Head(s) \in {Minus, 43}
        v == ValueOf(Leading(IF signed THEN Tail(s) ELSE s, IsDigit))
    IN IF signed /\ Head(s) = Minus THEN -v ELSE v

\* A number cut to the signed and to the unsigned type.
Signed(n) == ((n + 2 ^ (Width - 1)) % 2 ^ Width) - 2 ^ (Width - 1)
Unsigned(n) == n % 2 ^ Width

\* atoi: the long is cut to an int.
Stoi(str) == Signed(StrToL(str))

\* Stoui64 computes as Stoui does, and returns the result as signed.
Stoui64(str) == Signed(Stoui(str))

\* atoll: beyond the range the nearest number of it.
Stoi64(str) == Max({-(2 ^ (Width - 1)), Min({2 ^ (Width - 1) - 1, StrToL(str)})})

Failed == [ok |-> FALSE, num |-> 0]
Read(n) == [ok |-> TRUE, num |-> n]

SafeStoui(str) ==
    IF Len(str) <= MaxDigits /\ str = NumeralOf(Stoui(str)) THEN Read(Stoui(str)) ELSE Failed

SafeStoi(str) ==
    IF Len(str) <= MaxDigits + 1 /\ str = NumeralOf(Stoi(str)) THEN Read(Stoi(str)) ELSE Failed

SafeStoi64(str) ==
    IF Len(str) <= MaxDigits + 1 /\ str = NumeralOf(Stoi64(str)) THEN Read(Stoi64(str)) ELSE Failed

SafeStoui64(str) ==
    LET temNum == Unsigned(Stoui64(str))
    IN IF Len(str) <= MaxDigits /\ str = NumeralOf(temNum) THEN Read(temNum) ELSE Failed

(***************************************************************************)
(* IsNumber: 0 no, 1 an integer, 2 hexadecimal, 3 with a dot.              *)
(***************************************************************************)
IsBlank(c) == c \in {32, 9}
IsHexDigit(c) == IsDigit(c) \/ c \in 65 .. 70 \/ c \in 97 .. 102

Skip(s, Class(_)) == SubSeq(s, Len(Leading(s, Class)) + 1, Len(s))

Begins(s, chars) == s # <<>> /\ Head(s) \in chars

IsNumber(str) ==
    LET unblanked == Skip(str, IsBlank)
        s == IF Begins(unblanked, {Minus, 43}) THEN Tail(unblanked) ELSE unblanked
        hex == Len(s) > 1 /\ s[1] = Zero /\ s[2] \in {120, 88}
        number == Skip(s, IsDigit)
    IN IF ~Begins(s, {Dot} \cup Zero .. Nine) THEN 0
       ELSE IF hex THEN IF Skip(SubSeq(s, 3, Len(s)), IsHexDigit) = <<>> THEN 2 ELSE 0
       ELSE IF number = <<>> THEN 1
       ELSE IF Begins(number, {Dot}) /\ Skip(Tail(number), IsDigit) = <<>> THEN 3 ELSE 0

(***************************************************************************)
(* Amounts.                                                                *)
(***************************************************************************)
Zeros(n) == [i \in 1 .. n |-> Zero]

\* FormatDecimal builds the text from its end: zeros are shown after another digit only,
\* and the dot only after a digit.
FormatDecimal(number, decimal) ==
    LET s == NumeralOf(number)
        result == IF decimal >= Len(s) THEN Zeros(decimal - Len(s) + 1) \o s ELSE s
        whole == Len(result) - decimal
        shown == Max({i \in 0 .. decimal : i = 0 \/ result[whole + i] # Zero})
    IN SubStr(result, 0, whole) \o
       IF shown = 0 THEN <<>> ELSE <<Dot>> \o SubStr(result, whole, shown)

\* Mutant: the dot is only moved when there are more than decimals digits behind it.
MultiplyDecimalMoves(value, decimals) ==
    LET dot_pos == Find(value, Dot, 0)
        right == Len(value) - dot_pos - 1
    IN IF dot_pos = NPos \/ right > decimals THEN value \o Zeros(decimals)
       ELSE SubStr(value, 0, dot_pos) \o SubStr(value, dot_pos + 1, right)

\* MultiplyDecimal: the dot goes decimals places to the right, then the leading zeros go,
\* one before a dot excepted.  A dot at the front makes i wrap to npos: everything goes.
MultiplyDecimal(value, decimals) ==
    LET dot_pos == Find(value, Dot, 0)
        right == Len(value) - dot_pos - 1
        plain == SubStr(value, 0, dot_pos) \o SubStr(value, dot_pos + 1, NPos)
        moved == IF dot_pos = NPos THEN value \o Zeros(decimals)
                 ELSE IF right <= decimals THEN plain \o Zeros(decimals - right)
                 ELSE SubStr(plain, 0, dot_pos + decimals) \o <<Dot>> \o
                      SubStr(plain, dot_pos + decimals, NPos)
        i == Len(Leading(moved, LAMBDA c : c = Zero))
        erased == IF i < Len(moved) /\ At(moved, i) = Dot THEN (IF i = 0 THEN NPos ELSE i - 1) ELSE i
    IN SubSeq(moved, erased + 1, Len(moved))

IsDecNumber(value, decimal) ==
    LET dot_pos == Find(value, Dot, 0) IN
    /\ value # <<>> /\ Last(value) # Dot
    /\ \A i \in DOMAIN value : IsDigit(value[i]) \/ value[i] = Dot
    /\ \A i, j \in DOMAIN value : value[i] = Dot /\ value[j] = Dot => i = j
    /\ Head(value) = Zero => dot_pos = 1 \/ value = <<Zero>>
    /\ dot_pos # NPos => Len(value) - dot_pos - 1 <= decimal

(***************************************************************************)
(* Hexadecimal.                                                            *)
(***************************************************************************)
HexChar(v) == IF v <= 9 THEN v + Zero ELSE v - 10 + 97

BinToHexString(value) ==
    [i \in 1 .. 2 * Len(value) |->
        LET item == value[(i + 1) \div 2]
        IN HexChar(IF i % 2 = 1 THEN item \div 16 ELSE item % 16)]

\* -1: not a digit.
HexValue(c, force_little) ==
    IF IsDigit(c) THEN c - Zero
    ELSE IF c \in 97 .. 102 THEN c - 97 + 10
    ELSE IF c \in 65 .. 70 /\ ~force_little THEN c - 65 + 10
    ELSE -1

HexStringToBin(hex_string, force_little) ==
    LET V(i) == HexValue(hex_string[i], force_little) IN
    IF Len(hex_string) % 2 # 0 \/ hex_string = <<>> \/ \E i \in DOMAIN hex_string : V(i) = -1
    THEN <<>>
    ELSE [i \in 1 .. Len(hex_string) \div 2 |-> 16 * V(2 * i - 1) + V(2 * i)]

IsHexString(hex_string) ==
    /\ Len(hex_string) % 2 = 0
    /\ \A i \in DOMAIN hex_string : IsHexDigit(hex_string[i])
=============================================================================
