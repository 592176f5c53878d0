------------------------------ MODULE Strings ------------------------------
(***************************************************************************)
(* The class utils::String (utils/strings.h) and the trimming of           *)
(* utils/utils.cpp: cutting, splitting and comparing strings.  A string is *)
(* a sequence of character codes; positions are counted from 0, as in the  *)
(* code, and npos is the largest of them.                                  *)
(***************************************************************************)
EXTENDS Naturals, Integers, SequencesExt

(***************************************************************************)
(* std::string.                                                            *)
(***************************************************************************)
NPos == 2^16 - 1

At(s, i) == s[i + 1]

SubStr(s, pos, n) == SubSeq(s, pos + 1, IF n > Len(s) - pos THEN Len(s) ELSE pos + n)

\* find: the first place from pos on where key is.
FindStr(s, key, pos) ==
    LET places == {i \in pos .. Len(s) - Len(key) : SubStr(s, i, Len(key)) = key}
    IN IF places = {} THEN NPos ELSE Min(places)

\* rfind of a character, at pos or before it.
RFindChar(s, c, pos) ==
    LET places == {i \in 0 .. Len(s) - 1 : i <= pos /\ At(s, i) = c}
    IN IF places = {} THEN NPos ELSE Max(places)

Find(s, c, pos) == FindStr(s, <<c>>, pos)

(***************************************************************************)
(* Characters.                                                             *)
(***************************************************************************)
IsSpace(c) == c \in {32} \cup 9 .. 13

IsUpper(c) == c \in 65 .. 90
IsLower(c) == c \in 97 .. 122
IsDigit(c) == c \in 48 .. 57

CharIsLetter(c) == IsUpper(c) \/ IsLower(c)

ToLower(s) == [i \in DOMAIN s |-> IF IsUpper(s[i]) THEN s[i] + 32 ELSE s[i]]

ToUpper(s) == [i \in DOMAIN s |-> IF IsLower(s[i]) THEN s[i] - 32 ELSE s[i]]

EqualsIgnoreCase(x, y) ==
    /\ Len(x) = Len(y)
    /\ \A i \in DOMAIN x :
          \/ x[i] = y[i]
          \/ CharIsLetter(x[i]) /\ CharIsLetter(y[i]) /\ x[i] - y[i] \in {32, -32}

(***************************************************************************)
(* Trimming.                                                               *)
(***************************************************************************)
\* Where the loops over spaces stop; the one from the right never goes below 0.
LeftPos(s) == Min({i \in 0 .. Len(s) : i = Len(s) \/ ~IsSpace(At(s, i))})
RightPos(s, left) == Max({i \in 0 .. Len(s) - 1 : i < left \/ ~IsSpace(At(s, i)) \/ i = 0})

Cut(s, left, right) == IF left > right THEN <<>> ELSE SubStr(s, left, right - left + 1)

TrimLeft(s) == IF s = <<>> THEN s ELSE Cut(s, LeftPos(s), Len(s) - 1)

TrimRight(s) == IF s = <<>> THEN s ELSE Cut(s, 0, RightPos(s, 0))

Trim(s) == IF s = <<>> THEN s ELSE Cut(s, LeftPos(s), RightPos(s, LeftPos(s)))

\* utils::Ltrim and utils::Rtrim, of a C string.
Ltrim(line) == SubSeq(line, LeftPos(line) + 1, Len(line))

Rtrim(line) == SubSeq(line, 1, Max({i \in 0 .. Len(line) : i = 0 \/ ~IsSpace(line[i])}))

(***************************************************************************)
(* Splitting.                                                              *)
(***************************************************************************)
RECURSIVE SplitFrom(_, _, _)
SplitFrom(s, delim, last) ==
    LET index == Find(s, delim, last) IN
    <<SubStr(s, last, index - last)>> \o
    IF index = NPos THEN <<>> ELSE SplitFrom(s, delim, index + 1)

\* split, with a delim of one character.
split(s, delim) == SplitFrom(s, delim, 0)

\* Strtok with a separator: empty tokens are left out, but not the last one, since npos is
\* greater than any position.
RECURSIVE StrtokFrom(_, _, _)
StrtokFrom(s, sep, newPos) ==
    LET pos == Find(s, sep, newPos) IN
    (IF pos > newPos THEN <<SubStr(s, newPos, pos - newPos)>> ELSE <<>>) \o
    (IF pos = NPos THEN <<>> ELSE StrtokFrom(s, sep, pos + 1))

StrtokSep(s, sep) == StrtokFrom(s, sep, 0)

\* Strtok with a key.
RECURSIVE StrtokKeyFrom(_, _, _, _, _, _)
StrtokKeyFrom(s, key, max_items, ignore_empty, start, count) ==
    IF start >= Len(s) THEN <<>>
    ELSE LET found == FindStr(s, key, start)
             end == IF found = NPos \/ (max_items > 0 /\ count = max_items - 1)
                    THEN Len(s) ELSE found
             item == IF end > start \/ ~ignore_empty THEN <<SubStr(s, start, end - start)>>
                     ELSE <<>>
         IN item \o StrtokKeyFrom(s, key, max_items, ignore_empty, end + Len(key),
                                  count + Len(item))

StrtokKey(s, key, max_items, ignore_empty) ==
    IF key = <<>> THEN <<>> ELSE StrtokKeyFrom(s, key, max_items, ignore_empty, 0, 0)

\* Mutant: after a replacement the search goes on one character later.
RECURSIVE ReplaceFromNextChar(_, _, _, _)
ReplaceFromNextChar(s, from, to, pos) ==
    LET at == FindStr(s, from, pos) IN
    IF at = NPos \/ Len(s) > 16 THEN s
    ELSE ReplaceFromNextChar(SubStr(s, 0, at) \o to \o SubStr(s, at + Len(from), NPos),
                             from, to, at + 1)

RECURSIVE ReplaceFrom(_, _, _, _)
ReplaceFrom(s, from, to, pos) ==
    LET at == FindStr(s, from, pos) IN
    IF at = NPos THEN s
    ELSE ReplaceFrom(SubStr(s, 0, at) \o to \o SubStr(s, at + Len(from), NPos),
                     from, to, at + Len(to))

ReplaceNextChar(s, from, to) == ReplaceFromNextChar(s, from, to, 0)

Replace(s, from, to) == ReplaceFrom(s, from, to, 0)

(***************************************************************************)
(* Attributes.                                                             *)
(***************************************************************************)
Pair(k, v) == [x \in {k} |-> v]

Update(m, n) == [k \in DOMAIN m \cup DOMAIN n |-> IF k \in DOMAIN n THEN n[k] ELSE m[k]]

NoAttributes == [k \in {} |-> <<>>]

\* insert keeps the value a key already has.
ParseAttribute(s, delim, ope) ==
    FoldLeft(LAMBDA ret, part :
                LET item == split(part, ope)
                IN Update(Pair(item[1], IF Len(item) > 1 THEN item[2] ELSE <<>>), ret),
             NoAttributes, split(s, delim))

\* The last value of a key is kept.
ParseAttributes(content, sep_key, value_key, key_low_case, trim) ==
    LET Trimmed(s) == IF trim THEN Trim(s) ELSE s
        Lowered(s) == IF key_low_case THEN ToLower(s) ELSE s
    IN FoldLeft(LAMBDA attrs, part :
                   LET values == StrtokKey(part, value_key, 2, FALSE)
                   IN IF values = <<>> THEN attrs
                      ELSE Update(attrs, Pair(Trimmed(Lowered(values[1])),
                                  IF Len(values) < 2 THEN <<>> ELSE Trimmed(values[2]))),
                NoAttributes, StrtokKey(content, sep_key, -1, FALSE))
=============================================================================
