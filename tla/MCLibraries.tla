---------------------------- MODULE MCLibraries ----------------------------
(***************************************************************************)
(* The safety of the libraries, side by side for TLC: text and numbers,    *)
(* the database, the log, the sockets and the overlay network.  They share *)
(* no state: "part" says what this behaviour is about, and all else stays  *)
(* at its initial state.                                                   *)
(*                                                                         *)
(* A part about text writes every pair of strings x, y over its alphabets, *)
(* character by character, up to its lengths.  Each alphabet has the       *)
(* characters the code distinguishes and their neighbours; numbers have 8  *)
(* bits.  The overlay runs with one connection each way, or with two       *)
(* connections of the server, which one check of the loop may expire       *)
(* together; one of the former may be refused or fall silent.  A tick is   *)
(* 20 s: the timeout of 60 s is 3 ticks.                                   *)
(***************************************************************************)
EXTENDS Numerals, Urls, AsyncSocket, Storage, MCLogger, MCOverlay

CONSTANTS
    Pad, Junk,
    i2                  \* of InHdl

VARIABLES part, x, y

mcVars == <<part, x, y, vars, storageVars, loggerVars, networkVars>>

B == INSTANCE BaseN

BinHomeModel == <<Slash, 98>>
PrefixModel == <<100, Colon>>
ChainModel == <<97>>

\* The alphabets and lengths of x and y in the parts about text.
Alphabets(xs, xlen, ys, ylen) == [xs |-> xs, xlen |-> xlen, ys |-> ys, ylen |-> ylen]

Text ==
    [strings   |-> Alphabets({65, 97, 64, 96, 32, 59}, 3, {65, 97, 64, 96, 32, 59}, 2),
     integers  |-> Alphabets({48, 49, 50, 53, 57, 45, 43, 32}, 4, {}, 0),
     decimals  |-> Alphabets({48, 49, 57, 46, 120, 97, 45, 32}, 4, {}, 0),
     hex       |-> Alphabets({47, 48, 57, 58, 64, 65, 70, 71, 96, 97, 102, 103, 255}, 4, {}, 0),
     bytes     |-> Alphabets({0, 1, 90, 128, 255}, 5, {}, 0),
     url       |-> Alphabets({97, 46}, 2, {47, 46, 97, 63, 58, 56}, 3),
     normalize |-> Alphabets({97}, 1, {47, 46, 97, 63}, 5),
     path      |-> Alphabets({97, 47, 92}, 2, {47, 92, 97, 46, 58, 100}, 4)]

Semicolon == 59
Equal == 61
Decimals == 0 .. 3

MCInit ==
    /\ part \in DOMAIN Text \cup {"storage", "logger", "tcp", "overlay", "expiry"}
    /\ x = <<>> /\ y = <<>>
    /\ Init /\ StorageInit /\ L!Init /\ N!Init
    /\ part \in {"overlay", "expiry"} \/ ip = "given"

Write ==
    /\ part \in DOMAIN Text
    /\ \/ Len(x) < Text[part].xlen /\ (\E c \in Text[part].xs : x' = Append(x, c)) /\ y' = y
       \/ Len(y) < Text[part].ylen /\ (\E c \in Text[part].ys : y' = Append(y, c)) /\ x' = x
    /\ UNCHANGED <<vars, storageVars, loggerVars, networkVars>>

MCNext ==
    /\ UNCHANGED part
    /\ \/ Write
       \/ /\ part = "storage" /\ StorageNext
          /\ UNCHANGED <<x, y, vars, loggerVars, networkVars>>
       \/ /\ part = "logger" /\ L!Next
          /\ UNCHANGED <<x, y, vars, storageVars, networkVars>>
       \/ /\ part = "tcp" /\ Next
          /\ UNCHANGED <<x, y, storageVars, loggerVars, networkVars>>
       \/ /\ \/ /\ part = "overlay" /\ N!Next
                /\ ws'[i2] = "none" /\ Cardinality(silent') + Cardinality(refused') <= 1
             \/ part = "expiry" /\ N!Next /\ client_conns_' = {} /\ refused' = {}
          /\ UNCHANGED <<x, y, vars, storageVars, loggerVars>>

MCSpec == MCInit /\ [][MCNext]_mcVars

-----------------------------------------------------------------------------
(***************************************************************************)
(* Text and numbers.                                                       *)
(***************************************************************************)
JoinWith(pieces, sep) ==
    FoldLeft(LAMBDA acc, p : acc \o sep \o p, Head(pieces), Tail(pieces))

\* split loses nothing: its pieces, joined with the delimiter, are the string, whatever
\* stands at the ends or twice in a row.
SplitJoins == part = "strings" => JoinWith(split(x, Semicolon), <<Semicolon>>) = x

\* Replace meets each place once and never what it has put there: it is the pieces of split
\* joined with the new text, also when the new text holds what is replaced.
ReplaceIsJoin ==
    part = "strings" =>
        Replace(x, <<Semicolon>>, y) = JoinWith(split(x, Semicolon), y)

\* The two Strtok, with a separator and with a key of one character, give the same tokens
\* for a string that does not end with the separator.
TokensAgree ==
    (part = "strings" /\ x # <<>> /\ Last(x) # Semicolon) =>
        StrtokSep(x, Semicolon) = StrtokKey(x, <<Semicolon>>, -1, TRUE)

\* Two attributes written as k=v;v=k are read back by ParseAttribute and by ParseAttributes,
\* trimmed or not, empty names and values included.
AttributesRoundTrip ==
    LET text == x \o <<Equal>> \o y \o <<Semicolon>> \o y \o <<Equal>> \o x
        both == Update(Pair(x, y), Pair(y, x))
        trimmed == Update(Pair(Trim(x), Trim(y)), Pair(Trim(y), Trim(x)))
    IN (part = "strings" /\ \A c \in {Semicolon, Equal} : ~Contains(x, c) /\ ~Contains(y, c)) =>
          /\ ParseAttribute(text, Semicolon, Equal) = both
          /\ ParseAttributes(text, <<Semicolon>>, <<Equal>>, FALSE, FALSE) = both
          /\ ParseAttributes(text, <<Semicolon>>, <<Equal>>, FALSE, TRUE) = trimmed

\* The trimming functions agree: Trim with the Ltrim and Rtrim of lines, TrimLeft with
\* Ltrim, and TrimRight with Rtrim, except that of a string of spaces it keeps the first.
TrimsAgree ==
    part = "strings" =>
        /\ Trim(x) = Rtrim(Ltrim(x))
        /\ TrimLeft(x) = Ltrim(x)
        /\ TrimRight(x) = IF x # <<>> /\ Rtrim(x) = <<>> THEN <<Head(x)>> ELSE Rtrim(x)
        /\ Trim(x) # <<>> => ~IsSpace(Head(Trim(x))) /\ ~IsSpace(Last(Trim(x)))

\* EqualsIgnoreCase, which compares the characters by their distance, is equality of the
\* strings in lower case, and in upper case.
CaseFolding ==
    part = "strings" =>
        /\ EqualsIgnoreCase(x, y) <=> (ToLower(x) = ToLower(y))
        /\ EqualsIgnoreCase(x, y) <=> (ToUpper(x) = ToUpper(y))

\* The numbers of the width with their numerals, and the answer for a string that is one.
AllNumerals == [n \in -(2 ^ (Width - 1)) .. 2 ^ Width - 1 |-> NumeralOf(n)]

ReadExactly(str, range) ==
    LET numbers == {n \in range : AllNumerals[n] = str}
    IN IF numbers = {} THEN Failed ELSE Read(CHOOSE n \in numbers : TRUE)

\* SafeStoui and SafeStoui64 read exactly the numerals of the unsigned numbers of their
\* width: a value that wraps, a space, a sign or a leading zero is refused, and what passes
\* through a signed type comes out right.
SafeStouiExact ==
    part = "integers" =>
        LET exact == ReadExactly(x, 0 .. 2 ^ Width - 1)
        IN SafeStoui(x) = exact /\ SafeStoui64(x) = exact

\* SafeStoi and SafeStoi64 read exactly the numerals of the signed numbers of their width,
\* the least included, though atoi wraps and atoll stops at the bounds.
SafeStoiExact ==
    part = "integers" =>
        LET exact == ReadExactly(x, -(2 ^ (Width - 1)) .. 2 ^ (Width - 1) - 1)
        IN SafeStoi(x) = exact /\ SafeStoi64(x) = exact

\* What the scanner IsNumber accepts, by the shape of the whole string: blanks, a sign, and
\* digits, hexadecimal digits after 0x (perhaps none), or digits around one dot (perhaps
\* none at all).
IsNumberShape ==
    part = "decimals" =>
        LET All(s, C(_)) == \A i \in DOMAIN s : C(s[i])
            bodies == {SubSeq(x, b + 1, Len(x)) : b \in {n \in 0 .. Len(x) :
                         \E m \in 0 .. n : /\ \A i \in 1 .. m : IsBlank(x[i])
                                           /\ \/ n = m
                                              \/ n = m + 1 /\ x[n] \in {43, 45}}}
        IN /\ (IsNumber(x) = 1) = (\E s \in bodies : s # <<>> /\ All(s, IsDigit))
           /\ (IsNumber(x) = 2) =
                 (\E s \in bodies : /\ Len(s) >= 2 /\ s[1] = 48 /\ s[2] \in {120, 88}
                                    /\ All(SubSeq(s, 3, Len(s)), IsHexDigit))
           /\ (IsNumber(x) = 3) =
                 (\E s \in bodies : \E d \in DOMAIN s :
                     s[d] = Dot /\ \A i \in DOMAIN s \ {d} : IsDigit(s[i]))

\* An amount that FormatDecimal writes is a decimal number for IsDecNumber, has no zero at
\* the end of its fraction, and MultiplyDecimal gives the number back, except that of zero
\* nothing is left.
DecimalRoundTrip ==
    (part = "decimals" /\ x # <<>> /\ \A i \in DOMAIN x : IsDigit(x[i])) =>
        \A d \in Decimals :
            LET n == ValueOf(x)
                text == FormatDecimal(n, d)
            IN /\ IsDecNumber(text, d)
               /\ Contains(text, Dot) => Last(text) # Zero
               /\ MultiplyDecimal(text, d) = IF n = 0 THEN <<>> ELSE NumeralOf(n)

\* For every text that IsDecNumber accepts, MultiplyDecimal gives the digits of its value
\* times the power of ten, with no dot and no leading zero.
MultiplyDecimalExact ==
    \A d \in Decimals :
        (part = "decimals" /\ IsDecNumber(x, d)) =>
            LET dot_pos == Find(x, Dot, 0)
                right == IF dot_pos = NPos THEN 0 ELSE Len(x) - dot_pos - 1
                v == ValueOf(SelectSeq(x, IsDigit)) * 10 ^ (d - right)
            IN MultiplyDecimal(x, d) = IF v = 0 THEN <<>> ELSE Digits(v)

\* Reading hexadecimal is the inverse of writing it, up to the case of the letters; and
\* HexStringToBin refuses exactly what IsHexString does not accept (and the empty string),
\* with force_little capital letters too.
HexRoundTrip ==
    part = "hex" =>
        /\ \A force_little \in BOOLEAN :
              LET bin == HexStringToBin(x, force_little) IN
              /\ bin # <<>> => BinToHexString(bin) = ToLower(x)
              /\ HexStringToBin(BinToHexString(x), force_little) = x
        /\ (HexStringToBin(x, FALSE) # <<>>) = (IsHexString(x) /\ x # <<>>)
        /\ (HexStringToBin(x, TRUE) # <<>>) =
              (IsHexString(x) /\ x # <<>> /\ ToLower(x) = x)

\* What utils/basen.h encodes is decoded to the same bytes in each base, though a group may
\* span two bytes and the last one be incomplete; a character that is in no dictionary, or a
\* space, between the others changes nothing.
EncodingRoundTrip ==
    part = "bytes" =>
        \A group \in {4, 5, 6} :
            LET text == B!Encode(x, group) IN
            /\ B!Decode(text, group) = x
            /\ \A i \in 0 .. Len(text) :
                  B!Decode(SubSeq(text, 1, i) \o <<Junk>> \o SubSeq(text, i + 1, Len(text)), group) = x

\* encoded_size is the length of what encode writes, padding included.
SizeIsExact ==
    part = "bytes" =>
        \A group \in {4, 5, 6} : Len(B!Encode(x, group)) = B!encoded_size(group, Len(x))

Http == <<72>> \o ProtocolMark

\* A URL put together from a protocol, a host or an address of IPv6 in brackets, a port and
\* a path is taken apart into them, whatever colons, question marks and dots the path has.
UrlTakenApart ==
    \A ipv6, ported \in BOOLEAN :
        LET host == IF ipv6 THEN <<91>> \o x \o <<Colon>> \o x \o <<93>> ELSE x
            url == Http \o host \o (IF ported THEN <<Colon, 56>> ELSE <<>>) \o y
            file == IF y = <<>> THEN <<Slash>> ELSE y
        IN (part = "url" /\ host # <<>> /\ (y # <<>> => Head(y) = Slash)) =>
              /\ ParseUrl(url).protocol = <<104>>
              /\ ParseUrl(url).host = host
              /\ ParseUrl(url).port = IF ported THEN 8 ELSE 0
              /\ ParseUrl(url).file = NormalizeUrlPath(file)
              /\ Head(ParseUrl(url).path) = Slash /\ Last(ParseUrl(url).path) = Slash

\* The loops of NormalizeUrlPath leave nothing for each other to do: what is normalised is
\* not changed again.  With a protocol there is no empty, . or .. segment left between the
\* host and a question mark.  Without one, as ParseUrl calls it, all before the first slash
\* from the third character on stays as it is (so do /../a, /./a and //a), and the rest is
\* normalised as it would be after a host.
NormalizeSettles ==
    part = "normalize" =>
        LET url == Http \o x \o y
            n == NormalizeUrlPath(url)
            name == SubStr(n, 0, Find(n, Question, 0))
            host_end == Len(Http) + Len(x)
            kept == Min({i \in Min({2, Len(y)}) .. Len(y) : i = Len(y) \/ (i >= 2 /\ At(y, i) = Slash)})
            rest == SubStr(y, kept, NPos)
        IN /\ \A u \in {y, url} : NormalizeUrlPath(NormalizeUrlPath(u)) = NormalizeUrlPath(u)
           /\ (y # <<>> /\ Head(y) = Slash) =>
                 \A mark \in {DotSegment, TwoSlashes, UpSegment} :
                     FindStr(name, mark, host_end) = NPos
           /\ NormalizeUrlPath(y) =
                 IF Find(y, Question, 0) < kept THEN y
                 ELSE SubStr(y, 0, kept) \o SubStr(NormalizeUrlPath(Http \o rest), Len(Http), NPos)

\* The directory and the file of a path make up the path again, backslashes included, and
\* the directory of an absolute path, the root too, is absolute.
PathRecomposes ==
    part = "path" =>
        LET above == GetUpLevelPath(y)
            file == GetFileFromPath(y)
        IN /\ RegularPath(y) \in {above \o file, above \o <<Slash>> \o file}
           /\ IsAbsolute(y) => IsAbsolute(above)

\* A path made absolute is absolute, is not changed when it is made absolute again, and
\* names the same file.
AbsoluteStays ==
    part = "path" =>
        \A base \in {<<>>, <<Slash>> \o x} :
            LET path == ConvertToAbsolutePath(y, base) IN
            /\ IsAbsolute(path)
            /\ ConvertToAbsolutePath(path, x) = path
            /\ GetFileFromPath(path) = GetFileFromPath(y)

\* CheckPrefix accepts exactly the addresses that Encode makes, and Decode gives back what
\* was encoded.
PrefixRoundTrip ==
    part = "path" =>
        /\ CheckPrefix(y) = (y = Encode(Decode(y)))
        /\ ~Contains(y, Colon) => Decode(Encode(y)) = y /\ CheckPrefix(Encode(y))

\* What the conversions of text promise each other: splitting, joining, replacing, the two
\* tokenizers, the two readers of attributes, the trims and the comparisons without case
\* (strings.h) agree; a URL and a path (file.cpp) come apart into what they are made of, and
\* normalising them settles; an address survives its prefix (general.cpp).
TextsAgree ==
    /\ SplitJoins /\ ReplaceIsJoin /\ TokensAgree /\ AttributesRoundTrip /\ TrimsAgree
    /\ CaseFolding
    /\ UrlTakenApart /\ NormalizeSettles
    /\ PathRecomposes /\ AbsoluteStays /\ PrefixRoundTrip

\* What the conversions of numbers and bytes promise: a number that does not fit its type is
\* refused and every other is read exactly, amounts are written and multiplied exactly, and
\* hexadecimal, base 32 and base 64 give back the bytes that were encoded.
NumbersExact ==
    /\ SafeStouiExact /\ SafeStoiExact /\ IsNumberShape
    /\ DecimalRoundTrip /\ MultiplyDecimalExact
    /\ HexRoundTrip /\ EncodingRoundTrip /\ SizeIsExact
=============================================================================
