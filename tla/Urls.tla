-------------------------------- MODULE Urls --------------------------------
(***************************************************************************)
(* Names with parts: ParseUrl and NormalizeUrlPath (utils/strings.h), the  *)
(* paths of utils/file.cpp and the addresses of common/general.cpp.        *)
(***************************************************************************)
EXTENDS Strings

CONSTANTS
    BinHome,            \* GetBinHome
    address_prefix_, chain_code_

Slash == 47
Backslash == 92
Colon == 58
Question == 63
Sharp == 35
ProtocolMark == <<Colon, Slash, Slash>>
DotSegment == <<Slash, 46, Slash>>
TwoSlashes == <<Slash, Slash>>
UpSegment == <<Slash, 46, 46, Slash>>

(***************************************************************************)
(* NormalizeUrlPath.                                                       *)
(***************************************************************************)
ProtocolPos(s) ==
    LET pos == FindStr(s, ProtocolMark, 0)
    IN IF pos > Find(s, Question, 0) \/ pos > Find(s, Sharp, 0) THEN NPos ELSE pos

\* Where the path begins: the first slash after the protocol.  Without a protocol npos + 3
\* wraps to 2.
ValidPos(s) ==
    LET from == IF ProtocolPos(s) > 0 THEN (ProtocolPos(s) + 3) % (NPos + 1) ELSE 0
    IN IF from >= Len(s) THEN from
       ELSE Min({i \in from .. Len(s) : i = Len(s) \/ At(s, i) = Slash})

\* One mark erased: /./ and // become /, and /../ goes with the segment before it.
EraseMark(s, mark, at, valid) ==
    LET begin == IF mark # UpSegment THEN at
                 ELSE IF at > valid THEN Max({i \in valid .. at - 1 : i = valid \/ At(s, i) = Slash})
                 ELSE valid
        count == at + Len(mark) - 1 - begin
    IN SubStr(s, 0, begin) \o SubStr(s, begin + count, NPos)

RECURSIVE EraseMarks(_, _, _)
EraseMarks(s, mark, valid) ==
    LET at == FindStr(s, mark, valid) IN
    IF at < Find(s, Question, 0) /\ at < Find(s, Sharp, 0)
    THEN EraseMarks(EraseMark(s, mark, at, valid), mark, valid)
    ELSE s

\* A slash is put between a domain and the question mark that follows it.
WithSlash(s) ==
    LET name_end == Find(s, Question, 0) IN
    IF name_end < ValidPos(s) /\ ProtocolPos(s) # NPos
    THEN [s |-> SubStr(s, 0, name_end) \o <<Slash>> \o SubStr(s, name_end, NPos), valid |-> name_end]
    ELSE [s |-> s, valid |-> ValidPos(s)]

NormalizeUrlPath(s) ==
    LET w == WithSlash(s)
    IN EraseMarks(EraseMarks(EraseMarks(w.s, DotSegment, w.valid), TwoSlashes, w.valid),
                  UpSegment, w.valid)

(***************************************************************************)
(* ParseUrl.                                                               *)
(***************************************************************************)
IsAlnum(c) == CharIsLetter(c) \/ IsDigit(c)

\* Where the host begins, after a protocol of letters and digits and any slashes.
HostPos(url) ==
    LET pos == Find(url, Colon, 0)
        valid == pos # NPos /\ \A i \in 1 .. pos : IsAlnum(url[i])
    IN IF ~valid THEN 0
       ELSE Min({i \in pos + 1 .. Len(url) : i = Len(url) \/ At(url, i) # Slash})

\* The port is looked for after the ] of an address of IPv6, and before the path.
PortPos(url) ==
    LET ipv6 == Find(url, 93, HostPos(url))
        pos == Find(url, Colon, IF ipv6 # NPos THEN ipv6 ELSE HostPos(url))
    IN IF pos > Find(url, Slash, HostPos(url)) THEN NPos ELSE pos

\* The directory of a file name, up to its ?, as /name/.
DirectoryOf(file) ==
    LET pos == RFindChar(file, Slash, Find(file, Question, 0))
        dir == IF pos \in {NPos, 0} THEN <<Slash>> ELSE SubStr(file, 0, pos)
    IN IF Last(dir) = Slash THEN dir ELSE Append(dir, Slash)

Number(s) ==
    LET t == Ltrim(s)
        n == Max({i \in 0 .. Len(t) : \A j \in 1 .. i : IsDigit(t[j])})
    IN FoldLeft(LAMBDA v, c : (10 * v + (c - 48)) % 2 ^ 16, 0, SubSeq(t, 1, n))

ParseUrl(url) ==
    LET host_pos == HostPos(url)
        port_pos == PortPos(url)
        path_pos == Find(url, Slash, host_pos)
        end == IF port_pos # NPos /\ port_pos > host_pos THEN port_pos ELSE path_pos
        file == IF path_pos = NPos THEN <<Slash>> ELSE SubStr(url, path_pos, NPos)
    IN [protocol |-> IF host_pos = 0 THEN <<>> ELSE ToLower(SubStr(url, 0, Find(url, Colon, 0))),
        host |-> SubStr(url, host_pos, end - host_pos),
        port |-> IF port_pos = NPos THEN 0 ELSE Number(SubStr(url, port_pos + 1, NPos)),
        path |-> NormalizeUrlPath(DirectoryOf(file)),
        file |-> NormalizeUrlPath(file)]

(***************************************************************************)
(* Paths of files.                                                         *)
(***************************************************************************)
RegularPath(path) == Replace(path, <<Backslash>>, <<Slash>>)

IsAbsolute(path) == RegularPath(path) # <<>> /\ Head(RegularPath(path)) = Slash

ConvertToAbsolutePath(path, base_path) ==
    IF IsAbsolute(path) THEN RegularPath(path)
    ELSE RegularPath((IF base_path = <<>> THEN BinHome ELSE base_path) \o <<Slash>> \o path)

GetFileFromPath(path) ==
    LET regular == RegularPath(path)
        pos == RFindChar(regular, Slash, NPos)
    IN IF pos = NPos THEN regular ELSE SubStr(regular, pos + 1, NPos)

GetUpLevelPath(path) ==
    LET normal == RegularPath(path)
        pos == RFindChar(normal, Slash, NPos)
    IN IF pos = NPos THEN <<>> ELSE SubStr(normal, 0, IF pos = 0 THEN 1 ELSE pos)

(***************************************************************************)
(* AddressPrefix.                                                          *)
(***************************************************************************)
Encode(address) ==
    address_prefix_ \o (IF chain_code_ = <<>> THEN <<>> ELSE Append(chain_code_, Colon)) \o address

Decode(address) ==
    LET pos == RFindChar(address, Colon, NPos)
    IN IF pos = NPos THEN address ELSE SubStr(address, pos + 1, NPos)

CheckPrefix(address) ==
    LET pos == RFindChar(address, Colon, NPos)
        local_prefix == address_prefix_ \o (IF chain_code_ = <<>> THEN <<>> ELSE Append(chain_code_, Colon))
    IN pos # NPos /\ SubStr(address, 0, pos + 1) = local_prefix
=============================================================================
