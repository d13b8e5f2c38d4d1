-------------------------------- MODULE Wire --------------------------------
(***************************************************************************)
(* The codec: how one message is written (p9_do_vsend), how the body of a  *)
(* reply is read (p9_do_vrecv), how an error reply becomes an error code   *)
(* (9p-err.c), and how the stats and directory entries within a reply are  *)
(* parsed (9p.c).  P9Rpc has who reads and writes; here one thread has the *)
(* connection, or a buffer, to itself.                                     *)
(*                                                                         *)
(* A message is its bytes counted.  The server (external) decides the      *)
(* sizes and lengths that are read, whether or not they make sense, and    *)
(* the connection may end, or a read of it fail, within any element.       *)
(***************************************************************************)
EXTENDS Integers, Sequences

CONSTANTS
  Versions,      \* what the server may speak
  Requests,      \* sequences of elements that are sent
  Formats,       \* sequences of elements that are expected in replies
  Sizes,         \* of the messages and buffers that come
  Lengths,       \* of the strings, data and arrays within them
  Names,         \* lengths of the strings a wstat sets
  StreamEnds     \* what may cut a reply short: "eof", or an "error" of fread

P9_VERSION_2000 == 0
P9_VERSION_2000_U == 1
P9_VERSION_2000_L == 2

(* The elements of a format: numbers by their width, data, a string, an    *)
(* array of names or of qids, and the question whether there is more.  In  *)
(* a request n has the lengths, in the format of a reply to a read the     *)
(* room for the data.                                                      *)
Numbers == {"1", "2", "4", "8"}
Element == [f : Numbers \cup {"d", "s", "S", "Q", "?"}, n : Seq(Nat)]
El(f, n) == [f |-> f, n |-> n]

ASSUME VersionsAssumption == Versions \subseteq P9_VERSION_2000 .. P9_VERSION_2000_L
ASSUME FormatsAssumption ==
  /\ Requests \subseteq Seq(Element) /\ Formats \subseteq Seq(Element)
  /\ \A fmt \in Formats : \A i \in DOMAIN fmt :
       fmt[i].f # "S" /\ (fmt[i].f = "d" => Len(fmt[i].n) = 1)
  /\ \A fmt \in Requests : \A i \in DOMAIN fmt :
       fmt[i].f \notin {"Q", "?"} /\ (fmt[i].f \in {"d", "s"} => Len(fmt[i].n) = 1)
ASSUME LengthsAssumption == Sizes \subseteq Nat /\ Lengths \subseteq Nat /\ Names \subseteq Nat
ASSUME StreamAssumption == StreamEnds \subseteq {"eof", "error"}

VARIABLES
  p9_version,
  step,       \* what the codec is doing
  rest,       \* the elements it still has to send or expects
  size,       \* of the message or the buffer, as announced
  count,      \* bytes written, bytes_read, or *consumed
  stream,     \* how far into the message the connection has been read
  type,       \* of the reply: the "match" of the request, "lerror", "error" or any "other"
  why,        \* what an error reply says
  err,
  room, data, \* room for data in the caller's buffer, and what was put there
  s_size,     \* of a stat within a buffer: s->size; of a wstat: stat_size
  types,      \* ghost: a file's type as io_stat and as dir_readdir tell it
  ended,      \* "no", or "eof" or "error": feof, ferror of the connection
  whole       \* ghost: all that was read so far ends within the message

reading == <<stream, type, why, room, data, ended, whole>>
wireVars == <<p9_version, step, rest, size, count, reading, err, s_size, types>>

None == "none"
NoReason == [text |-> None, lerr |-> 0]

CodecInit ==
  /\ step = "idle" /\ rest = <<>> /\ size = 0 /\ count = 0 /\ stream = 0
  /\ type = "match" /\ why = NoReason /\ err = None /\ room = 0 /\ data = 0
  /\ s_size = 0 /\ types = <<>> /\ ended = "no" /\ whole = TRUE

WireInit == p9_version \in Versions /\ CodecInit

Header == 4 + 1 + 2

(***************************************************************************)
(* Sending.                                                                *)
(***************************************************************************)
Sum(s) == LET upto[i \in 0 .. Len(s)] == IF i = 0 THEN 0 ELSE upto[i - 1] + s[i] IN upto[Len(s)]

Width(f) == CASE f = "1" -> 1 [] f = "2" -> 2 [] f = "4" -> 4 [] f = "8" -> 8

(* A mutant: the names of an array without the lengths before them.        *)
SerializedSizeBare(e) ==
  CASE e.f \in Numbers -> Width(e.f)
    [] e.f = "d" -> 4 + e.n[1]
    [] e.f = "s" -> 2 + e.n[1]
    [] e.f = "S" -> Sum(e.n)

SerializedSize(e) ==
  CASE e.f \in Numbers -> Width(e.f)
    [] e.f = "d" -> 4 + e.n[1]
    [] e.f = "s" -> 2 + e.n[1]
    [] e.f = "S" -> 2 * Len(e.n) + Sum(e.n)

p9_serialized_size(fmt) == Sum([i \in DOMAIN fmt |-> SerializedSize(fmt[i])])

(* The writes an element is made of.                                       *)
Writes(e) ==
  CASE e.f \in Numbers -> <<Width(e.f)>>
    [] e.f = "d" -> <<4, e.n[1]>>
    [] e.f \in {"s", "S"} -> [i \in 1 .. 2 * Len(e.n) |-> IF i % 2 = 1 THEN 2 ELSE e.n[i \div 2]]

SendHeader(fmt, inner) ==
  /\ step' = "send" /\ rest' = fmt
  /\ size' = Header + p9_serialized_size(fmt) /\ count' = Header /\ s_size' = inner
  /\ UNCHANGED <<p9_version, reading, err, types>>

BeginSend == step = "idle" /\ \E fmt \in Requests : SendHeader(fmt, 0)

(* A wstat holds a stat in the form the version has, with two lengths      *)
(* before it.                                                              *)
P9_STAT_BASIC(name) ==
  <<El("2", <<>>), El("2", <<>>), El("4", <<>>), El("1", <<>>), El("4", <<>>), El("8", <<>>),
    El("4", <<>>), El("4", <<>>), El("4", <<>>), El("8", <<>>),
    El("s", <<name>>), El("s", <<0>>), El("s", <<0>>), El("s", <<0>>)>>

StatFormat(name) ==
  P9_STAT_BASIC(name) \o
    (IF p9_version >= P9_VERSION_2000_U
       THEN <<El("s", <<0>>), El("4", <<>>), El("4", <<>>), El("4", <<>>)>> ELSE <<>>)

(* stat_size has 16 bits.                                                  *)
StatSize(name) == p9_serialized_size(StatFormat(name)) % 65536

p9_wstat ==
  /\ step = "idle"
  /\ \E name \in Names :
       SendHeader(<<El("4", <<>>), El("2", <<>>)>> \o StatFormat(name), StatSize(name))

Send ==
  /\ step = "send" /\ rest # <<>>
  /\ rest' = Tail(rest) /\ count' = count + Sum(Writes(Head(rest)))
  /\ UNCHANGED <<p9_version, step, size, reading, err, s_size, types>>

Sent ==
  /\ step = "send" /\ rest = <<>> /\ step' = "sent"
  /\ UNCHANGED <<p9_version, rest, size, count, reading, err, s_size, types>>

(***************************************************************************)
(* Errors (9p-err.c).                                                      *)
(***************************************************************************)
error_patterns == <<
  <<"permitted", "EPERM">>, <<"permission", "EACCES">>, <<"access", "EACCES">>,
  <<"exists", "EEXIST">>, <<"exist", "ENOENT">>, <<"no such", "ENOENT">>, <<"not found", "ENOENT">>,
  <<"not implemented", "ENOSYS">>, <<"input/output", "EIO">>, <<"timeout", "ETIMEDOUT">>,
  <<"timed out", "ETIMEDOUT">>, <<"i/o", "EIO">>, <<"too long", "E2BIG">>, <<"interrupt", "EINTR">>,
  <<"no such", "ENODEV">>, <<"bad file", "EBADF">>, <<" fid ", "EBADF">>, <<"temporar", "EAGAIN">>,
  <<"memory", "ENOMEM">>, <<"is a directory", "EISDIR">>, <<"directory", "ENOTDIR">>,
  <<"argument", "EINVAL">>, <<"pipe", "EPIPE">>, <<"in use", "EBUSY">>, <<"busy", "EBUSY">>,
  <<"illegal", "EINVAL">>, <<"invalid", "EINVAL">>, <<"read-only", "EROFS">>, <<"read only", "EROFS">>,
  <<"stale ", "ESTALE">>, <<"proto", "EPROTO">>, <<"entry", "ENOENT">> >>

(* The texts that hold a pattern hold also those that are part of it.      *)
Holds(text) ==
  {text} \cup (CASE text = "exists" -> {"exist"}
                 [] text = "is a directory" -> {"directory"}
                 [] OTHER -> {})

FirstOf(S) == CHOOSE i \in S : \A j \in S : i <= j
Matching(text) == {i \in DOMAIN error_patterns : error_patterns[i][1] \in Holds(text)}

p9_error_to_err(text) ==
  IF Matching(text) = {} THEN "EIO" ELSE error_patterns[FirstOf(Matching(text))][2]

(* By their numbers in Linux.                                              *)
lerrors == <<
  "EPERM", "ENOENT", "ESRCH", "EINTR", "EIO", "ENXIO", "E2BIG", "ENOEXEC", "EBADF", "ECHILD",
  "EAGAIN", "ENOMEM", "EACCES", "EFAULT", "ENOTBLK", "EBUSY", "EEXIST", "EXDEV", "ENODEV", "ENOTDIR",
  "EISDIR", "EINVAL", "ENFILE", "EMFILE", "ENOTTY", "ETXTBSY", "EFBIG", "ENOSPC", "ESPIPE", "EROFS",
  "EMLINK", "EPIPE", "EDOM", "ERANGE", "EDEADLK", "ENAMETOOLONG", "ENOLCK", "ENOSYS", "ENOTEMPTY",
  "ELOOP", "EWOULDBLOCK" >>

p9_lerror_to_err(lerr) ==
  IF lerr \in DOMAIN lerrors THEN lerrors[lerr] ELSE IF lerr = 95 THEN "EOPNOTSUPP" ELSE "EIO"

(* What the server says in errors: texts with one pattern, some numbers.   *)
Texts == {error_patterns[i][1] : i \in DOMAIN error_patterns} \cup {"something else"}
Lerrs == {0, 2, 41, 95, 116}
Reasons == [text : Texts, lerr : {0}] \cup [text : {None}, lerr : Lerrs]

(***************************************************************************)
(* Receiving: the header of the reply has been read.                       *)
(***************************************************************************)
ErrorFormat ==
  IF p9_version >= P9_VERSION_2000_U THEN <<El("s", <<>>), El("4", <<>>)>> ELSE <<El("s", <<>>)>>

(* A reply of a type that does not match is not read.  At the end of the   *)
(* stream there is no header; an error does not keep the next from being   *)
(* read.  The size it announces may be anything, also less than its own.   *)
BeginRecv ==
  /\ step = "idle" /\ ended # "eof"
  /\ size' \in Sizes /\ count' = Header /\ stream' = Header /\ whole' = (Header <= size')
  /\ \/ /\ type' = "match" /\ why' = NoReason /\ err' = None
        /\ \E fmt \in Formats : step' = "recv" /\ rest' = fmt
     \/ /\ type' = "lerror" /\ why' \in {r \in Reasons : r.text = None} /\ err' = None
        /\ step' = "recv" /\ rest' = <<El("4", <<>>)>>
     \/ /\ type' = "error" /\ why' \in {r \in Reasons : r.text # None} /\ err' = None
        /\ step' = "recv" /\ rest' = ErrorFormat
     \/ type' = "other" /\ why' = NoReason /\ err' = "EIEIO" /\ step' = "out" /\ rest' = <<>>
  /\ UNCHANGED <<p9_version, room, data, s_size, types, ended>>

(* The stream ends; an error of it stays.                                  *)
Ends == ended' \in StreamEnds /\ (ended = "error" => ended' = "error")

(* fread takes n bytes of the connection.                                  *)
Took(n) == count' = count + n /\ stream' = stream + n

Expecting(f) ==
  /\ step = "recv" /\ rest # <<>> /\ Head(rest).f \in f
  /\ count < size
  /\ UNCHANGED <<p9_version, size, type, why, s_size, types>>

(* whole: as a server that sends complete elements makes it.               *)
Within(n) == whole' = (whole /\ count + n <= size)
Next1 == step' = "recv" /\ rest' = Tail(rest) /\ UNCHANGED err
Fails(e) == step' = "out" /\ err' = e /\ UNCHANGED rest

(* fread comes short, after n bytes were read and counted: the call stops  *)
(* reading, and there is no error but that of the stream, if any.          *)
CutAfter(n) == Took(n) /\ Fails(None) /\ Ends

(* A mutant: a message that ends early has just no more outputs.           *)
TooShortIgnored ==
  /\ step = "recv" /\ rest # <<>> /\ Head(rest).f # "?" /\ count >= size
  /\ Fails(None)
  /\ UNCHANGED <<p9_version, size, count, reading, s_size, types>>

TooShort ==
  /\ step = "recv" /\ rest # <<>> /\ Head(rest).f # "?" /\ count >= size
  /\ Fails("EIO")
  /\ UNCHANGED <<p9_version, size, count, reading, s_size, types>>

AnyMore ==
  /\ step = "recv" /\ rest # <<>> /\ Head(rest).f = "?"
  /\ IF count < size THEN Next1 ELSE Fails(None)
  /\ UNCHANGED <<p9_version, size, count, reading, s_size, types>>

ReadNumber ==
  /\ Expecting(Numbers)
  /\ Within(Width(Head(rest).f))
  /\ \/ Took(Width(Head(rest).f)) /\ Next1 /\ UNCHANGED ended
     \/ CutAfter(0)
  /\ UNCHANGED <<room, data>>

TooMuch(n) == n > Head(rest).n[1]

ReadData ==
  /\ Expecting({"d"}) /\ room' = Head(rest).n[1]
  /\ \E n \in Lengths :
       /\ Within(4 + n)
       /\ \/ TooMuch(n) /\ Took(4) /\ Fails("EOVERFLOW") /\ data' = 0 /\ UNCHANGED ended
          \/ ~TooMuch(n) /\ Took(4 + n) /\ Next1 /\ data' = n /\ UNCHANGED ended
          \/ CutAfter(0) /\ data' = 0
          \/ ~TooMuch(n) /\ CutAfter(4) /\ data' \in 0 .. n - 1

(* The memory for strings and qids may be lacking.  Of the numbers within  *)
(* qids, the first and those of the last one stand for all.                *)
ReadString ==
  /\ Expecting({"s"})
  /\ \E n \in Lengths :
       /\ Within(2 + n)
       /\ \/ Took(2) /\ Fails("ENOMEM") /\ UNCHANGED ended
          \/ Took(2 + n) /\ Next1 /\ UNCHANGED ended
          \/ CutAfter(0)
          \/ n > 0 /\ CutAfter(2)
  /\ UNCHANGED <<room, data>>

ReadQids ==
  /\ Expecting({"Q"})
  /\ \E n \in Lengths :
       /\ Within(2 + 13 * n)
       /\ \/ Took(2) /\ Fails("ENOMEM") /\ UNCHANGED ended
          \/ Took(2 + 13 * n) /\ Next1 /\ UNCHANGED ended
          \/ CutAfter(0)
          \/ n > 0 /\ \E k \in {0, 13 * n - 12, 13 * n - 8} : CutAfter(2 + k)
  /\ UNCHANGED <<room, data>>

Left == IF ended = "no" /\ count < size THEN size - count ELSE 0

(* A mutant: a reply that was refused is left where it is.                 *)
DrainUnlessFailed == stream' = (IF err = None THEN stream + Left ELSE stream) /\ UNCHANGED ended

(* What is left of the message is read and dropped.                        *)
Drain ==
  \/ stream' = stream + Left /\ UNCHANGED ended
  \/ Left > 0 /\ UNCHANGED stream /\ Ends

(* An error of the stream fails the call, its end does not.                *)
StreamError == IF err = None /\ ended' = "error" THEN "ferror" ELSE err

(* At the end of the stream an error reply has told nothing yet: its       *)
(* number is not initialized, its text not terminated.                     *)
Untold == step = "out" /\ err = None /\ ended = "eof"

Outcomes ==
  CASE StreamError # None \/ type = "match" -> {StreamError}
    [] StreamError = None /\ type = "lerror" ->
         {p9_lerror_to_err(lerr) : lerr \in IF Untold THEN Lerrs ELSE {why.lerr}}
    [] StreamError = None /\ type = "error" ->
         {p9_error_to_err(text) : text \in IF Untold /\ Head(rest).f = "s" THEN Texts ELSE {why.text}}

(* Without even a length there is no text: strcasestr is given NULL.       *)
NoText == Untold /\ type = "error" /\ count = Header

EndRecv ==
  /\ step = "out" \/ (step = "recv" /\ rest = <<>>)
  /\ Drain /\ err' \in Outcomes
  /\ step' = IF NoText THEN "crashed" ELSE "returned"
  /\ UNCHANGED <<p9_version, rest, size, count, type, why, room, data, s_size, types, whole>>

(***************************************************************************)
(* Parsing the data of a reply to a read of a directory (9p.c).            *)
(***************************************************************************)
P9_STAT_MIN_SIZE == 2 + 4 + 13 + 4 + 4 + 4 + 8 + 2 + 2 + 2 + 2
P9_U_STAT_MIN_SIZE == P9_STAT_MIN_SIZE + 2 + 4 + 4 + 4
MinSize == IF p9_version >= P9_VERSION_2000_U THEN P9_U_STAT_MIN_SIZE ELSE P9_STAT_MIN_SIZE

BufferSame == UNCHANGED <<p9_version, rest, size, reading, types>>

Malformed == step' = "refused" /\ err' = "EIO"
Goes(label) == step' = label /\ UNCHANGED err

(* One stat or, in 9P2000.L, one directory entry from a buffer.            *)
BeginParse ==
  /\ step = "idle"
  /\ size' \in Sizes
  /\ \/ p9_version >= P9_VERSION_2000_L /\ size' < 24 /\ Malformed /\ count' = 0
     \/ p9_version >= P9_VERSION_2000_L /\ size' >= 24 /\ Goes("dirent_name") /\ count' = 22
     \/ p9_version < P9_VERSION_2000_L /\ size' < 2 /\ Malformed /\ count' = 0
     \/ p9_version < P9_VERSION_2000_L /\ size' >= 2 /\ Goes("stat_size") /\ count' = 0
  /\ UNCHANGED <<p9_version, rest, reading, s_size, types>>

(* The size, and the fields of fixed size.                                 *)
ParseFixed ==
  /\ step = "stat_size"
  /\ s_size' \in Sizes
  /\ \/ (s_size' + 2 > size \/ s_size' < MinSize) /\ Malformed /\ count' = count + 2
     \/ ~(s_size' + 2 > size \/ s_size' < MinSize) /\ Goes("name") /\ count' = count + 2 + 39
  /\ BufferSame

(* A mutant: the check is made before the length of the next is read.      *)
ReserveNone == [name |-> 0, uid |-> 0, gid |-> 0, muid |-> 0, extension |-> 0]

(* The strings: the bytes that each must leave, and what comes after it.   *)
Reserve == [name |-> 2, uid |-> 2, gid |-> 2, muid |-> 0, extension |-> 4 + 4 + 4]
Following == [name |-> "uid", uid |-> "gid", gid |-> "muid", extension |-> "numbers",
              muid |-> IF p9_version < P9_VERSION_2000_U THEN "parsed" ELSE "extension"]

(* Before the extension there is a check of its own.                       *)
ParseString ==
  /\ step \in DOMAIN Reserve
  /\ \/ step = "extension" /\ count + 2 > s_size + 2 /\ Malformed /\ UNCHANGED count
     \/ /\ step = "extension" => count + 2 <= s_size + 2
        /\ \E n \in Lengths :
             \/ count + 2 + n + Reserve[step] > s_size + 2 /\ Malformed /\ count' = count + 2
             \/ /\ count + 2 + n + Reserve[step] <= s_size + 2
                /\ \/ step' = "refused" /\ err' = "ENOMEM" /\ count' = count + 2
                   \/ Goes(Following[step]) /\ count' = count + 2 + n
  /\ BufferSame /\ UNCHANGED s_size

ParseNumbers ==
  /\ step = "numbers" /\ Goes("parsed") /\ count' = count + 4 + 4 + 4
  /\ BufferSame /\ UNCHANGED s_size

(* Here a failing strndup is not noticed: the wrong pointer is tested.     *)
ParseDirentName ==
  /\ step = "dirent_name"
  /\ \E n \in Lengths :
       \/ count + 2 + n > size /\ Malformed /\ count' = count + 2
       \/ count + 2 + n <= size /\ Goes("parsed") /\ count' = count + 2 + n
  /\ BufferSame /\ UNCHANGED s_size

(***************************************************************************)
(* The type of a file, from the mode in its stat: the bits of S_IFMT for   *)
(* io_stat, a number for dir_readdir.                                      *)
(***************************************************************************)
SOCK == {14, 15}
LNK == {13, 15}
REG == {15}
BLK == {13, 14}
DIR == {14}
CHR == {13}
FIFO == {12}

Extended == {"socket", "fifo", "dev", "symlink"}

p9_mode_to_mode(p9_mode, is_blockdev) ==
  LET bits == UNION {CASE m = "dir" -> DIR
                       [] m \in Extended /\ p9_version < P9_VERSION_2000_U -> {}
                       [] m = "socket" /\ p9_version >= P9_VERSION_2000_U -> SOCK
                       [] m = "fifo" /\ p9_version >= P9_VERSION_2000_U -> FIFO
                       [] m = "dev" /\ p9_version >= P9_VERSION_2000_U -> IF is_blockdev THEN BLK ELSE CHR
                       [] m = "symlink" /\ p9_version >= P9_VERSION_2000_U -> LNK : m \in p9_mode}
  IN IF bits = {} THEN REG ELSE bits

(* A mutant: links are links whatever the version.                         *)
p9_mode_to_d_type_links(p9_mode, is_blockdev) ==
  IF "symlink" \in p9_mode THEN "DT_LNK" ELSE IF "dir" \in p9_mode THEN "DT_DIR" ELSE "DT_REG"

p9_mode_to_d_type(p9_mode, is_blockdev) ==
  LET has(m) == m \in p9_mode /\ p9_version >= P9_VERSION_2000_U
  IN IF has("socket") THEN "DT_SOCK"
     ELSE IF has("fifo") THEN "DT_FIFO"
     ELSE IF has("dev") THEN (IF is_blockdev THEN "DT_BLK" ELSE "DT_CHR")
     ELSE IF has("symlink") THEN "DT_LNK"
     ELSE IF "dir" \in p9_mode THEN "DT_DIR" ELSE "DT_REG"

(* Servers set at most one type.  The extension says what a device is.  In *)
(* 9P2000.L entries come with their type.                                  *)
Classify ==
  /\ step = "parsed" /\ p9_version < P9_VERSION_2000_L /\ types = <<>>
  /\ \E p9_mode \in {{}, {"dir"}, {"socket"}, {"fifo"}, {"dev"}, {"symlink"}}, is_blockdev \in BOOLEAN :
       /\ is_blockdev => p9_version >= P9_VERSION_2000_U
       /\ types' = <<p9_mode_to_mode(p9_mode, is_blockdev), p9_mode_to_d_type(p9_mode, is_blockdev)>>
  /\ UNCHANGED <<p9_version, step, rest, size, count, reading, err, s_size>>

(* The next message.                                                       *)
Again ==
  /\ step \in {"sent", "returned", "refused", "parsed"}
  /\ step' = "idle" /\ rest' = <<>> /\ size' = 0 /\ count' = 0 /\ stream' = 0
  /\ type' = "match" /\ why' = NoReason /\ err' = None /\ room' = 0 /\ data' = 0
  /\ s_size' = 0 /\ types' = <<>> /\ whole' = TRUE
  /\ UNCHANGED <<p9_version, ended>>

WireNext ==
  \/ BeginSend \/ p9_wstat \/ Send \/ Sent
  \/ BeginRecv \/ TooShort \/ AnyMore \/ ReadNumber \/ ReadData \/ ReadString \/ ReadQids \/ EndRecv
  \/ BeginParse \/ ParseFixed \/ ParseString \/ ParseNumbers \/ ParseDirentName \/ Classify
  \/ Again

WireSpec == WireInit /\ [][WireNext]_wireVars

(***************************************************************************)
(* Properties.                                                             *)
(***************************************************************************)
ParseSteps == {"stat_size", "name", "uid", "gid", "muid", "extension", "numbers", "dirent_name", "parsed", "refused"}

(* A message is as long as its header says (p9_vserialized_size and        *)
(* p9_do_vsend walk the format separately), or the server would take the   *)
(* next request for the end of this one; and the stat in a wstat is as     *)
(* long as the lengths before it say (9p.c:270, 9p.c:290), which count     *)
(* what follows the fid and the first of them.                             *)
SizeAnnounced ==
  step = "sent" => count = size /\ (s_size > 0 => count = Header + 4 + 2 + s_size)

(* Whatever came of reading a reply (9p-rpc.c:621), the next message is    *)
(* what is read next, if the server sent only complete elements, be they   *)
(* fewer than expected, more, longer than there is room or memory for, or  *)
(* of a reply of another type, and the stream goes on.                     *)
StaysFramed == step = "returned" /\ whole /\ ended = "no" => stream = size

(* A call succeeds only on a matching reply with all outputs in it, or     *)
(* none after the question whether there is more (9p-rpc.c:466), except    *)
(* that at the end of the stream it succeeds with outputs unset, since     *)
(* only errors are told (9p-rpc.c:649); where a read failed, the call      *)
(* fails.  An error reply fails it in any case, and one that was read with *)
(* the error it tells, of two patterns in it the one that says more:       *)
(* "exists" is not "exist" (9p-err.c:75).                                  *)
OutcomeRight ==
  step = "returned" =>
    /\ err = None => type = "match" /\ (rest = <<>> \/ Head(rest).f = "?" \/ ended = "eof")
    /\ ended = "error" => err # None
    /\ type = "error" /\ rest = <<>> /\ ended # "error" =>
         /\ why.text = "exists" => err = "EEXIST"
         /\ why.text = "is a directory" => err = "EISDIR"

(* Whatever sizes and lengths the server sends, no more data is put in the *)
(* caller's buffer than it has room for (9p-rpc.c:538); parsing reads only *)
(* the buffer it is given and a stat within its own size (9p.c:80,         *)
(* 9p.c:210), and takes no more than there is: the caller subtracts what   *)
(* was taken from what remains (dir-readdir.c:140).                        *)
NoOverrun ==
  /\ data <= room
  /\ step \in ParseSteps => count <= size
  /\ step = "parsed" /\ s_size > 0 => count <= s_size + 2

(* What dir_readdir says a file is, io_stat says too (9p.c:301, 9p.c:358), *)
(* in the versions whose directories are read as stats, before 9P2000.L,   *)
(* and for modes that have one type.                                       *)
TypesAgree ==
  types # <<>> =>
    types \in {<<SOCK, "DT_SOCK">>, <<LNK, "DT_LNK">>, <<REG, "DT_REG">>, <<BLK, "DT_BLK">>,
               <<DIR, "DT_DIR">>, <<CHR, "DT_CHR">>, <<FIFO, "DT_FIFO">>}
=============================================================================
