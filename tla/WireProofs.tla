----------------------------- MODULE WireProofs -----------------------------
(***************************************************************************)
(* The codec for messages, formats and lengths of any size: reading a      *)
(* reply leaves the connection at the next message, nothing is read or     *)
(* written outside a buffer, and only a matching reply is a success.       *)
(*                                                                         *)
(* The length of what is sent is a sum over a format, a recursive          *)
(* function.  What is true of every format is proved by induction in the   *)
(* form of UpTo: a set of numbers that has 0, and n + 1 whenever it has n, *)
(* has them all.                                                           *)
(***************************************************************************)
EXTENDS Wire, WellFoundedInduction, SequenceTheorems, TLAPS

Sending == {"send", "sent"}
Receiving == {"recv", "out"}
InStat == {"name", "uid", "gid", "muid", "extension", "numbers"}

(* The elements p9_do_vrecv expects: room for data is given.               *)
ReplyElement == {e \in Element : e.f # "S" /\ (e.f = "d" => Len(e.n) = 1)}

Typed ==
  /\ p9_version \in P9_VERSION_2000 .. P9_VERSION_2000_L
  /\ room \in Nat /\ data \in Nat
  /\ whole \in BOOLEAN /\ ended \in {"no", "eof", "error"}
  /\ step \notin Sending => size \in Nat /\ count \in Nat /\ s_size \in Nat
  /\ step = "recv" => rest \in Seq(ReplyElement)

(* While a reply is read, the connection is where bytes_read says, and not *)
(* past the end of a message of complete elements.                         *)
Framed ==
  step \in Receiving => stream = count /\ (whole => count <= size)

(* What the checks of the parsers leave to the code that follows them.     *)
Bounded ==
  /\ data <= room
  /\ step \in ParseSteps => count <= size
  /\ step = "stat_size" => count = 0 /\ size >= 2
  /\ step \in InStat => s_size + 2 <= size /\ count <= s_size + 2
  /\ step \in {"name", "uid", "gid", "muid"} => count <= s_size
  /\ step = "numbers" => count + 12 <= s_size + 2
  /\ step \in {"idle", "dirent_name"} => s_size = 0
  /\ step = "dirent_name" => count + 2 <= size
  /\ step = "parsed" /\ s_size > 0 => count <= s_size + 2

Inv == Typed /\ Framed /\ StaysFramed /\ Bounded

-----------------------------------------------------------------------------
LEMMA WidthNat == \A f \in Numbers : Width(f) \in Nat
BY DEF Width, Numbers

LEMMA FormatTyped == \A fmt \in Formats : fmt \in Seq(ReplyElement)
<1> SUFFICES ASSUME NEW fmt \in Formats PROVE fmt \in Seq(ReplyElement)
  OBVIOUS
<1>1. fmt \in Seq(Element)
  BY FormatsAssumption
<1>2. \A i \in DOMAIN fmt : fmt[i] \in ReplyElement
  BY <1>1, FormatsAssumption DEF ReplyElement
<1> QED
  BY <1>1, <1>2

LEMMA ErrorFormatTyped ==
  /\ ErrorFormat \in Seq(ReplyElement)
  /\ <<El("4", <<>>)>> \in Seq(ReplyElement)
<1>1. El("4", <<>>) \in ReplyElement /\ El("s", <<>>) \in ReplyElement
  BY DEF El, ReplyElement, Element, Numbers
<1> QED
  BY <1>1 DEF ErrorFormat

(* The first element that is expected, and those after it.                 *)
LEMMA HeadTail ==
  ASSUME NEW s \in Seq(ReplyElement), s # <<>>
  PROVE  /\ Head(s) \in ReplyElement /\ Tail(s) \in Seq(ReplyElement)
         /\ Head(s).f = "d" => Head(s).n[1] \in Nat
<1>1. Head(s) \in ReplyElement /\ Tail(s) \in Seq(ReplyElement)
  OBVIOUS
<1>2. Head(s).f = "d" => Head(s).n[1] \in Nat
  BY <1>1 DEF ReplyElement, Element
<1> QED
  BY <1>1, <1>2

LEMMA InitInv == WireInit => Inv
BY VersionsAssumption
   DEF WireInit, CodecInit, Inv, Typed, Framed, StaysFramed, Bounded, Sending, Receiving, InStat,
       ParseSteps, P9_VERSION_2000, P9_VERSION_2000_L

-----------------------------------------------------------------------------
(* Sending touches nothing that is read.                                   *)
LEMMA SendStep ==
  ASSUME Inv, BeginSend \/ p9_wstat \/ Send \/ Sent
  PROVE  Inv'
<1>1. step' \in Sending /\ UNCHANGED <<p9_version, room, data, ended, whole>>
  BY DEF BeginSend, p9_wstat, SendHeader, Send, Sent, Sending, reading
<1> QED
  BY <1>1 DEF Inv, Typed, Framed, StaysFramed, Bounded, Sending, Receiving, InStat, ParseSteps

(* A reply begins behind its header, whatever its type and size.           *)
LEMMA BeginRecvStep ==
  ASSUME Inv, BeginRecv
  PROVE  Inv'
<1>1. /\ size' \in Nat /\ count' = Header /\ stream' = Header /\ whole' = (Header <= size')
      /\ step' \in Receiving /\ s_size' = s_size /\ s_size = 0
      /\ UNCHANGED <<p9_version, room, data, ended>>
  BY LengthsAssumption DEF BeginRecv, Receiving, Inv, Bounded
<1>2. step' = "recv" => rest' \in Seq(ReplyElement)
  BY FormatTyped, ErrorFormatTyped DEF BeginRecv
<1>3. Typed'
  BY <1>1, <1>2 DEF Inv, Typed, Header
<1>4. Framed' /\ StaysFramed'
  BY <1>1 DEF Framed, StaysFramed, Receiving
<1>5. Bounded'
  BY <1>1 DEF Inv, Bounded, Receiving, InStat, ParseSteps
<1> QED
  BY <1>3, <1>4, <1>5 DEF Inv

(* An element takes as many bytes of the connection as it is counted for;  *)
(* where it ends within the message, so does what was read.                *)
LEMMA TakeStep ==
  ASSUME Inv, step = "recv", NEW n \in Nat, NEW m \in Nat, n <= m,
         Took(n), Within(m), step' \in Receiving,
         step' = "recv" => rest' \in Seq(ReplyElement),
         room' \in Nat, data' \in Nat, data' <= room', ended' \in {"no", "eof", "error"},
         UNCHANGED <<p9_version, size, s_size>>
  PROVE  Inv'
<1> USE DEF Inv, Receiving
<1>1. size \in Nat /\ count \in Nat /\ s_size \in Nat /\ count' = count + n /\ stream' = count + n
  BY DEF Typed, Framed, Sending, Took
<1>2. Typed'
  <2>1. whole' \in BOOLEAN
    BY DEF Within
  <2> QED
    BY <1>1, <2>1 DEF Typed
<1>3. whole' => count' <= size'
  <2>1. whole' => count + m <= size
    BY DEF Within
  <2> QED
    BY <1>1, <2>1
<1>4. Framed' /\ StaysFramed'
  BY <1>1, <1>3 DEF Framed, StaysFramed
<1>5. Bounded'
  BY DEF Bounded, InStat, ParseSteps
<1> QED
  BY <1>2, <1>4, <1>5

(* What reading an array or a string of n bytes may come to.               *)
Takes(n) ==
  \/ Took(2) /\ Fails("ENOMEM")
  \/ Took(2 + n) /\ Next1
  \/ \E k \in 0 .. 2 + n : CutAfter(k)

LEMMA RecvStep ==
  ASSUME Inv, TooShort \/ AnyMore \/ ReadNumber \/ ReadData \/ ReadString \/ ReadQids
  PROVE  Inv'
<1> USE DEF Inv
<1>1. step = "recv" /\ rest \in Seq(ReplyElement) /\ rest # <<>>
  BY DEF Typed, TooShort, AnyMore, ReadNumber, ReadData, ReadString, ReadQids, Expecting
<1>2. /\ Head(rest) \in ReplyElement /\ Tail(rest) \in Seq(ReplyElement)
      /\ Head(rest).f = "d" => Head(rest).n[1] \in Nat
  BY <1>1, HeadTail
<1>0. ended' \in {"no", "eof", "error"}
  BY StreamAssumption DEF TooShort, AnyMore, ReadNumber, ReadData, ReadString, ReadQids, CutAfter, Ends, reading, Typed
<1>3. CASE TooShort \/ AnyMore
  <2>1. /\ step' \in Receiving /\ (step' = "recv" => rest' = Tail(rest))
        /\ UNCHANGED <<p9_version, size, count, stream, room, data, ended, whole, s_size>>
    BY <1>3 DEF TooShort, AnyMore, Fails, Next1, Receiving, reading
  <2> QED
    BY <1>1, <1>2, <2>1
       DEF Typed, Framed, StaysFramed, Bounded, Sending, Receiving, InStat, ParseSteps
<1>4. CASE ReadNumber
  <2>1. PICK w \in Nat : Within(w) /\ ((Took(w) /\ Next1) \/ CutAfter(0))
    BY <1>4, WidthNat DEF ReadNumber, Expecting
  <2>2. room' \in Nat /\ data' \in Nat /\ data' <= room' /\ UNCHANGED <<p9_version, size, s_size>>
    BY <1>4 DEF ReadNumber, Expecting, Typed, Bounded
  <2>3. CASE Took(w) /\ Next1
    BY <1>0, <1>1, <1>2, <2>1, <2>2, <2>3, TakeStep DEF Next1, Receiving
  <2>4. CASE CutAfter(0)
    BY <1>0, <1>1, <2>1, <2>2, <2>4, TakeStep DEF CutAfter, Fails, Receiving
  <2> QED
    BY <2>1, <2>3, <2>4
<1>5. CASE ReadData
  <2>1. PICK n \in Lengths :
          /\ Within(4 + n)
          /\ \/ TooMuch(n) /\ Took(4) /\ Fails("EOVERFLOW") /\ data' = 0
             \/ ~TooMuch(n) /\ Took(4 + n) /\ Next1 /\ data' = n
             \/ CutAfter(0) /\ data' = 0
             \/ ~TooMuch(n) /\ CutAfter(4) /\ data' \in 0 .. n - 1
    BY <1>5 DEF ReadData
  <2>2. n \in Nat /\ 4 + n \in Nat
    BY LengthsAssumption
  <2>3. /\ room' = Head(rest).n[1] /\ Head(rest).n[1] \in Nat
        /\ UNCHANGED <<p9_version, size, s_size>>
    BY <1>2, <1>5 DEF ReadData, Expecting
  <2>4. CASE TooMuch(n) /\ Took(4) /\ Fails("EOVERFLOW") /\ data' = 0
    BY <1>0, <1>1, <2>1, <2>2, <2>3, <2>4, TakeStep DEF Fails, Receiving
  <2>5. CASE ~TooMuch(n) /\ Took(4 + n) /\ Next1 /\ data' = n
    <3>1. data' <= room'
      BY <2>2, <2>3, <2>5 DEF TooMuch
    <3> QED
      BY <1>0, <1>1, <1>2, <2>1, <2>2, <2>3, <2>5, <3>1, TakeStep DEF Next1, Receiving
  <2>6. CASE CutAfter(0) /\ data' = 0
    BY <1>0, <1>1, <2>1, <2>2, <2>3, <2>6, TakeStep DEF CutAfter, Fails, Receiving
  <2>7. CASE ~TooMuch(n) /\ CutAfter(4) /\ data' \in 0 .. n - 1
    <3>1. data' \in Nat /\ data' <= room'
      BY <2>2, <2>3, <2>7 DEF TooMuch
    <3> QED
      BY <1>0, <1>1, <2>1, <2>2, <2>3, <2>7, <3>1, TakeStep DEF CutAfter, Fails, Receiving
  <2> QED
    BY <2>1, <2>4, <2>5, <2>6, <2>7
<1>6. CASE ReadString \/ ReadQids
  <2>1. PICK n \in Nat : Within(2 + n) /\ Takes(n)
    <3>1. CASE ReadString
      BY <3>1, LengthsAssumption DEF ReadString, Takes
    <3>2. CASE ReadQids
      <4>1. PICK m \in Lengths :
              /\ Within(2 + 13 * m)
              /\ \/ Took(2) /\ Fails("ENOMEM")
                 \/ Took(2 + 13 * m) /\ Next1
                 \/ CutAfter(0)
                 \/ m > 0 /\ \E k \in {0, 13 * m - 12, 13 * m - 8} : CutAfter(2 + k)
        BY <3>2 DEF ReadQids
      <4>2. 13 * m \in Nat /\ (m > 0 => \A k \in {0, 13 * m - 12, 13 * m - 8} : 2 + k \in 0 .. 2 + 13 * m)
        BY LengthsAssumption
      <4>3. Takes(13 * m)
        BY <4>1, <4>2 DEF Takes
      <4> QED
        BY <4>1, <4>2, <4>3
    <3> QED
      BY <1>6, <3>1, <3>2
  <2>2. room' \in Nat /\ data' \in Nat /\ data' <= room' /\ UNCHANGED <<p9_version, size, s_size>>
    BY <1>6 DEF ReadString, ReadQids, Expecting, Typed, Bounded
  <2>3. CASE Took(2) /\ Fails("ENOMEM")
    BY <1>0, <1>1, <2>1, <2>2, <2>3, TakeStep DEF Fails, Receiving
  <2>4. CASE Took(2 + n) /\ Next1
    BY <1>0, <1>1, <1>2, <2>1, <2>2, <2>4, TakeStep DEF Next1, Receiving
  <2>5. CASE \E k \in 0 .. 2 + n : CutAfter(k)
    BY <1>0, <1>1, <2>1, <2>2, <2>5, TakeStep DEF CutAfter, Fails, Receiving
  <2> QED
    BY <2>1, <2>3, <2>4, <2>5 DEF Takes
<1> QED
  BY <1>3, <1>4, <1>5, <1>6

(* What is left of the message is read: the connection is at its end, or   *)
(* has ended.                                                              *)
LEMMA EndRecvStep ==
  ASSUME Inv, EndRecv
  PROVE  Inv'
<1>1. /\ step \in Receiving /\ step' \in {"returned", "crashed"}
      /\ stream' = stream + Left \/ ended' \in StreamEnds
      /\ ended' = ended \/ ended' \in StreamEnds
      /\ UNCHANGED <<p9_version, size, count, room, data, s_size, whole>>
  BY DEF EndRecv, Drain, Ends, Receiving
<1>2. /\ size \in Nat /\ count \in Nat /\ s_size \in Nat /\ stream = count /\ (whole => count <= size)
      /\ ended \in {"no", "eof", "error"} /\ "no" \notin StreamEnds
  BY <1>1, StreamAssumption DEF Inv, Typed, Framed, Sending, Receiving
<1>3. Typed' /\ Framed'
  BY <1>1, <1>2, StreamAssumption DEF Inv, Typed, Framed, Receiving
<1>4. StaysFramed'
  <2>1. whole /\ ended' = "no" => stream' = size
    BY <1>1, <1>2 DEF Left
  <2> QED
    BY <1>1, <2>1 DEF StaysFramed
<1>5. Bounded'
  BY <1>1 DEF Inv, Bounded, InStat, ParseSteps
<1> QED
  BY <1>3, <1>4, <1>5 DEF Inv

-----------------------------------------------------------------------------
(* Parsing leaves the connection alone; it is enough to bound the counts.  *)
LEMMA ParseStep ==
  ASSUME Inv, step' \in ParseSteps, UNCHANGED <<p9_version, room, data, ended, whole>>,
         size' \in Nat, count' \in Nat, s_size' \in Nat, Bounded'
  PROVE  Inv'
BY DEF Inv, Typed, Framed, StaysFramed, Sending, Receiving, ParseSteps

LEMMA BeginParseStep ==
  ASSUME Inv, BeginParse
  PROVE  Inv'
<1>1. size' \in Nat /\ s_size' = 0 /\ s_size = 0 /\ UNCHANGED <<p9_version, room, data, ended, whole>>
  BY LengthsAssumption DEF BeginParse, Inv, Bounded, reading
<1>2. \/ step' = "refused" /\ count' = 0
      \/ step' = "dirent_name" /\ count' = 22 /\ size' >= 24
      \/ step' = "stat_size" /\ count' = 0 /\ size' >= 2
  BY DEF BeginParse, Malformed, Goes
<1>3. Bounded'
  BY <1>1, <1>2 DEF Inv, Bounded, InStat, ParseSteps
<1> QED
  BY <1>1, <1>2, <1>3, ParseStep DEF ParseSteps

(* The size that passes the check leaves room for the fixed fields and for *)
(* the length of the name.                                                 *)
LEMMA ParseFixedStep ==
  ASSUME Inv, ParseFixed
  PROVE  Inv'
<1>1. size \in Nat /\ count = 0 /\ size >= 2
  BY DEF ParseFixed, Inv, Typed, Bounded, Sending
<1>2. UNCHANGED <<p9_version, size, room, data, ended, whole>> /\ data <= room
  BY DEF ParseFixed, BufferSame, reading, Inv, Bounded
<1>3. PICK n \in Nat :
        /\ s_size' = n
        /\ \/ Malformed /\ count' = count + 2
           \/ n + 2 <= size /\ n >= MinSize /\ Goes("name") /\ count' = count + 2 + 39
  <2>1. s_size' \in Nat /\ MinSize \in Nat
    BY LengthsAssumption DEF ParseFixed, MinSize, P9_U_STAT_MIN_SIZE, P9_STAT_MIN_SIZE
  <2>2. \A n, s, min \in Nat : ~(n + 2 > s \/ n < min) => n + 2 <= s /\ n >= min
    OBVIOUS
  <2> QED
    BY <1>1, <2>1, <2>2 DEF ParseFixed
<1>4. n >= MinSize => n >= 47
  BY DEF MinSize, P9_U_STAT_MIN_SIZE, P9_STAT_MIN_SIZE
<1>5. CASE Malformed /\ count' = count + 2
  <2>1. Bounded'
    BY <1>1, <1>2, <1>5 DEF Malformed, Bounded, InStat, ParseSteps
  <2> QED
    BY <1>1, <1>2, <1>3, <1>5, <2>1, ParseStep DEF Malformed, ParseSteps
<1>6. CASE n + 2 <= size /\ n >= MinSize /\ Goes("name") /\ count' = count + 2 + 39
  <2>1. step' = "name" /\ count' = 41 /\ n + 2 <= size /\ 47 <= n
    BY <1>1, <1>4, <1>6 DEF Goes
  <2>2. Bounded'
    BY <1>1, <1>2, <1>3, <2>1 DEF Bounded, InStat, ParseSteps
  <2> QED
    BY <1>1, <1>2, <1>3, <2>1, <2>2, ParseStep DEF ParseSteps
<1> QED
  BY <1>3, <1>5, <1>6

(* Each string leaves the room the next length needs; the extension, for   *)
(* which none was left, is checked for itself.                             *)
LEMMA ParseStringStep ==
  ASSUME Inv, ParseString
  PROVE  Inv'
<1>1. /\ step \in {"name", "uid", "gid", "muid", "extension"}
      /\ size \in Nat /\ count \in Nat /\ s_size \in Nat /\ s_size + 2 <= size /\ count <= s_size + 2
      /\ step # "extension" => count <= s_size
  BY DEF ParseString, Reserve, Inv, Typed, Bounded, Sending, InStat
<1>2. UNCHANGED <<p9_version, size, room, data, ended, whole, s_size>>
  BY DEF ParseString, BufferSame, reading
<1>3. \/ step' = "refused" /\ count' = count
      \/ step' = "refused" /\ count' = count + 2 /\ count <= s_size
      \/ \E n \in Nat :
           /\ step' = Following[step] /\ count' = count + 2 + n
           /\ count + 2 + n + Reserve[step] <= s_size + 2
  BY <1>1, LengthsAssumption DEF ParseString, Malformed, Goes
<1>4. CASE step' = "refused"
  <2>1. count' \in Nat /\ count' <= size
    BY <1>1, <1>3, <1>4 DEF Following
  <2>2. Bounded'
    BY <1>1, <1>2, <1>4, <2>1 DEF Inv, Bounded, InStat, ParseSteps
  <2> QED
    BY <1>1, <1>2, <1>4, <2>1, <2>2, ParseStep DEF ParseSteps
<1>5. CASE step' # "refused"
  <2>1. PICK n \in Nat :
          /\ step' = Following[step] /\ count' = count + 2 + n
          /\ count + 2 + n + Reserve[step] <= s_size + 2
    BY <1>3, <1>5
  <2>2. \/ step' \in {"uid", "gid", "muid"} /\ Reserve[step] = 2
        \/ step' \in {"parsed", "extension"} /\ Reserve[step] = 0
        \/ step' = "numbers" /\ Reserve[step] = 12
    BY <1>1, <2>1 DEF Following, Reserve
  <2>3. count' \in Nat /\ count' <= s_size + 2 /\ count' <= size
    BY <1>1, <2>1, <2>2
  <2>4. Bounded'
    BY <1>1, <1>2, <2>1, <2>2, <2>3 DEF Inv, Bounded, InStat, ParseSteps
  <2> QED
    BY <1>1, <1>2, <2>2, <2>3, <2>4, ParseStep DEF ParseSteps
<1> QED
  BY <1>4, <1>5

LEMMA ParseRestStep ==
  ASSUME Inv, ParseNumbers \/ ParseDirentName
  PROVE  Inv'
<1>1. UNCHANGED <<p9_version, size, room, data, ended, whole, s_size>>
  BY DEF ParseNumbers, ParseDirentName, BufferSame, reading
<1>2. size \in Nat /\ count \in Nat /\ s_size \in Nat
  BY DEF ParseNumbers, ParseDirentName, Inv, Typed, Sending
<1>3. CASE ParseNumbers
  <2>1. /\ step' = "parsed" /\ count' = count + 12
        /\ count + 12 <= s_size + 2 /\ s_size + 2 <= size
    BY <1>2, <1>3 DEF ParseNumbers, Goes, Inv, Bounded, InStat
  <2>2. Bounded'
    BY <1>1, <1>2, <2>1 DEF Inv, Bounded, InStat, ParseSteps
  <2> QED
    BY <1>1, <1>2, <2>1, <2>2, ParseStep DEF ParseSteps
<1>4. CASE ParseDirentName
  <2>1. count + 2 <= size /\ s_size = 0
    BY <1>4 DEF ParseDirentName, Inv, Bounded
  <2>2. step' \in {"refused", "parsed"} /\ count' \in Nat /\ count' <= size
    BY <1>2, <1>4, <2>1, LengthsAssumption DEF ParseDirentName, Malformed, Goes
  <2>3. Bounded'
    <3>1. s_size' = 0 /\ ~(s_size' > 0)
      BY <1>1, <2>1
    <3> QED
      BY <1>1, <2>2, <3>1 DEF Inv, Bounded, InStat, ParseSteps
  <2> QED
    BY <1>1, <1>2, <2>2, <2>3, ParseStep DEF ParseSteps
<1> QED
  BY <1>3, <1>4

LEMMA OtherStep ==
  ASSUME Inv, Classify \/ Again
  PROVE  Inv'
<1>1. CASE Classify
  <2>1. UNCHANGED <<p9_version, step, rest, size, count, stream, room, data, ended, whole, s_size>>
    BY <1>1 DEF Classify, reading
  <2> QED
    BY <2>1 DEF Inv, Typed, Framed, StaysFramed, Bounded
<1>2. CASE Again
  BY <1>2 DEF Again, Inv, Typed, Framed, StaysFramed, Bounded, Sending, Receiving, InStat, ParseSteps
<1> QED
  BY <1>1, <1>2

LEMMA NextInv == Inv /\ [WireNext]_wireVars => Inv'
<1> SUFFICES ASSUME Inv, [WireNext]_wireVars PROVE Inv'
  OBVIOUS
<1>1. CASE BeginSend \/ p9_wstat \/ Send \/ Sent
  BY <1>1, SendStep
<1>2. CASE BeginRecv
  BY <1>2, BeginRecvStep
<1>3. CASE TooShort \/ AnyMore \/ ReadNumber \/ ReadData \/ ReadString \/ ReadQids
  BY <1>3, RecvStep
<1>4. CASE EndRecv
  BY <1>4, EndRecvStep
<1>5. CASE BeginParse
  BY <1>5, BeginParseStep
<1>6. CASE ParseFixed
  BY <1>6, ParseFixedStep
<1>7. CASE ParseString
  BY <1>7, ParseStringStep
<1>8. CASE ParseNumbers \/ ParseDirentName
  BY <1>8, ParseRestStep
<1>9. CASE Classify \/ Again
  BY <1>9, OtherStep
<1>10. CASE UNCHANGED wireVars
  BY <1>10 DEF wireVars, reading, Inv, Typed, Framed, StaysFramed, Bounded
<1> QED
  BY <1>1, <1>2, <1>3, <1>4, <1>5, <1>6, <1>7, <1>8, <1>9, <1>10 DEF WireNext

LEMMA InvHolds == WireSpec => []Inv
BY InitInv, NextInv, PTL DEF WireSpec

(* After any reply made of complete elements, of whatever type, size and   *)
(* format, the next message is what is read next, unless the stream ended  *)
(* or a read failed (p9_do_vrecv).                                         *)
THEOREM FramingKept == WireSpec => []StaysFramed
<1>1. Inv => StaysFramed
  BY DEF Inv
<1> QED
  BY <1>1, InvHolds, PTL

(* Whatever sizes and lengths come, data stays within the caller's room,   *)
(* and the parsers within their buffer and the stat (p9_do_vrecv,          *)
(* p9_stat_deserialize, p9_dirent_deserialize).                            *)
THEOREM BuffersRespected == WireSpec => []NoOverrun
<1>1. Inv => NoOverrun
  BY DEF Inv, Bounded, NoOverrun
<1> QED
  BY <1>1, InvHolds, PTL

-----------------------------------------------------------------------------
(* Sums.                                                                   *)
LEMMA LeastExists ==
  ASSUME NEW T, T \subseteq Nat, T # {}
  PROVE  \E n \in T : \A m \in T : n <= m
<1> DEFINE less == {ss \in Nat \X Nat : ss[1] < ss[2]}
<1>1. IsWellFoundedOn(less, Nat)
  BY NatLessThanWellFounded DEF OpToRel
<1> HIDE DEF less
<1>2. PICK n \in T : \A m \in T : ~(<<m, n>> \in less)
  BY <1>1, WFMin
<1>3. ASSUME NEW m \in T PROVE n <= m
  <2>1. <<m, n>> \in Nat \X Nat /\ <<m, n>> \notin less
    BY <1>2
  <2>2. ~(m < n)
    BY <2>1 DEF less
  <2> QED
    BY <2>2
<1> QED
  BY <1>3

(* Induction up to a bound.                                                *)
LEMMA UpTo ==
  ASSUME NEW N \in Nat, NEW T, 0 \in T,
         \A n \in 0 .. N : n # N /\ n \in T => n + 1 \in T
  PROVE  \A n \in 0 .. N : n \in T
<1> DEFINE F == {n \in 0 .. N : n \notin T}
<1> SUFFICES ASSUME F # {} PROVE FALSE
  OBVIOUS
<1>1. PICK n \in F : \A m \in F : n <= m
  <2>1. F \subseteq Nat
    OBVIOUS
  <2> QED
    BY <2>1, LeastExists
<1>2. n \in 0 .. N /\ n \notin T /\ n # 0
  OBVIOUS
<1>3. n - 1 \in 0 .. N /\ n - 1 # N /\ (n - 1) + 1 = n
  BY <1>2
<1>4. n - 1 \in T
  <2>1. n - 1 \in F => n <= n - 1
    BY <1>1
  <2> QED
    BY <1>2, <1>3, <2>1
<1> QED
  BY <1>2, <1>3, <1>4

(* The function that a sum is computed with.                               *)
Partial(s, g) ==
  /\ g[0] = 0
  /\ \A i \in 1 .. Len(s) : g[i] = g[i - 1] + s[i]
  /\ \A i \in 0 .. Len(s) : g[i] \in Nat
  /\ Sum(s) = g[Len(s)]

LEMMA SumPartial ==
  ASSUME NEW s \in Seq(Nat)
  PROVE  \E g : Partial(s, g)
<1> DEFINE R(g, n) == g = [i \in 0 .. n |-> IF i = 0 THEN 0 ELSE g[i - 1] + s[i]]
           T == {n \in 0 .. Len(s) : \E g : R(g, n)}
<1>1. Len(s) \in Nat
  OBVIOUS
<1>2. 0 \in T
  <2>1. R([i \in 0 .. 0 |-> 0], 0)
    OBVIOUS
  <2>2. \E g : R(g, 0)
    BY <2>1
  <2>3. 0 \in 0 .. Len(s)
    BY <1>1
  <2> QED
    BY <2>2, <2>3
<1>3. ASSUME NEW n \in 0 .. Len(s), n # Len(s), n \in T
      PROVE  n + 1 \in T
  <2>1. PICK g : R(g, n)
    BY <1>3
  <2>2. n + 1 \in 0 .. Len(s) /\ n \in Nat
    BY <1>1, <1>3
  <2>3. R([i \in 0 .. n + 1 |-> IF i = n + 1 THEN g[n] + s[n + 1] ELSE g[i]], n + 1)
    BY <2>1, <2>2
  <2> QED
    BY <2>2, <2>3
<1> DEFINE h == CHOOSE g : R(g, Len(s))
<1>4. R(h, Len(s))
  <2> HIDE DEF T
  <2>1. \A n \in 0 .. Len(s) : n \in T
    BY <1>1, <1>2, <1>3, UpTo
  <2>2. Len(s) \in T
    BY <1>1, <2>1
  <2> QED
    BY <2>2 DEF T
<1>5. Sum(s) = h[Len(s)]
  BY DEF Sum
<1> HIDE DEF h
<1>6. h[0] = 0 /\ \A i \in 1 .. Len(s) : h[i] = h[i - 1] + s[i]
  BY <1>1, <1>4
<1>7. \A i \in 0 .. Len(s) : h[i] \in Nat
  <2> DEFINE U == {i \in 0 .. Len(s) : h[i] \in Nat}
  <2>1. 0 \in U
    BY <1>1, <1>6
  <2>2. ASSUME NEW n \in 0 .. Len(s), n # Len(s), n \in U
        PROVE  n + 1 \in U
    <3>1. n + 1 \in 1 .. Len(s) /\ n + 1 - 1 = n /\ s[n + 1] \in Nat
      BY <1>1, <2>2
    <3>2. h[n + 1] = h[n] + s[n + 1]
      BY <1>6, <3>1
    <3> QED
      BY <2>2, <3>1, <3>2
  <2> HIDE DEF U
  <2>3. \A n \in 0 .. Len(s) : n \in U
    BY <1>1, <2>1, <2>2, UpTo
  <2> QED
    BY <2>3 DEF U
<1> QED
  BY <1>5, <1>6, <1>7 DEF Partial

LEMMA SumNat == \A s \in Seq(Nat) : Sum(s) \in Nat
<1> SUFFICES ASSUME NEW s \in Seq(Nat) PROVE Sum(s) \in Nat
  OBVIOUS
<1>1. PICK g : Partial(s, g)
  BY SumPartial
<1> QED
  BY <1>1 DEF Partial

LEMMA SumEmpty == Sum(<<>>) = 0
<1>1. <<>> \in Seq(Nat) /\ Len(<<>>) = 0
  OBVIOUS
<1>2. PICK g : Partial(<<>>, g)
  BY <1>1, SumPartial
<1> QED
  BY <1>1, <1>2 DEF Partial

(* A sum can be taken from the other end too.                              *)
LEMMA SumHead ==
  ASSUME NEW s \in Seq(Nat), s # <<>>
  PROVE  Sum(s) = Head(s) + Sum(Tail(s))
<1>1. /\ Len(s) \in Nat /\ Len(s) > 0 /\ Tail(s) \in Seq(Nat) /\ Len(Tail(s)) = Len(s) - 1
      /\ Head(s) = s[1] /\ s[1] \in Nat
      /\ \A i \in 1 .. Len(s) - 1 : Tail(s)[i] = s[i + 1]
  OBVIOUS
<1>2. PICK g : Partial(s, g)
  BY SumPartial
<1>3. PICK h : Partial(Tail(s), h)
  BY <1>1, SumPartial
<1> DEFINE N == Len(s) - 1
           T == {i \in 0 .. N : g[i + 1] = s[1] + h[i]}
<1>4. 0 \in T
  BY <1>1, <1>2, <1>3 DEF Partial
<1>5. ASSUME NEW n \in 0 .. N, n # N, n \in T
      PROVE  n + 1 \in T
  <2>1. /\ n + 1 \in 1 .. N /\ n + 1 \in 0 .. N /\ n + 2 \in 1 .. Len(s)
        /\ (n + 1) - 1 = n /\ (n + 2) - 1 = n + 1 /\ (n + 1) + 1 = n + 2
    <3>1. Len(s) \in Nat /\ n \in 0 .. Len(s) - 1 /\ n # Len(s) - 1
      BY <1>1, <1>5
    <3> QED
      BY <3>1
  <2>2. h[n + 1] = h[n] + s[n + 2] /\ g[n + 2] = g[n + 1] + s[n + 2]
    <3>1. h[n + 1] = h[(n + 1) - 1] + Tail(s)[n + 1] /\ Tail(s)[n + 1] = s[(n + 1) + 1]
      BY <1>1, <1>3, <2>1 DEF Partial
    <3>2. g[n + 2] = g[(n + 2) - 1] + s[n + 2]
      BY <1>2, <2>1 DEF Partial
    <3> QED
      BY <2>1, <3>1, <3>2
  <2>3. h[n] \in Nat /\ s[n + 2] \in Nat
    <3>1. n \in 0 .. Len(Tail(s))
      BY <1>1
    <3>2. h[n] \in Nat
      BY <1>3, <3>1 DEF Partial
    <3>3. s[n + 2] \in Nat
      BY <2>1
    <3> QED
      BY <3>2, <3>3
  <2>4. g[n + 1] = s[1] + h[n]
    BY <1>5
  <2>5. g[(n + 1) + 1] = s[1] + h[n + 1]
    BY <1>1, <2>1, <2>2, <2>3, <2>4
  <2> QED
    BY <2>1, <2>5
<1>6. N \in T
  <2>1. N \in Nat /\ N \in 0 .. N
    BY <1>1
  <2> HIDE DEF T, N
  <2> QED
    BY <1>4, <1>5, <2>1, UpTo
<1> QED
  BY <1>1, <1>2, <1>3, <1>6 DEF Partial


-----------------------------------------------------------------------------
(* What p9_vserialized_size counts for an element is what is written.      *)
RequestElement ==
  {e \in Element : e.f \notin {"Q", "?"} /\ (e.f \in {"d", "s"} => Len(e.n) = 1)}

LEMMA SumOne == \A a \in Nat : Sum(<<a>>) = a
<1> SUFFICES ASSUME NEW a \in Nat PROVE Sum(<<a>>) = a
  OBVIOUS
<1>1. <<a>> \in Seq(Nat) /\ <<a>> # <<>> /\ Head(<<a>>) = a /\ Tail(<<a>>) = <<>>
  OBVIOUS
<1>2. Sum(<<a>>) = a + Sum(<<>>)
  BY <1>1, SumHead
<1> QED
  BY <1>2, SumEmpty

LEMMA SumTwo == \A a, b \in Nat : Sum(<<a, b>>) = a + b
<1> SUFFICES ASSUME NEW a \in Nat, NEW b \in Nat PROVE Sum(<<a, b>>) = a + b
  OBVIOUS
<1>1. <<a, b>> \in Seq(Nat) /\ <<a, b>> # <<>> /\ Head(<<a, b>>) = a /\ Tail(<<a, b>>) = <<b>>
  OBVIOUS
<1> QED
  BY <1>1, SumHead, SumOne

(* Strings, each behind its length.                                        *)
LEMMA SumStrings ==
  ASSUME NEW n \in Seq(Nat)
  PROVE  Sum([i \in 1 .. 2 * Len(n) |-> IF i % 2 = 1 THEN 2 ELSE n[i \div 2]]) = 2 * Len(n) + Sum(n)
<1> DEFINE w == [i \in 1 .. 2 * Len(n) |-> IF i % 2 = 1 THEN 2 ELSE n[i \div 2]]
           N == Len(n)
<1>1. N \in Nat /\ 2 * N \in Nat
  OBVIOUS
<1>2. w \in Seq(Nat) /\ Len(w) = 2 * N
  <2>1. \A i \in 1 .. 2 * N : i % 2 # 1 => i \div 2 \in 1 .. N
    BY <1>1
  <2>2. \A i \in 1 .. 2 * N : w[i] \in Nat
    BY <2>1
  <2>3. DOMAIN w = 1 .. 2 * N
    OBVIOUS
  <2> QED
    BY <1>1, <2>2, <2>3
<1>3. \A k \in 1 .. N : w[2 * k - 1] = 2 /\ w[2 * k] = n[k]
  <2> SUFFICES ASSUME NEW k \in 1 .. N PROVE w[2 * k - 1] = 2 /\ w[2 * k] = n[k]
    OBVIOUS
  <2>1. /\ 2 * k \in 1 .. 2 * N /\ 2 * k - 1 \in 1 .. 2 * N
        /\ (2 * k - 1) % 2 = 1 /\ (2 * k) % 2 = 0 /\ (2 * k) \div 2 = k
    BY <1>1
  <2> QED
    BY <2>1
<1>4. PICK g : Partial(n, g)
  BY SumPartial
<1> HIDE DEF w
<1>5. PICK h : Partial(w, h)
  BY <1>2, SumPartial
<1> DEFINE T == {k \in 0 .. N : h[2 * k] = 2 * k + g[k]}
<1>6. 0 \in T
  BY <1>1, <1>4, <1>5 DEF Partial
<1>7. ASSUME NEW k \in 0 .. N, k # N, k \in T
      PROVE  k + 1 \in T
  <2>1. /\ k + 1 \in 1 .. N /\ k + 1 \in 0 .. N /\ (k + 1) - 1 = k /\ k \in Nat
        /\ 2 * (k + 1) \in 1 .. 2 * N /\ 2 * (k + 1) - 1 \in 1 .. 2 * N
        /\ (2 * (k + 1) - 1) - 1 = 2 * k
    BY <1>1, <1>7
  <2>2. h[2 * (k + 1)] = h[2 * (k + 1) - 1] + n[k + 1]
    BY <1>2, <1>3, <1>5, <2>1 DEF Partial
  <2>3. h[2 * (k + 1) - 1] = h[2 * k] + 2
    BY <1>2, <1>3, <1>5, <2>1 DEF Partial
  <2>4. g[k + 1] = g[k] + n[k + 1]
    BY <1>4, <2>1 DEF Partial
  <2>5. g[k] \in Nat /\ n[k + 1] \in Nat /\ h[2 * k] = 2 * k + g[k]
    BY <1>4, <1>7, <2>1 DEF Partial
  <2>6. h[2 * (k + 1)] = 2 * (k + 1) + g[k + 1]
    BY <2>1, <2>2, <2>3, <2>4, <2>5
  <2> QED
    BY <2>1, <2>6
<1>8. N \in T
  <2>1. N \in 0 .. N
    BY <1>1
  <2> HIDE DEF T, N
  <2> QED
    BY <1>1, <1>6, <1>7, <2>1, UpTo
<1>9. Sum(w) = 2 * N + Sum(n)
  BY <1>2, <1>4, <1>5, <1>8 DEF Partial
<1> QED
  BY <1>9 DEF w

LEMMA CountedIsWritten ==
  ASSUME NEW e \in RequestElement
  PROVE  Sum(Writes(e)) = SerializedSize(e) /\ SerializedSize(e) \in Nat
<1>1. e.n \in Seq(Nat) /\ e.f \in Numbers \cup {"d", "s", "S"}
  BY DEF RequestElement, Element
<1>2. CASE e.f \in Numbers
  <2>1. Writes(e) = <<Width(e.f)>> /\ SerializedSize(e) = Width(e.f)
    BY <1>2 DEF Writes, SerializedSize, Numbers
  <2> QED
    BY <1>2, <2>1, WidthNat, SumOne
<1>3. CASE e.f = "d"
  <2>1. Writes(e) = <<4, e.n[1]>> /\ SerializedSize(e) = 4 + e.n[1]
    BY <1>3 DEF Writes, SerializedSize, Numbers
  <2>2. e.n[1] \in Nat
    BY <1>1, <1>3 DEF RequestElement
  <2> QED
    BY <2>1, <2>2, SumTwo
<1>4. CASE e.f \in {"s", "S"}
  <2>1. Sum(Writes(e)) = 2 * Len(e.n) + Sum(e.n)
    <3>1. Writes(e) = [i \in 1 .. 2 * Len(e.n) |-> IF i % 2 = 1 THEN 2 ELSE e.n[i \div 2]]
      BY <1>4 DEF Writes, Numbers
    <3> QED
      BY <1>1, <3>1, SumStrings
  <2>2. Sum(e.n) \in Nat
    BY <1>1, SumNat
  <2>3. CASE e.f = "S"
    <3>1. SerializedSize(e) = 2 * Len(e.n) + Sum(e.n)
      BY <2>3 DEF SerializedSize, Numbers
    <3> QED
      BY <1>1, <2>1, <2>2, <3>1
  <2>4. CASE e.f = "s"
    <3>1. SerializedSize(e) = 2 + e.n[1]
      BY <2>4 DEF SerializedSize, Numbers
    <3>2. Len(e.n) = 1 /\ e.n = <<e.n[1]>> /\ e.n[1] \in Nat
      BY <1>1, <2>4 DEF RequestElement
    <3>3. Sum(e.n) = e.n[1]
      BY <3>2, SumOne
    <3> QED
      BY <2>1, <3>1, <3>2, <3>3
  <2> QED
    BY <1>4, <2>3, <2>4
<1> QED
  BY <1>1, <1>2, <1>3, <1>4

(* The size of a format is that of its first element and of the rest.      *)
LEMMA SizeHead ==
  ASSUME NEW fmt \in Seq(RequestElement)
  PROVE  /\ p9_serialized_size(fmt) \in Nat
         /\ fmt = <<>> => p9_serialized_size(fmt) = 0
         /\ fmt # <<>> => p9_serialized_size(fmt) = SerializedSize(Head(fmt)) + p9_serialized_size(Tail(fmt))
<1> DEFINE of(s) == [i \in DOMAIN s |-> SerializedSize(s[i])]
<1>1. \A s \in Seq(RequestElement) : of(s) \in Seq(Nat) /\ Len(of(s)) = Len(s)
  <2> SUFFICES ASSUME NEW s \in Seq(RequestElement)
               PROVE  of(s) \in Seq(Nat) /\ Len(of(s)) = Len(s)
    OBVIOUS
  <2>1. \A i \in 1 .. Len(s) : SerializedSize(s[i]) \in Nat
    BY CountedIsWritten
  <2>2. DOMAIN s = 1 .. Len(s) /\ Len(s) \in Nat
    OBVIOUS
  <2> QED
    BY <2>1, <2>2
<1>2. p9_serialized_size(fmt) \in Nat
  BY <1>1, SumNat DEF p9_serialized_size
<1>3. fmt = <<>> => p9_serialized_size(fmt) = 0
  <2>1. fmt = <<>> => of(fmt) = <<>>
    BY <1>1
  <2> QED
    BY <2>1, SumEmpty DEF p9_serialized_size
<1>4. ASSUME fmt # <<>>
      PROVE  p9_serialized_size(fmt) = SerializedSize(Head(fmt)) + p9_serialized_size(Tail(fmt))
  <2>1. /\ Len(fmt) \in Nat /\ Len(fmt) > 0 /\ Tail(fmt) \in Seq(RequestElement)
        /\ Len(Tail(fmt)) = Len(fmt) - 1 /\ Head(fmt) = fmt[1]
        /\ \A i \in 1 .. Len(fmt) - 1 : Tail(fmt)[i] = fmt[i + 1]
    BY <1>4
  <2>2. of(fmt) \in Seq(Nat) /\ of(fmt) # <<>> /\ Head(of(fmt)) = SerializedSize(Head(fmt))
    BY <1>1, <2>1
  <2>3. Tail(of(fmt)) = of(Tail(fmt))
    <3>1. Tail(of(fmt)) \in Seq(Nat) /\ of(Tail(fmt)) \in Seq(Nat)
          /\ Len(Tail(of(fmt))) = Len(fmt) - 1 /\ Len(of(Tail(fmt))) = Len(fmt) - 1
      BY <1>1, <2>1, <2>2
    <3>2. \A i \in 1 .. Len(fmt) - 1 : Tail(of(fmt))[i] = of(fmt)[i + 1]
      BY <1>1, <2>1, <2>2
    <3>3. \A i \in 1 .. Len(fmt) - 1 : of(fmt)[i + 1] = SerializedSize(fmt[i + 1])
      BY <2>1
    <3>4. \A i \in 1 .. Len(fmt) - 1 : of(Tail(fmt))[i] = SerializedSize(fmt[i + 1])
      BY <2>1
    <3> QED
      BY <3>1, <3>2, <3>3, <3>4
  <2> QED
    BY <2>2, <2>3, SumHead DEF p9_serialized_size
<1> QED
  BY <1>2, <1>3, <1>4


LEMMA RequestTyped == \A fmt \in Requests : fmt \in Seq(RequestElement)
<1> SUFFICES ASSUME NEW fmt \in Requests PROVE fmt \in Seq(RequestElement)
  OBVIOUS
<1>1. fmt \in Seq(Element)
  BY FormatsAssumption
<1>2. \A i \in DOMAIN fmt : fmt[i] \in RequestElement
  BY <1>1, FormatsAssumption DEF RequestElement
<1> QED
  BY <1>1, <1>2

(* Names for which the 16 bits of stat_size suffice.                       *)
ShortNames == \A name \in Names : name + 63 < 65536

LEMMA ElementsTyped ==
  /\ \A f \in Numbers : El(f, <<>>) \in RequestElement
  /\ \A n \in Nat : El("s", <<n>>) \in RequestElement
<1>1. <<>> \in Seq(Nat) /\ \A n \in Nat : <<n>> \in Seq(Nat) /\ Len(<<n>>) = 1
  OBVIOUS
<1> QED
  BY <1>1 DEF El, RequestElement, Element, Numbers

LEMMA ElementSizes ==
  /\ SerializedSize(El("1", <<>>)) = 1 /\ SerializedSize(El("2", <<>>)) = 2
  /\ SerializedSize(El("4", <<>>)) = 4 /\ SerializedSize(El("8", <<>>)) = 8
  /\ \A n \in Nat : SerializedSize(El("s", <<n>>)) = 2 + n
BY DEF SerializedSize, El, Width, Numbers

(* A stat in either form, and how long it is.                              *)
LEMMA StatTyped ==
  ASSUME NEW name \in Nat
  PROVE  /\ StatFormat(name) \in Seq(RequestElement)
         /\ p9_serialized_size(StatFormat(name)) <= 63 + name
<1> DEFINE ext == IF p9_version >= P9_VERSION_2000_U
                    THEN <<El("s", <<0>>), El("4", <<>>), El("4", <<>>), El("4", <<>>)>> ELSE <<>>
           basic == P9_STAT_BASIC(name)
           fmt == StatFormat(name)
           of == [i \in DOMAIN fmt |-> SerializedSize(fmt[i])]
<1>1. basic \in Seq(RequestElement) /\ Len(basic) = 14
  BY ElementsTyped DEF P9_STAT_BASIC, Numbers
<1>2. ext \in Seq(RequestElement) /\ (Len(ext) = 0 \/ Len(ext) = 4)
  BY ElementsTyped DEF Numbers
<1>3. fmt = basic \o ext
  BY DEF StatFormat
<1> HIDE DEF fmt, basic, ext
<1>4. /\ fmt \in Seq(RequestElement) /\ Len(fmt) = 14 + Len(ext) /\ Len(fmt) \in Nat
      /\ DOMAIN fmt = 1 .. Len(fmt)
      /\ \A i \in 1 .. Len(fmt) : fmt[i] = IF i <= 14 THEN basic[i] ELSE ext[i - 14]
  <2>1. /\ basic \o ext \in Seq(RequestElement) /\ Len(basic \o ext) = Len(basic) + Len(ext)
        /\ \A i \in 1 .. Len(basic) + Len(ext) :
             (basic \o ext)[i] = IF i <= Len(basic) THEN basic[i] ELSE ext[i - Len(basic)]
    BY <1>1, <1>2, ConcatProperties, Zenon
  <2> QED
    BY <1>1, <1>3, <2>1
<1>5. of \in Seq(Nat) /\ Len(of) = Len(fmt)
  <2>1. \A i \in 1 .. Len(fmt) : SerializedSize(fmt[i]) \in Nat
    BY <1>4, CountedIsWritten
  <2>2. of = [i \in 1 .. Len(fmt) |-> SerializedSize(fmt[i])]
    BY <1>4
  <2> HIDE DEF of
  <2> QED
    BY <1>4, <2>1, <2>2
<1>6. PICK g : Partial(of, g)
  BY <1>5, SumPartial
<1>7. \A i \in 1 .. 14 : g[i] = g[i - 1] + SerializedSize(basic[i])
  <2> SUFFICES ASSUME NEW i \in 1 .. 14 PROVE g[i] = g[i - 1] + SerializedSize(basic[i])
    OBVIOUS
  <2>1. i \in 1 .. Len(fmt) /\ i \in DOMAIN fmt
    BY <1>2, <1>4
  <2>2. fmt[i] = basic[i]
    BY <1>4, <2>1
  <2> QED
    BY <1>5, <1>6, <2>1, <2>2 DEF Partial
<1>8. g[14] = 49 + name
  <2>1. /\ SerializedSize(basic[1]) = 2 /\ SerializedSize(basic[2]) = 2 /\ SerializedSize(basic[3]) = 4
        /\ SerializedSize(basic[4]) = 1 /\ SerializedSize(basic[5]) = 4 /\ SerializedSize(basic[6]) = 8
        /\ SerializedSize(basic[7]) = 4 /\ SerializedSize(basic[8]) = 4 /\ SerializedSize(basic[9]) = 4
        /\ SerializedSize(basic[10]) = 8 /\ SerializedSize(basic[11]) = 2 + name
        /\ SerializedSize(basic[12]) = 2 /\ SerializedSize(basic[13]) = 2 /\ SerializedSize(basic[14]) = 2
    BY ElementSizes DEF P9_STAT_BASIC, basic
  <2>2. g[0] = 0
    BY <1>6 DEF Partial
  <2>3. g[1] = 2 /\ g[2] = 4 /\ g[3] = 8 /\ g[4] = 9 /\ g[5] = 13 /\ g[6] = 21 /\ g[7] = 25
    BY <1>7, <2>1, <2>2
  <2>4. g[8] = 29 /\ g[9] = 33 /\ g[10] = 41
    BY <1>7, <2>1, <2>3
  <2>5. g[11] = 43 + name /\ g[12] = 45 + name
    BY <1>7, <2>1, <2>4
  <2> QED
    BY <1>7, <2>1, <2>5
<1>9. CASE ext = <<>>
  <2>1. p9_serialized_size(fmt) = g[14]
    BY <1>2, <1>4, <1>5, <1>6, <1>9 DEF Partial, p9_serialized_size
  <2> QED
    BY <1>4, <1>8, <2>1 DEF fmt
<1>10. CASE ext # <<>>
  <2>1. ext = <<El("s", <<0>>), El("4", <<>>), El("4", <<>>), El("4", <<>>)>>
    BY <1>10 DEF ext
  <2>2. /\ SerializedSize(ext[1]) = 2 /\ SerializedSize(ext[2]) = 4
        /\ SerializedSize(ext[3]) = 4 /\ SerializedSize(ext[4]) = 4
    BY <2>1, ElementSizes
  <2>3. \A i \in 15 .. 18 : fmt[i] = ext[i - 14]
    <3>1. Len(ext) = 4
      BY <2>1
    <3> QED
      BY <1>4, <3>1
  <2>4. \A i \in 15 .. 18 : g[i] = g[i - 1] + SerializedSize(ext[i - 14])
    <3> SUFFICES ASSUME NEW i \in 15 .. 18 PROVE g[i] = g[i - 1] + SerializedSize(ext[i - 14])
      OBVIOUS
    <3>1. i \in 1 .. Len(fmt) /\ i \in DOMAIN fmt
      BY <1>4, <2>1
    <3> QED
      BY <1>5, <1>6, <2>3, <3>1 DEF Partial
  <2>5. g[15] = g[14] + 2 /\ g[16] = g[15] + 4 /\ g[17] = g[16] + 4 /\ g[18] = g[17] + 4
    BY <2>2, <2>4
  <2>6. p9_serialized_size(fmt) = g[18]
    BY <1>4, <1>5, <1>6, <2>1 DEF Partial, p9_serialized_size
  <2> QED
    BY <1>4, <1>8, <2>5, <2>6 DEF fmt
<1> QED
  BY <1>9, <1>10


-----------------------------------------------------------------------------
(* What is announced is what is written and what remains to be.            *)
Announced ==
  /\ step = "send" =>
       /\ rest \in Seq(RequestElement) /\ count \in Nat
       /\ size = count + p9_serialized_size(rest)
  /\ step = "sent" => count = size
  /\ step \in Sending /\ s_size > 0 => size = Header + 4 + 2 + s_size

LEMMA HeaderSent ==
  ASSUME NEW fmt \in Seq(RequestElement), NEW inner, SendHeader(fmt, inner),
         inner > 0 => p9_serialized_size(fmt) = 4 + 2 + inner, inner \in Nat
  PROVE  Announced'
<1>1. /\ step' = "send" /\ rest' = fmt /\ count' = Header /\ s_size' = inner
      /\ size' = Header + p9_serialized_size(fmt)
  BY DEF SendHeader
<1>2. p9_serialized_size(rest') = p9_serialized_size(fmt) /\ p9_serialized_size(fmt) \in Nat
  BY <1>1, SizeHead
<1> HIDE DEF p9_serialized_size
<1>3. rest' \in Seq(RequestElement) /\ count' \in Nat /\ size' = count' + p9_serialized_size(rest')
  BY <1>1, <1>2 DEF Header
<1>4. s_size' > 0 => size' = Header + 4 + 2 + s_size'
  BY <1>1, <1>2 DEF Header
<1> QED
  BY <1>1, <1>3, <1>4 DEF Announced

LEMMA AnnouncedInit == WireInit => Announced
BY DEF WireInit, CodecInit, Announced, Sending

(* The stat within a wstat, behind a fid and one of the two lengths.       *)
LEMMA WstatStep ==
  ASSUME ShortNames, p9_wstat
  PROVE  Announced'
<1>1. PICK name \in Names : SendHeader(<<El("4", <<>>), El("2", <<>>)>> \o StatFormat(name), StatSize(name))
  BY DEF p9_wstat
<1> DEFINE f == StatFormat(name)
           fmt == <<El("4", <<>>), El("2", <<>>)>> \o f
           z == p9_serialized_size(f)
<1>2. name \in Nat
  BY LengthsAssumption
<1>3. f \in Seq(RequestElement) /\ z <= 63 + name
  BY <1>2, StatTyped
<1>4. z \in Nat
  BY <1>3, SizeHead
<1>5. StatSize(name) = z
  <2>1. z < 65536
    BY <1>2, <1>3, <1>4 DEF ShortNames
  <2> QED
    BY <1>4, <2>1 DEF StatSize
<1>6. El("4", <<>>) \in RequestElement /\ El("2", <<>>) \in RequestElement
  BY ElementsTyped DEF Numbers
<1> HIDE DEF f
<1>7. /\ fmt \in Seq(RequestElement) /\ fmt # <<>> /\ Head(fmt) = El("4", <<>>)
      /\ Tail(fmt) = <<El("2", <<>>)>> \o f
  BY <1>3, <1>6
<1>8. LET g == <<El("2", <<>>)>> \o f
      IN  g \in Seq(RequestElement) /\ g # <<>> /\ Head(g) = El("2", <<>>) /\ Tail(g) = f
  BY <1>3, <1>6
<1>9. p9_serialized_size(fmt) = 4 + 2 + z
  <2> HIDE DEF fmt, z
  <2>1. p9_serialized_size(fmt) = 4 + p9_serialized_size(<<El("2", <<>>)>> \o f)
    BY <1>7, SizeHead, ElementSizes
  <2>2. p9_serialized_size(<<El("2", <<>>)>> \o f) = 2 + p9_serialized_size(f)
    BY <1>8, SizeHead, ElementSizes
  <2> QED
    BY <1>4, <2>1, <2>2 DEF z
<1> QED
  <2>1. SendHeader(fmt, z)
    BY <1>1, <1>5 DEF f
  <2> HIDE DEF fmt, z
  <2> QED
    BY <1>4, <1>7, <1>9, <2>1, HeaderSent

LEMMA AnnouncedStep ==
  ASSUME ShortNames, Inv, Announced, [WireNext]_wireVars
  PROVE  Announced'
<1>1. CASE BeginSend
  <2>1. PICK fmt \in Requests : SendHeader(fmt, 0)
    BY <1>1 DEF BeginSend
  <2> QED
    BY <2>1, RequestTyped, HeaderSent
<1>2. CASE p9_wstat
  BY <1>2, WstatStep
<1>3. CASE Send
  <2>1. /\ step = "send" /\ step' = "send" /\ rest # <<>> /\ rest' = Tail(rest)
        /\ count' = count + Sum(Writes(Head(rest))) /\ size' = size /\ s_size' = s_size
    BY <1>3 DEF Send
  <2>2. rest \in Seq(RequestElement) /\ count \in Nat /\ size = count + p9_serialized_size(rest)
    BY <2>1 DEF Announced
  <2>3. Head(rest) \in RequestElement /\ Tail(rest) \in Seq(RequestElement)
    BY <2>1, <2>2
  <2>4. Sum(Writes(Head(rest))) = SerializedSize(Head(rest)) /\ SerializedSize(Head(rest)) \in Nat
    BY <2>3, CountedIsWritten
  <2>5. /\ p9_serialized_size(rest) = SerializedSize(Head(rest)) + p9_serialized_size(Tail(rest))
        /\ p9_serialized_size(Tail(rest)) \in Nat
    BY <2>1, <2>2, <2>3, SizeHead
  <2>6. p9_serialized_size(rest') = p9_serialized_size(Tail(rest))
    BY <2>1
  <2> HIDE DEF p9_serialized_size
  <2>7. count' \in Nat /\ size' = count' + p9_serialized_size(rest')
    BY <2>1, <2>2, <2>4, <2>5, <2>6
  <2> QED
    BY <2>1, <2>3, <2>7 DEF Announced, Sending
<1>4. CASE Sent
  <2>1. /\ step = "send" /\ step' = "sent" /\ rest = <<>> /\ UNCHANGED <<count, size, s_size>>
    BY <1>4 DEF Sent
  <2>2. p9_serialized_size(rest) = 0 /\ count \in Nat /\ size = count + p9_serialized_size(rest)
    BY <2>1, SizeHead DEF Announced
  <2> QED
    BY <2>1, <2>2 DEF Announced, Sending
<1>5. CASE \/ BeginRecv \/ TooShort \/ AnyMore \/ ReadNumber \/ ReadData \/ ReadString \/ ReadQids \/ EndRecv
           \/ BeginParse \/ ParseFixed \/ ParseString \/ ParseNumbers \/ ParseDirentName \/ Again
  <2>1. step' \notin Sending
    BY <1>5 DEF BeginRecv, TooShort, AnyMore, ReadNumber, ReadData, ReadString, ReadQids, EndRecv,
                Fails, Next1, CutAfter, BeginParse, ParseFixed, ParseString, ParseNumbers, ParseDirentName, Again,
                Malformed, Goes, Following, Reserve, Sending
  <2> QED
    BY <2>1 DEF Announced, Sending
<1>6. CASE Classify
  BY <1>6 DEF Classify, Announced, Sending
<1>7. CASE UNCHANGED wireVars
  <2>1. UNCHANGED <<step, rest, count, size, s_size>>
    BY <1>7 DEF wireVars
  <2> QED
    BY <2>1 DEF Announced, p9_serialized_size
<1> QED
  BY <1>1, <1>2, <1>3, <1>4, <1>5, <1>6, <1>7 DEF WireNext

(* Whatever a request holds, the size in its header is the number of bytes *)
(* that p9_do_vsend writes, and the stat within a wstat is as long as the  *)
(* lengths before it say, for names whose stat has a 16-bit size           *)
(* (p9_vserialized_size, p9_wstat).                                        *)
THEOREM SizesAnnounced == ShortNames /\ WireSpec => []SizeAnnounced
<1> SUFFICES ASSUME ShortNames PROVE WireSpec => []SizeAnnounced
  OBVIOUS
<1>1. Announced => SizeAnnounced
  BY DEF Announced, SizeAnnounced, Sending
<1>2. WireInit => Announced
  BY AnnouncedInit
<1>3. Inv /\ Announced /\ [WireNext]_wireVars => Announced'
  BY AnnouncedStep
<1> QED
  BY <1>1, <1>2, <1>3, InvHolds, PTL DEF WireSpec

-----------------------------------------------------------------------------
(* The errors.                                                             *)
LEMMA FirstMatches ==
  ASSUME NEW text, Matching(text) # {}
  PROVE  /\ FirstOf(Matching(text)) \in Matching(text)
         /\ \A j \in Matching(text) : FirstOf(Matching(text)) <= j
<1>1. Matching(text) \subseteq Nat
  <2>1. DOMAIN error_patterns = 1 .. 32
    BY DEF error_patterns
  <2> QED
    BY <2>1 DEF Matching
<1>2. \E i \in Matching(text) : \A j \in Matching(text) : i <= j
  BY <1>1, LeastExists
<1> QED
  BY <1>2 DEF FirstOf

LEMMA PatternsMeanErrors ==
  \A i \in DOMAIN error_patterns : error_patterns[i][2] # None
<1> DEFINE e(i) == error_patterns[i][2]
<1>1. DOMAIN error_patterns = 1 .. 32
  BY DEF error_patterns
<1>2. /\ e(1) # None /\ e(2) # None /\ e(3) # None /\ e(4) # None
      /\ e(5) # None /\ e(6) # None /\ e(7) # None /\ e(8) # None
      /\ e(9) # None /\ e(10) # None /\ e(11) # None /\ e(12) # None
      /\ e(13) # None /\ e(14) # None /\ e(15) # None /\ e(16) # None
      /\ e(17) # None /\ e(18) # None /\ e(19) # None /\ e(20) # None
      /\ e(21) # None /\ e(22) # None /\ e(23) # None /\ e(24) # None
      /\ e(25) # None /\ e(26) # None /\ e(27) # None /\ e(28) # None
      /\ e(29) # None /\ e(30) # None /\ e(31) # None /\ e(32) # None
  BY DEF error_patterns, None
<1> HIDE DEF e
<1>3. \A i \in 1 .. 32 : e(i) # None
  BY <1>2
<1> QED
  BY <1>1, <1>3 DEF e

LEMMA TextsMeanErrors == \A text : p9_error_to_err(text) # None
<1> SUFFICES ASSUME NEW text PROVE p9_error_to_err(text) # None
  OBVIOUS
<1>1. CASE Matching(text) = {}
  BY <1>1 DEF p9_error_to_err, None
<1>2. CASE Matching(text) # {}
  BY <1>2, FirstMatches, PatternsMeanErrors DEF p9_error_to_err, Matching
<1> QED
  BY <1>1, <1>2

LEMMA NumbersMeanErrors == \A lerr : p9_lerror_to_err(lerr) # None
<1>1. \A i \in DOMAIN lerrors : lerrors[i] # None
  BY DEF lerrors, None
<1> QED
  BY <1>1 DEF p9_lerror_to_err, None

(* Of two patterns in a text the longer one comes first.                   *)
LEMMA LongerFirst ==
  /\ p9_error_to_err("exists") = "EEXIST"
  /\ p9_error_to_err("is a directory") = "EISDIR"
<1> DEFINE text(i) == error_patterns[i][1]
           dirs == {"is a directory", "directory"}
<1>0. DOMAIN error_patterns = 1 .. 32
  BY DEF error_patterns
<1>1. /\ text(4) = "exists" /\ error_patterns[4][2] = "EEXIST"
      /\ text(20) = "is a directory" /\ error_patterns[20][2] = "EISDIR"
  BY DEF error_patterns
<1>2. \A i \in 1 .. 3 : text(i) \notin {"exists", "exist"}
  <2>1. text(1) = "permitted" /\ text(2) = "permission" /\ text(3) = "access"
    BY DEF error_patterns
  <2> HIDE DEF text
  <2> QED
    BY <2>1
<1>3. \A i \in 1 .. 19 : text(i) \notin dirs
  <2>1. /\ text(1) \notin dirs /\ text(2) \notin dirs /\ text(3) \notin dirs /\ text(4) \notin dirs
        /\ text(5) \notin dirs /\ text(6) \notin dirs /\ text(7) \notin dirs /\ text(8) \notin dirs
        /\ text(9) \notin dirs /\ text(10) \notin dirs /\ text(11) \notin dirs /\ text(12) \notin dirs
        /\ text(13) \notin dirs /\ text(14) \notin dirs /\ text(15) \notin dirs /\ text(16) \notin dirs
        /\ text(17) \notin dirs /\ text(18) \notin dirs /\ text(19) \notin dirs
    BY DEF error_patterns
  <2> HIDE DEF text, dirs
  <2> QED
    BY <2>1
<1>4. Holds("exists") = {"exists", "exist"} /\ Holds("is a directory") = {"is a directory", "directory"}
  BY DEF Holds
<1>5. 4 \in Matching("exists") /\ 20 \in Matching("is a directory")
  <2>1. 4 \in DOMAIN error_patterns /\ 20 \in DOMAIN error_patterns
    BY <1>0
  <2>2. error_patterns[4][1] \in Holds("exists") /\ error_patterns[20][1] \in Holds("is a directory")
    BY <1>1, <1>4
  <2> QED
    BY <2>1, <2>2, Zenon DEF Matching
<1>6. FirstOf(Matching("exists")) = 4
  <2>1. \A i \in Matching("exists") : i \in 1 .. 32 /\ i \notin 1 .. 3
    BY <1>0, <1>2, <1>4 DEF Matching
  <2>2. FirstOf(Matching("exists")) \in Matching("exists") /\ FirstOf(Matching("exists")) <= 4
    BY <1>5, FirstMatches
  <2> QED
    BY <2>1, <2>2
<1>7. FirstOf(Matching("is a directory")) = 20
  <2>1. \A i \in Matching("is a directory") : i \in 1 .. 32 /\ i \notin 1 .. 19
    BY <1>0, <1>3, <1>4 DEF Matching
  <2>2. FirstOf(Matching("is a directory")) \in Matching("is a directory") /\ FirstOf(Matching("is a directory")) <= 20
    BY <1>5, FirstMatches
  <2>3. \A i \in 1 .. 32 : i \notin 1 .. 19 /\ i <= 20 => i = 20
    OBVIOUS
  <2> QED
    BY <2>1, <2>2, <2>3
<1> QED
  BY <1>1, <1>5, <1>6, <1>7 DEF p9_error_to_err

(* While a reply is read nothing has failed yet, and one that is not asked *)
(* whether there is more must be complete; where reading ends early there  *)
(* is an error, or there was no more, or the stream has ended.             *)
Told ==
  /\ step = "recv" =>
       /\ err = None /\ type \in {"match", "lerror", "error"}
       /\ type # "match" => \A i \in DOMAIN rest : rest[i].f # "?"
  /\ step = "out" =>
       /\ err = None => type \in {"match", "lerror", "error"}
       /\ err = None /\ ended = "no" => type = "match" /\ Head(rest).f = "?"
       /\ type = "error" => rest # <<>>

LEMMA ToldStep ==
  ASSUME Inv, Told, OutcomeRight, [WireNext]_wireVars
  PROVE  Told' /\ OutcomeRight'
<1>1. CASE BeginRecv
  <2>1. step' \in {"recv", "out"}
    BY <1>1 DEF BeginRecv
  <2>2. type' = "lerror" => rest' = <<El("4", <<>>)>>
    BY <1>1 DEF BeginRecv
  <2>3. type' = "error" => rest' \in {<<El("s", <<>>), El("4", <<>>)>>, <<El("s", <<>>)>>}
    BY <1>1 DEF BeginRecv, ErrorFormat
  <2>4. type' \in {"lerror", "error"} => \A i \in DOMAIN rest' : rest'[i].f # "?"
    BY <2>2, <2>3 DEF El
  <2>5. /\ step' = "recv" => err' = None /\ type' \in {"match", "lerror", "error"}
        /\ step' = "out" => err' # None /\ type' = "other"
    BY <1>1 DEF BeginRecv, None
  <2> QED
    BY <2>1, <2>4, <2>5 DEF Told, OutcomeRight
<1>2. CASE TooShort \/ AnyMore \/ ReadNumber \/ ReadData \/ ReadString \/ ReadQids
  <2>1. step = "recv" /\ rest # <<>> /\ type' = type
    BY <1>2 DEF TooShort, AnyMore, ReadNumber, ReadData, ReadString, ReadQids, Expecting, reading
  <2>2. rest \in Seq(ReplyElement)
    BY <2>1 DEF Inv, Typed
  <2>3. \/ step' = "recv" /\ rest' = Tail(rest) /\ err' = err
        \/ step' = "out" /\ rest' = rest /\ err' # None
        \/ step' = "out" /\ rest' = rest /\ err' = None /\ Head(rest).f = "?"
        \/ step' = "out" /\ rest' = rest /\ err' = None /\ ended' # "no"
    BY <1>2, StreamAssumption
       DEF TooShort, AnyMore, ReadNumber, ReadData, ReadString, ReadQids, Fails, Next1, CutAfter, Ends, None
  <2>4. CASE step' = "recv" /\ rest' = Tail(rest) /\ err' = err
    <3>1. /\ Len(rest) \in Nat /\ DOMAIN rest = 1 .. Len(rest) /\ DOMAIN Tail(rest) = 1 .. Len(rest) - 1
          /\ \A i \in 1 .. Len(rest) - 1 : Tail(rest)[i] = rest[i + 1]
      BY <2>1, <2>2
    <3>2. type # "match" => \A i \in DOMAIN Tail(rest) : Tail(rest)[i].f # "?"
      BY <2>1, <3>1 DEF Told
    <3> QED
      BY <2>1, <2>4, <3>2 DEF Told, OutcomeRight
  <2>5. CASE step' = "out" /\ rest' = rest /\ err' # None
    BY <2>1, <2>5 DEF Told, OutcomeRight
  <2>6. CASE step' = "out" /\ rest' = rest /\ err' = None /\ Head(rest).f = "?"
    <3>1. type = "match"
      <4>1. 1 \in DOMAIN rest /\ Head(rest) = rest[1]
        BY <2>1, <2>2
      <4> QED
        BY <2>1, <2>6, <4>1 DEF Told
    <3> QED
      BY <2>1, <2>6, <3>1 DEF Told, OutcomeRight
  <2>7. CASE step' = "out" /\ rest' = rest /\ err' = None /\ ended' # "no"
    BY <2>1, <2>7 DEF Told, OutcomeRight
  <2> QED
    BY <2>3, <2>4, <2>5, <2>6, <2>7
<1>3. CASE EndRecv
  <2>1. /\ step = "out" \/ (step = "recv" /\ rest = <<>>)
        /\ step' \in {"returned", "crashed"} /\ err' \in Outcomes /\ UNCHANGED <<rest, type, why>>
        /\ ended # "no" => ended' = ended
        /\ ended' \in {"no", "eof", "error"}
    <3>1. ended' = ended \/ (Left > 0 /\ ended' \in StreamEnds)
      BY <1>3 DEF EndRecv, Drain, Ends
    <3>2. ended # "no" => ~(Left > 0)
      BY DEF Left
    <3>3. ended \in {"no", "eof", "error"}
      BY DEF Inv, Typed
    <3>4. /\ step = "out" \/ (step = "recv" /\ rest = <<>>)
          /\ step' \in {"returned", "crashed"} /\ err' \in Outcomes /\ UNCHANGED <<rest, type, why>>
      BY <1>3 DEF EndRecv
    <3> QED
      BY <3>1, <3>2, <3>3, <3>4, StreamAssumption
  <2>2. CASE StreamError # None
    <3>1. err' = StreamError
      BY <2>1, <2>2 DEF Outcomes
    <3>2. ended' # "error" => err # None /\ step = "out"
      BY <2>1, <2>2 DEF StreamError, Told
    <3> QED
      BY <2>1, <2>2, <3>1, <3>2 DEF Told, OutcomeRight
  <2>3. CASE StreamError = None
    <3>1. err = None /\ ended' # "error" /\ type \in {"match", "lerror", "error"}
      BY <2>1, <2>3 DEF StreamError, Told, None
    <3>2. CASE type = "match"
      <4>1. err' = None
        BY <2>1, <2>3, <3>2 DEF Outcomes
      <4>2. rest = <<>> \/ Head(rest).f = "?" \/ ended' = "eof"
        BY <2>1, <3>1 DEF Told
      <4> QED
        BY <2>1, <3>1, <3>2, <4>2 DEF Told, OutcomeRight
    <3>3. CASE type = "lerror"
      <4>1. err' # None
        BY <2>1, <2>3, <3>3, NumbersMeanErrors DEF Outcomes
      <4> QED
        BY <2>1, <3>1, <3>3, <4>1 DEF Told, OutcomeRight
    <3>4. CASE type = "error"
      <4>1. err' # None
        BY <2>1, <2>3, <3>4, TextsMeanErrors DEF Outcomes
      <4>2. rest = <<>> => ~Untold
        BY <2>1, <3>4 DEF Untold, Told
      <4>3. rest = <<>> => err' = p9_error_to_err(why.text)
        BY <2>1, <2>3, <3>4, <4>2 DEF Outcomes
      <4> QED
        BY <2>1, <3>1, <3>4, <4>1, <4>3, LongerFirst DEF Told, OutcomeRight
    <3> QED
      BY <3>1, <3>2, <3>3, <3>4
  <2> QED
    BY <2>2, <2>3
<1>4. CASE BeginSend \/ p9_wstat \/ Send \/ Sent
  <2>1. step' \in Sending
    BY <1>4 DEF BeginSend, p9_wstat, SendHeader, Send, Sent, Sending
  <2> QED
    BY <2>1 DEF Sending, Told, OutcomeRight
<1>5. CASE BeginParse \/ ParseFixed \/ ParseString \/ ParseNumbers \/ ParseDirentName \/ Classify
  <2>1. step' \in ParseSteps
    BY <1>5 DEF BeginParse, ParseFixed, ParseString, ParseNumbers, ParseDirentName, Classify,
                Malformed, Goes, Following, Reserve, ParseSteps
  <2> QED
    BY <2>1 DEF ParseSteps, Told, OutcomeRight
<1>6. CASE Again
  BY <1>6 DEF Again, Told, OutcomeRight
<1>7. CASE UNCHANGED wireVars
  BY <1>7 DEF wireVars, reading, Told, OutcomeRight
<1> QED
  BY <1>1, <1>2, <1>3, <1>4, <1>5, <1>6, <1>7 DEF WireNext

(* For any formats, sizes and lengths, and wherever the stream ends, a     *)
(* call succeeds only on a matching reply with all its outputs, or none    *)
(* after the question whether there is more, or with outputs unset at the  *)
(* end of the stream; a failed read and an error reply always fail it, and *)
(* the longer of two patterns in its text decides how (p9_do_vrecv,        *)
(* p9_error_to_err).                                                       *)
THEOREM OutcomesRight == WireSpec => []OutcomeRight
<1>1. WireInit => Told /\ OutcomeRight
  BY DEF WireInit, CodecInit, Told, OutcomeRight
<1>2. Inv /\ Told /\ OutcomeRight /\ [WireNext]_wireVars => Told' /\ OutcomeRight'
  BY ToldStep
<1> QED
  BY <1>1, <1>2, InvHolds, PTL DEF WireSpec

-----------------------------------------------------------------------------
(* A mode has the bits of its type, and one without a type is of a file.   *)
LEMMA OneType ==
  ASSUME NEW b \in BOOLEAN, p9_version \in Nat
  PROVE  /\ p9_mode_to_mode({}, b) = REG
         /\ p9_mode_to_mode({"dir"}, b) = DIR
         /\ p9_version < P9_VERSION_2000_U => \A m \in Extended : p9_mode_to_mode({m}, b) = REG
         /\ p9_version >= P9_VERSION_2000_U =>
              /\ p9_mode_to_mode({"socket"}, b) = SOCK
              /\ p9_mode_to_mode({"fifo"}, b) = FIFO
              /\ p9_mode_to_mode({"dev"}, b) = IF b THEN BLK ELSE CHR
              /\ p9_mode_to_mode({"symlink"}, b) = LNK
<1> DEFINE bit(m) == CASE m = "dir" -> DIR
                       [] m \in Extended /\ p9_version < P9_VERSION_2000_U -> {}
                       [] m = "socket" /\ p9_version >= P9_VERSION_2000_U -> SOCK
                       [] m = "fifo" /\ p9_version >= P9_VERSION_2000_U -> FIFO
                       [] m = "dev" /\ p9_version >= P9_VERSION_2000_U -> IF b THEN BLK ELSE CHR
                       [] m = "symlink" /\ p9_version >= P9_VERSION_2000_U -> LNK
<1>0. p9_version < P9_VERSION_2000_U <=> ~(p9_version >= P9_VERSION_2000_U)
  BY DEF P9_VERSION_2000_U
<1>1. \A m : UNION {bit(x) : x \in {m}} = bit(m)
  <2> HIDE DEF bit
  <2> QED
    OBVIOUS
<1>2. \A m : p9_mode_to_mode({m}, b) = IF bit(m) = {} THEN REG ELSE bit(m)
  BY <1>1 DEF p9_mode_to_mode
<1>3. p9_mode_to_mode({}, b) = REG
  BY DEF p9_mode_to_mode
<1>4. bit("dir") = DIR /\ DIR # {} /\ SOCK # {} /\ LNK # {} /\ BLK # {} /\ CHR # {} /\ FIFO # {}
  BY DEF DIR, SOCK, LNK, BLK, CHR, FIFO, Extended
<1>5. p9_version < P9_VERSION_2000_U => \A m \in Extended : bit(m) = {}
  <2>1. ASSUME p9_version < P9_VERSION_2000_U
        PROVE  bit("socket") = {} /\ bit("fifo") = {} /\ bit("dev") = {} /\ bit("symlink") = {}
    <3>1. /\ "socket" \in Extended /\ "fifo" \in Extended /\ "dev" \in Extended /\ "symlink" \in Extended
      BY DEF Extended
    <3> QED
      BY <1>0, <2>1, <3>1
  <2> HIDE DEF bit
  <2> QED
    BY <2>1 DEF Extended
<1>6. p9_version >= P9_VERSION_2000_U =>
        bit("socket") = SOCK /\ bit("fifo") = FIFO /\ bit("symlink") = LNK /\ bit("dev") = IF b THEN BLK ELSE CHR
  BY <1>0
<1> HIDE DEF bit
<1> QED
  BY <1>2, <1>3, <1>4, <1>5, <1>6

LEMMA OneDType ==
  ASSUME NEW b \in BOOLEAN, p9_version \in Nat
  PROVE  /\ p9_mode_to_d_type({}, b) = "DT_REG"
         /\ p9_mode_to_d_type({"dir"}, b) = "DT_DIR"
         /\ p9_version < P9_VERSION_2000_U => \A m \in Extended : p9_mode_to_d_type({m}, b) = "DT_REG"
         /\ p9_version >= P9_VERSION_2000_U =>
              /\ p9_mode_to_d_type({"socket"}, b) = "DT_SOCK"
              /\ p9_mode_to_d_type({"fifo"}, b) = "DT_FIFO"
              /\ p9_mode_to_d_type({"dev"}, b) = IF b THEN "DT_BLK" ELSE "DT_CHR"
              /\ p9_mode_to_d_type({"symlink"}, b) = "DT_LNK"
<1>1. p9_version < P9_VERSION_2000_U <=> ~(p9_version >= P9_VERSION_2000_U)
  BY DEF P9_VERSION_2000_U
<1> QED
  BY <1>1 DEF p9_mode_to_d_type, Extended

(* In both versions before 9P2000.L, io_stat and dir_readdir say the same  *)
(* of a file whose mode has at most one type (p9_mode_to_mode,             *)
(* p9_mode_to_d_type).                                                     *)
THEOREM SameTypes == WireSpec => []TypesAgree
<1>1. WireInit => TypesAgree
  BY DEF WireInit, CodecInit, TypesAgree
<1>2. Inv /\ TypesAgree /\ [WireNext]_wireVars => TypesAgree'
  <2> SUFFICES ASSUME Inv, TypesAgree, [WireNext]_wireVars
               PROVE  TypesAgree'
    OBVIOUS
  <2>1. CASE Classify
    <3> DEFINE Both(m, b) == <<p9_mode_to_mode(m, b), p9_mode_to_d_type(m, b)>>
               Agreed == {<<SOCK, "DT_SOCK">>, <<LNK, "DT_LNK">>, <<REG, "DT_REG">>, <<BLK, "DT_BLK">>,
                          <<DIR, "DT_DIR">>, <<CHR, "DT_CHR">>, <<FIFO, "DT_FIFO">>}
    <3>1. PICK b \in BOOLEAN :
            \E m \in {{}, {"dir"}, {"socket"}, {"fifo"}, {"dev"}, {"symlink"}} : types' = Both(m, b)
      BY <2>1 DEF Classify
    <3>2. p9_version \in Nat
      BY DEF Inv, Typed, P9_VERSION_2000, P9_VERSION_2000_L
    <3>3. Both({}, b) \in Agreed /\ Both({"dir"}, b) \in Agreed
      BY <3>2, OneType, OneDType
    <3>4. \A m \in Extended : Both({m}, b) \in Agreed
      <4>1. CASE p9_version < P9_VERSION_2000_U
        BY <3>2, <4>1, OneType, OneDType
      <4>2. CASE p9_version >= P9_VERSION_2000_U
        BY <3>2, <4>2, OneType, OneDType DEF Extended
      <4>3. p9_version < P9_VERSION_2000_U \/ p9_version >= P9_VERSION_2000_U
        BY <3>2 DEF P9_VERSION_2000_U
      <4> QED
        BY <4>1, <4>2, <4>3
    <3> HIDE DEF Both, Agreed
    <3>5. types' \in Agreed
      BY <3>1, <3>3, <3>4, Zenon DEF Extended
    <3> QED
      BY <3>5 DEF Agreed, TypesAgree
  <2>2. CASE ~Classify
    <3>1. types' = types \/ types' = <<>>
      BY <2>2 DEF WireNext, wireVars, reading, BeginSend, p9_wstat, SendHeader, Send, Sent, BeginRecv, TooShort,
                  AnyMore, ReadNumber, ReadData, ReadString, ReadQids, Expecting, EndRecv, BeginParse,
                  ParseFixed, ParseString, ParseNumbers, ParseDirentName, BufferSame, Again
    <3> QED
      BY <3>1 DEF TypesAgree
  <2> QED
    BY <2>1, <2>2
<1> QED
  BY <1>1, <1>2, InvHolds, PTL DEF WireSpec

=============================================================================
