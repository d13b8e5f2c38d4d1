--------------------------- MODULE P9StreamProofs ---------------------------
(***************************************************************************)
(* What travels on the two streams of the RPC multiplexer: requests leave  *)
(* whole whatever fails, and while nothing fails every caller gets the     *)
(* reply to its own request, so that the multiplexer implements the        *)
(* safety part of RpcService.                                              *)
(***************************************************************************)
EXTENDS P9RpcProofs, SequenceTheorems

(* What is left of a sequence without its first two elements.              *)
LEMMA DropTwo ==
  ASSUME NEW S, NEW s \in Seq(S), Len(s) >= 2,
         NEW w, w = SubSeq(s, 3, Len(s))
  PROVE  /\ w \in Seq(S)
         /\ Len(w) = Len(s) - 2
         /\ \A i \in 1 .. Len(s) - 2 : w[i] = s[i + 2]
<1> DEFINE n == Len(s)
<1>1. n \in Nat /\ n >= 2 /\ \A i \in 3 .. n : s[i] \in S
  OBVIOUS
<1>2. /\ w \in Seq(S)
      /\ Len(w) = IF 3 <= n THEN n - 3 + 1 ELSE 0
      /\ \A i \in 1 .. n - 3 + 1 : w[i] = s[3 + i - 1]
  BY <1>1, SubSeqProperties
<1>3. \A i \in 1 .. n - 2 : 3 + i - 1 = i + 2
  BY <1>1
<1> HIDE DEF n
<1>4. Len(w) = n - 2
  BY <1>1, <1>2
<1>5. \A i \in 1 .. n - 2 : w[i] = s[i + 2]
  BY <1>1, <1>2, <1>3
<1>6. QED
  BY <1>2, <1>4, <1>5 DEF n

USE ThreadAssumption, NoMsgAssumption

(***************************************************************************)
(* The outgoing stream.                                                    *)
(***************************************************************************)
(* What has been written and the server has not taken.                     *)
Stream == wire \o outbuf

(* write_mutex is held by the thread between its header and its body.      *)
WriterKnown == \A t \in Thread : pc[t] = "writing" <=> write_mutex = t

(* Only the holder of write_mutex may have a header without its body on a  *)
(* stream that has not failed, and it is the last thing on it.             *)
HalfWritten ==
  ~outErr =>
    /\ write_mutex = NoThread => Len(Stream) % 2 = 0
    /\ write_mutex # NoThread =>
         /\ Len(Stream) % 2 = 1
         /\ Stream[Len(Stream)].of = write_mutex
         /\ Stream[Len(Stream)].tag = tag[write_mutex]

(* What is buffered belongs to threads that will flush it.                 *)
Buffered == \A i \in 1 .. Len(outbuf) : pc[outbuf[i].of] \in {"writing", "flush"}

(* A failed stream buffers nothing.                                        *)
FailedEmpty == outErr => outbuf = <<>>

OutInv == WriterKnown /\ HalfWritten /\ OutFramed /\ Buffered /\ FailedEmpty

(***************************************************************************)
(* One request or reply per call.                                          *)
(***************************************************************************)
StreamOf(t) == \E i \in 1 .. Len(Stream) : Stream[i].of = t
ServedOf(t) == \E r \in pending : r.of = t
ComingOf(t) == \E i \in 1 .. Len(inbox) : inbox[i].of = t
BodyOf(t) == body # NoMsg /\ body.of = t

(* Calls in progress have different tags.                                  *)
TagsApart ==
  \A t, u \in Thread : pc[t] # "idle" /\ pc[u] # "idle" /\ tag[t] = tag[u] => t = u

(* A reply to a call in progress, complete.                                *)
Proper(m) == m.of \in Thread /\ m.tag = tag[m.of] /\ ~m.cut /\ m.kind \in Kinds

(* Whatever travels carries the tag of the call it belongs to.             *)
Tagged ==
  /\ \A i \in 1 .. Len(Stream) : Stream[i].tag = tag[Stream[i].of]
  /\ \A r \in pending : r.tag = tag[r.of]
  /\ \A i \in 1 .. Len(inbox) : Proper(inbox[i])
  /\ body # NoMsg => Proper(body)

(* No call has two requests on the stream or two replies on their way.     *)
Once ==
  /\ \A i, j \in 1 .. Len(Stream) :
       Stream[i].part = "header" /\ Stream[j].part = "header" /\ Stream[i].of = Stream[j].of => i = j
  /\ \A i, j \in 1 .. Len(inbox) : inbox[i].of = inbox[j].of => i = j

(* A call is in one place: on the stream, with the server, on its way      *)
(* back, or read up to its body.                                           *)
OnePlace ==
  \A t \in Thread :
    /\ StreamOf(t) => ~ServedOf(t) /\ ~ComingOf(t) /\ ~BodyOf(t)
    /\ ServedOf(t) => ~ComingOf(t) /\ ~BodyOf(t)
    /\ ComingOf(t) => ~BodyOf(t)

(* Where the caller is while its request or reply travels.                 *)
Out == Registered \ {"registered"}
Whole == Out \ {"writing"}
Stage ==
  \A t \in Thread :
    /\ StreamOf(t) => pc[t] \in Out
    /\ ServedOf(t) \/ ComingOf(t) => pc[t] \in Whole
    /\ BodyOf(t) => pc[t] \in Whole \cup {"body"}

(* The body next on the stream is that of the header in some hands: read   *)
(* and not dispatched, or given to its owner.                              *)
Hands ==
  /\ body # NoMsg => got[body.of] = body \/ \E u \in Thread : pc[u] = "dispatch" /\ hdr[u] = body
  /\ \A t \in Thread :
       /\ got[t] # NoMsg => got[t].of = t /\ (pc[t] = "release" \/ got[t] = body)
       /\ pc[t] = "dispatch" => hdr[t] = body
       /\ pc[t] = "body" => got[t] = body
       /\ pc[t] \in {"read", "release"} => body = NoMsg

(* A call has its result once it has read its reply.                       *)
Results ==
  \A t \in Thread :
    /\ pc[t] \in Registered \cup {"body"} => result[t] = "none"
    /\ pc[t] = "release" => result[t] # "none"

Travel == Tagged /\ Once /\ OnePlace /\ Stage

FlightInv == TagsApart /\ Travel /\ Hands /\ Results

(* No assertion has failed.                                                *)
NoCrash == ~crashed

LEMMA StreamTyped ==
  ASSUME TypeOK
  PROVE  Stream \in Seq(Part) /\ Len(Stream) \in Nat /\ \A i \in 1 .. Len(Stream) : Stream[i] \in Part
  BY DEF TypeOK, Stream

(* A write that does not fail takes along all that is buffered.            *)
LEMMA WriteOutMoves ==
  ASSUME NEW s \in Seq(Part), WriteOut(s), wire \in Seq(Part), ~outErr'
  PROVE  outbuf' = <<>> /\ Stream' = wire \o s /\ outErr' = outErr
<1>1. outbuf' = <<>> /\ wire' = wire \o s /\ outErr' = outErr
  BY DEF WriteOut
<1>2. (wire \o s) \o <<>> = wire \o s
  OBVIOUS
<1>3. QED
  BY <1>1, <1>2 DEF Stream

(* Writing a part puts it at the end of the stream, unless a write fails.  *)
LEMMA PutExtends ==
  ASSUME TypeOK, NEW t \in Thread, NEW p \in {"header", "body"}, Put(t, p), ~outErr'
  PROVE  /\ ~outErr
         /\ Len(Stream') = Len(Stream) + 1
         /\ \A i \in 1 .. Len(Stream) : Stream'[i] = Stream[i]
         /\ Stream'[Len(Stream) + 1] = [of |-> t, tag |-> tag[t], part |-> p]
         /\ \/ outbuf' = Append(outbuf, [of |-> t, tag |-> tag[t], part |-> p])
            \/ outbuf' = <<>>
<1> DEFINE x == [of |-> t, tag |-> tag[t], part |-> p]
<1>1. x \in Part
  BY DEF TypeOK, Part
<1>2. wire \in Seq(Part) /\ outbuf \in Seq(Part)
  BY DEF TypeOK
<1>3. /\ ~outErr
      /\ \/ outbuf' = Append(outbuf, x) /\ wire' = wire
         \/ WriteOut(Append(outbuf, x))
  BY DEF Put
<1> HIDE DEF x
<1>4. Append(outbuf, x) \in Seq(Part)
  BY <1>1, <1>2
<1>5. /\ Stream' = wire \o Append(outbuf, x)
      /\ outbuf' = Append(outbuf, x) \/ outbuf' = <<>>
  BY <1>2, <1>3, <1>4, WriteOutMoves DEF Stream
<1>6. /\ Len(wire \o Append(outbuf, x)) = Len(wire \o outbuf) + 1
      /\ \A i \in 1 .. Len(wire \o outbuf) : (wire \o Append(outbuf, x))[i] = (wire \o outbuf)[i]
      /\ (wire \o Append(outbuf, x))[Len(wire \o outbuf) + 1] = x
  BY <1>1, <1>2
<1>7. QED
  BY <1>3, <1>5, <1>6 DEF Stream, x

(* Once a write has failed nothing is buffered.                            *)
LEMMA PutFails ==
  ASSUME FailedEmpty, NEW t \in Thread, NEW p \in {"header", "body"}, Put(t, p), outErr'
  PROVE  outbuf' = <<>>
  BY DEF FailedEmpty, Put, WriteOut

(* Flushing moves what is buffered, unless the write fails.                *)
LEMMA FlushMoves ==
  ASSUME TypeOK, OutInv, NEW t \in Thread, Flush(t)
  PROVE  /\ outbuf' = <<>>
         /\ ~outErr' => Stream' = Stream /\ outErr' = outErr
<1>1. wire \in Seq(Part) /\ outbuf \in Seq(Part)
  BY DEF TypeOK
<1>2. \/ outbuf = <<>> /\ UNCHANGED <<outbuf, wire, outErr>>
      \/ WriteOut(outbuf)
  BY DEF Flush
<1>3. CASE outbuf = <<>> /\ UNCHANGED <<outbuf, wire, outErr>>
  BY <1>3 DEF Stream
<1>4. CASE WriteOut(outbuf)
  <2>1. outbuf' = <<>>
    BY <1>4 DEF WriteOut
  <2>2. ASSUME ~outErr' PROVE Stream' = Stream /\ outErr' = outErr
    BY <1>1, <1>4, <2>2, WriteOutMoves DEF Stream
  <2>3. QED
    BY <2>1, <2>2
<1>5. QED
  BY <1>2, <1>3, <1>4

(* The server takes the first two parts.                                   *)
LEMMA AcceptTakes ==
  ASSUME TypeOK, Accept
  PROVE  /\ Len(wire) >= 2 /\ Len(Stream) >= 2
         /\ wire[1] = Stream[1] /\ Stream[1] \in Part
         /\ Len(Stream') = Len(Stream) - 2
         /\ \A i \in 1 .. Len(Stream) - 2 : Stream'[i] = Stream[i + 2]
<1>1. wire \in Seq(Part) /\ outbuf \in Seq(Part) /\ Len(wire) >= 2
  BY DEF TypeOK, Accept
<1>2. wire' = SubSeq(wire, 3, Len(wire)) /\ outbuf' = outbuf
  BY DEF Accept, outVars
<1> DEFINE w == SubSeq(wire, 3, Len(wire))
<1>3. w \in Seq(Part) /\ Len(w) = Len(wire) - 2
  BY <1>1, DropTwo
<1>4. ASSUME NEW i \in 1 .. Len(wire) - 2 PROVE w[i] = wire[i + 2]
  BY <1>1, DropTwo
<1> HIDE DEF w
<1>5. /\ Len(w \o outbuf) = Len(wire \o outbuf) - 2
      /\ \A i \in 1 .. Len(wire \o outbuf) - 2 : (w \o outbuf)[i] = (wire \o outbuf)[i + 2]
  <2>1. Len(w \o outbuf) = Len(wire \o outbuf) - 2
    BY <1>1, <1>3
  <2>2. ASSUME NEW i \in 1 .. Len(wire \o outbuf) - 2
        PROVE  (w \o outbuf)[i] = (wire \o outbuf)[i + 2]
    <3>1. CASE i <= Len(w)
      BY <1>1, <1>3, <1>4, <3>1
    <3>2. CASE i > Len(w)
      BY <1>1, <1>3, <3>2
    <3>3. QED
      BY <1>3, <3>1, <3>2
  <2>3. QED
    BY <2>1, <2>2
<1>6. Len(wire \o outbuf) >= 2 /\ (wire \o outbuf)[1] = wire[1] /\ wire[1] \in Part
  BY <1>1
<1>7. QED
  BY <1>1, <1>2, <1>5, <1>6 DEF Stream, w

(* Whole messages, the last of which may lack its body.                    *)
Framed(s) ==
  \A i \in 1 .. Len(s) :
    /\ s[i].part = IF i % 2 = 1 THEN "header" ELSE "body"
    /\ i % 2 = 0 => s[i].of = s[i - 1].of /\ s[i].tag = s[i - 1].tag

LEMMA FramedStream == OutFramed <=> (~outErr => Framed(Stream))
  BY DEF OutFramed, Framed, Stream

(***************************************************************************)
(* What a step of thread t leaves alone.                                   *)
(***************************************************************************)
(* A thread's step does nothing to another but wake it, and perhaps give   *)
(* it a header.                                                            *)
LEMMA OthersStay ==
  ASSUME TypeOK, NEW t \in Thread, Act(t), NEW u \in Thread, u # t
  PROVE  /\ pc'[u] = pc[u] \/ (pc[u] = "wait" /\ pc'[u] = "woken")
         /\ tag'[u] = tag[u] /\ hdr'[u] = hdr[u] /\ result'[u] = result[u]
<1> USE DEF threadVars, At
<1>1. CASE Register(t)
  BY <1>1 DEF Register, TypeOK
<1>2. CASE RegisterFail(t) \/ ReadHeaderFails(t) \/ CancelWait(t)
  BY <1>2 DEF RegisterFail, ReadHeaderFails, CancelWait, Return, TypeOK
<1>3. CASE WriteHeader(t) \/ Flush(t) \/ SpuriousWake(t)
  BY <1>3 DEF WriteHeader, Flush, SpuriousWake, Goto, TypeOK
<1>4. CASE WriteBody(t)
  BY <1>4 DEF WriteBody, Goto, Return, TypeOK
<1>5. CASE WaitForHeader(t)
  BY <1>5 DEF WaitForHeader, Goto, TypeOK
<1>6. CASE ReadHeader(t)
  BY <1>6 DEF ReadHeader, TypeOK
<1>7. CASE DispatchOwn(t) \/ DispatchStale(t) \/ DispatchUnknown(t)
  BY <1>7 DEF DispatchOwn, DispatchStale, DispatchUnknown, TypeOK
<1>8. CASE DispatchOther(t)
  BY <1>8 DEF DispatchOther, Signal, TypeOK
<1>9. CASE ReadBody(t) \/ ReadBodyInterrupted(t)
  BY <1>9 DEF ReadBody, ReadBodyInterrupted, TypeOK
<1>10. CASE Release(t)
  BY <1>10, ReleaseWakesOne DEF Release, TypeOK
<1>11. QED
  BY <1>1, <1>2, <1>3, <1>4, <1>5, <1>6, <1>7, <1>8, <1>9, <1>10 DEF Act, Send, Receive

(* Only the three steps of p9_vsend touch the outgoing stream.             *)
LEMMA QuietStep ==
  ASSUME TypeOK, NEW t \in Thread, Act(t), ~WriteHeader(t), ~WriteBody(t), ~Flush(t)
  PROVE  /\ UNCHANGED <<write_mutex, outbuf, outErr, wire>>
         /\ pc[t] \notin {"writing", "flush"} /\ pc'[t] \notin {"writing", "flush"}
<1> USE DEF threadVars, outVars, serverVars, At
<1>1. CASE Register(t)
  BY <1>1 DEF Register, TypeOK
<1>2. CASE RegisterFail(t) \/ ReadHeaderFails(t) \/ CancelWait(t)
  BY <1>2 DEF RegisterFail, ReadHeaderFails, CancelWait, Return, TypeOK
<1>3. CASE SpuriousWake(t)
  BY <1>3 DEF SpuriousWake, Goto, TypeOK
<1>4. CASE WaitForHeader(t)
  BY <1>4 DEF WaitForHeader, WaitOrRead, Goto, TypeOK
<1>5. CASE ReadHeader(t)
  BY <1>5 DEF ReadHeader, TypeOK
<1>6. CASE DispatchOwn(t) \/ DispatchStale(t) \/ DispatchUnknown(t)
  BY <1>6 DEF DispatchOwn, DispatchStale, DispatchUnknown, TypeOK
<1>7. CASE DispatchOther(t)
  BY <1>7 DEF DispatchOther, Signal, TypeOK
<1>8. CASE ReadBody(t) \/ ReadBodyInterrupted(t)
  BY <1>8 DEF ReadBody, ReadBodyInterrupted, TypeOK
<1>9. CASE Release(t)
  BY <1>9, ReleaseWakesOne DEF Release
<1>10. QED
  BY <1>1, <1>2, <1>3, <1>4, <1>5, <1>6, <1>7, <1>8, <1>9 DEF Act, Send, Receive

(* A step that leaves the stream, the mutex, and the writer as they were.  *)
LEMMA OutSame ==
  ASSUME TypeOK, OutInv, UNCHANGED <<write_mutex, outbuf, outErr, wire>>,
         \A u \in Thread : pc[u] \in {"writing", "flush"} \/ pc'[u] \in {"writing", "flush"}
                             => pc'[u] = pc[u] /\ tag'[u] = tag[u]
  PROVE  OutInv'
<1>1. Stream' = Stream
  BY DEF Stream
<1>2. WriterKnown'
  BY DEF OutInv, WriterKnown
<1>3. HalfWritten'
  <2>1. write_mutex # NoThread => write_mutex \in Thread /\ pc[write_mutex] = "writing"
    BY DEF TypeOK, OutInv, WriterKnown
  <2>2. QED
    BY <1>1, <2>1 DEF OutInv, HalfWritten
<1>4. OutFramed'
  BY DEF OutInv, OutFramed
<1>5. Buffered'
  <2>1. \A i \in 1 .. Len(outbuf) : outbuf[i].of \in Thread
    <3>1. \A i \in 1 .. Len(outbuf) : outbuf[i] \in Part
      BY DEF TypeOK
    <3>2. QED
      BY <3>1 DEF Part
  <2>2. QED
    BY <2>1 DEF OutInv, Buffered
<1>6. QED
  BY <1>2, <1>3, <1>4, <1>5 DEF OutInv, FailedEmpty

LEMMA BufferTyped ==
  ASSUME TypeOK
  PROVE  outbuf \in Seq(Part) /\ Len(outbuf) \in Nat /\ \A i \in 1 .. Len(outbuf) : outbuf[i].of \in Thread
<1>1. outbuf \in Seq(Part) /\ Len(outbuf) \in Nat /\ \A i \in 1 .. Len(outbuf) : outbuf[i] \in Part
  BY DEF TypeOK
<1>2. QED
  BY <1>1 DEF Part

LEMMA AppendEffect ==
  ASSUME NEW S, NEW s \in Seq(S), NEW x \in S
  PROVE  /\ Len(Append(s, x)) = Len(s) + 1
         /\ \A i \in 1 .. Len(s) : Append(s, x)[i] = s[i]
         /\ Append(s, x)[Len(s) + 1] = x
  OBVIOUS

LEMMA HeaderKeepsOut ==
  ASSUME TypeOK, OutInv, NEW t \in Thread, WriteHeader(t) PROVE OutInv'
<1> DEFINE n == Len(Stream)
<1>1. /\ pc[t] = "registered" /\ write_mutex = NoThread /\ write_mutex' = t
      /\ pc' = [pc EXCEPT ![t] = "writing"] /\ UNCHANGED tag /\ Put(t, "header")
  BY DEF WriteHeader, At, LockWrite, Goto
<1>2. \A u \in Thread : pc'[u] = IF u = t THEN "writing" ELSE pc[u]
  BY <1>1 DEF TypeOK
<1>3. WriterKnown'
  BY <1>1, <1>2 DEF OutInv, WriterKnown
<1>4. n \in Nat
  BY StreamTyped
<1>5. CASE outErr'
  <2>1. outbuf' = <<>>
    BY <1>1, <1>5, PutFails DEF OutInv
  <2>2. OutFramed' /\ HalfWritten' /\ Buffered' /\ FailedEmpty'
    BY <1>5, <2>1 DEF OutFramed, HalfWritten, Buffered, FailedEmpty
  <2>3. QED
    BY <1>3, <2>2 DEF OutInv
<1>6. CASE ~outErr'
  <2>1. /\ Len(Stream') = n + 1
        /\ \A i \in 1 .. n : Stream'[i] = Stream[i]
        /\ Stream'[n + 1] = [of |-> t, tag |-> tag[t], part |-> "header"]
        /\ ~outErr
    BY <1>1, <1>6, PutExtends
  <2>2. n % 2 = 0 /\ (n + 1) % 2 = 1
    BY <1>1, <1>4, <2>1 DEF OutInv, HalfWritten
  <2> HIDE DEF n
  <2>3. Framed(Stream')
    <3>1. Framed(Stream)
      BY <2>1, FramedStream DEF OutInv
    <3>2. SUFFICES ASSUME NEW i \in 1 .. n + 1
                   PROVE  /\ Stream'[i].part = IF i % 2 = 1 THEN "header" ELSE "body"
                          /\ i % 2 = 0 => /\ Stream'[i].of = Stream'[i - 1].of
                                          /\ Stream'[i].tag = Stream'[i - 1].tag
      BY <2>1 DEF Framed
    <3>3. CASE i = n + 1
      BY <2>1, <2>2, <3>3
    <3>4. CASE i \in 1 .. n
      <4>1. i % 2 = 0 => i - 1 \in 1 .. n
        BY <1>4, <3>4
      <4>2. QED
        BY <2>1, <3>1, <3>4, <4>1 DEF Framed, n
    <3>5. QED
      BY <1>4, <3>3, <3>4
  <2>4. OutFramed'
    <3>1. Framed(Stream') => OutFramed'
      BY DEF OutFramed, Framed, Stream
    <3>2. QED
      BY <2>3, <3>1
  <2>5. HalfWritten'
    BY <1>1, <2>1, <2>2 DEF HalfWritten
  <2>6. Buffered'
    <3> DEFINE x == [of |-> t, tag |-> tag[t], part |-> "header"]
    <3>1. x \in Part /\ x.of = t
      BY DEF TypeOK, Part
    <3>2. outbuf' = Append(outbuf, x) \/ outbuf' = <<>>
      BY <1>1, <1>6, PutExtends
    <3> HIDE DEF x
    <3>3. CASE outbuf' = Append(outbuf, x)
      <4>1. /\ Len(outbuf') = Len(outbuf) + 1
            /\ \A i \in 1 .. Len(outbuf) : outbuf'[i] = outbuf[i] /\ outbuf[i].of \in Thread
            /\ outbuf'[Len(outbuf) + 1].of = t
            /\ Len(outbuf) \in Nat
        BY <3>1, <3>3, BufferTyped, AppendEffect
      <4>2. \A i \in 1 .. Len(outbuf) : pc'[outbuf'[i].of] \in {"writing", "flush"}
        BY <1>1, <1>2, <4>1 DEF OutInv, Buffered
      <4>3. pc'[outbuf'[Len(outbuf) + 1].of] \in {"writing", "flush"}
        BY <1>1, <1>2, <4>1
      <4>4. \A i \in 1 .. Len(outbuf') : i = Len(outbuf) + 1 \/ i \in 1 .. Len(outbuf)
        BY <4>1
      <4>5. QED
        BY <4>2, <4>3, <4>4 DEF Buffered
    <3>4. CASE outbuf' = <<>>
      BY <3>4 DEF Buffered
    <3>5. QED
      BY <3>2, <3>3, <3>4
  <2>7. QED
    BY <1>1, <1>3, <1>6, <2>4, <2>5, <2>6 DEF OutInv, FailedEmpty
<1>7. QED
  BY <1>5, <1>6

LEMMA BodyKeepsOut ==
  ASSUME TypeOK, OutInv, NEW t \in Thread, WriteBody(t) PROVE OutInv'
<1> DEFINE n == Len(Stream)
<1>1. /\ pc[t] = "writing" /\ write_mutex' = NoThread
      /\ Put(t, "body")
  BY DEF WriteBody, At
<1>2. write_mutex = t
  BY <1>1 DEF OutInv, WriterKnown
<1>3. \A u \in Thread : /\ u # t => pc'[u] = pc[u]
                        /\ pc'[t] = IF outErr' THEN "idle" ELSE "flush"
  BY DEF WriteBody, Goto, Return, TypeOK
<1>4. WriterKnown'
  BY <1>1, <1>2, <1>3 DEF OutInv, WriterKnown
<1>5. n \in Nat /\ \A i \in 1 .. n : Stream[i] \in Part
  BY StreamTyped
<1>6. CASE outErr'
  <2>1. outbuf' = <<>>
    BY <1>1, <1>6, PutFails DEF OutInv
  <2>2. OutFramed' /\ HalfWritten' /\ Buffered' /\ FailedEmpty'
    BY <1>6, <2>1 DEF OutFramed, HalfWritten, Buffered, FailedEmpty
  <2>3. QED
    BY <1>4, <2>2 DEF OutInv
<1>7. CASE ~outErr'
  <2>1. /\ Len(Stream') = n + 1
        /\ \A i \in 1 .. n : Stream'[i] = Stream[i]
        /\ Stream'[n + 1] = [of |-> t, tag |-> tag[t], part |-> "body"]
        /\ ~outErr
    BY <1>1, <1>7, PutExtends
  <2>2. /\ n % 2 = 1 /\ (n + 1) % 2 = 0 /\ n \in 1 .. n
        /\ Stream[n].of = t /\ Stream[n].tag = tag[t]
    BY <1>2, <1>5, <2>1 DEF OutInv, HalfWritten
  <2> HIDE DEF n
  <2>3. Framed(Stream')
    <3>1. Framed(Stream)
      BY <2>1, FramedStream DEF OutInv
    <3>2. SUFFICES ASSUME NEW i \in 1 .. n + 1
                   PROVE  /\ Stream'[i].part = IF i % 2 = 1 THEN "header" ELSE "body"
                          /\ i % 2 = 0 => /\ Stream'[i].of = Stream'[i - 1].of
                                          /\ Stream'[i].tag = Stream'[i - 1].tag
      BY <2>1 DEF Framed
    <3>3. CASE i = n + 1
      <4>1. i - 1 = n
        BY <1>5, <3>3
      <4>2. Stream'[n] = Stream[n]
        BY <2>1, <2>2
      <4>3. i % 2 = 0 /\ Stream'[i] = [of |-> t, tag |-> tag[t], part |-> "body"]
        BY <2>1, <2>2, <3>3
      <4>4. Stream'[i - 1].of = t /\ Stream'[i - 1].tag = tag[t]
        BY <2>2, <4>1, <4>2
      <4>5. QED
        BY <4>3, <4>4
    <3>4. CASE i \in 1 .. n
      <4>1. i % 2 = 0 => i - 1 \in 1 .. n
        BY <1>5, <3>4
      <4>2. QED
        BY <2>1, <3>1, <3>4, <4>1 DEF Framed, n
    <3>5. QED
      BY <1>5, <3>3, <3>4
  <2>4. OutFramed'
    <3>1. Framed(Stream') => OutFramed'
      BY DEF OutFramed, Framed, Stream
    <3>2. QED
      BY <2>3, <3>1
  <2>5. HalfWritten'
    BY <1>1, <2>1, <2>2 DEF HalfWritten
  <2>6. Buffered'
    <3> DEFINE x == [of |-> t, tag |-> tag[t], part |-> "body"]
    <3>1. x \in Part /\ x.of = t
      BY DEF TypeOK, Part
    <3>2. outbuf' = Append(outbuf, x) \/ outbuf' = <<>>
      BY <1>1, <1>7, PutExtends
    <3> HIDE DEF x
    <3>3. CASE outbuf' = Append(outbuf, x)
      <4>1. /\ Len(outbuf') = Len(outbuf) + 1
            /\ \A i \in 1 .. Len(outbuf) : outbuf'[i] = outbuf[i] /\ outbuf[i].of \in Thread
            /\ outbuf'[Len(outbuf) + 1].of = t
            /\ Len(outbuf) \in Nat
        BY <3>1, <3>3, BufferTyped, AppendEffect
      <4>2. \A i \in 1 .. Len(outbuf) : pc'[outbuf'[i].of] \in {"writing", "flush"}
        BY <1>1, <1>3, <1>7, <4>1 DEF OutInv, Buffered
      <4>3. pc'[outbuf'[Len(outbuf) + 1].of] \in {"writing", "flush"}
        BY <1>1, <1>3, <1>7, <4>1
      <4>4. \A i \in 1 .. Len(outbuf') : i = Len(outbuf) + 1 \/ i \in 1 .. Len(outbuf)
        BY <4>1
      <4>5. QED
        BY <4>2, <4>3, <4>4 DEF Buffered
    <3>4. CASE outbuf' = <<>>
      BY <3>4 DEF Buffered
    <3>5. QED
      BY <3>2, <3>3, <3>4
  <2>7. QED
    BY <1>1, <1>4, <1>7, <2>4, <2>5, <2>6 DEF OutInv, FailedEmpty
<1>8. QED
  BY <1>6, <1>7

LEMMA FlushKeepsOut ==
  ASSUME TypeOK, OutInv, NEW t \in Thread, Flush(t) PROVE OutInv'
<1>1. /\ pc[t] = "flush" /\ UNCHANGED <<write_mutex, tag>>
      /\ pc' = [pc EXCEPT ![t] = "sent"]
  BY DEF Flush, At, Goto
<1>2. WriterKnown'
  BY <1>1 DEF OutInv, WriterKnown, TypeOK
<1>3. /\ outbuf' = <<>>
      /\ ~outErr' => Stream' = Stream /\ outErr' = outErr
  BY FlushMoves
<1>4. Buffered' /\ FailedEmpty'
  BY <1>3 DEF Buffered, FailedEmpty
<1>5. HalfWritten'
  BY <1>1, <1>3 DEF OutInv, HalfWritten
<1>6. OutFramed'
  <2>1. ~outErr' => Framed(Stream')
    BY <1>3, FramedStream DEF OutInv
  <2>2. (~outErr' => Framed(Stream')) => OutFramed'
    BY DEF OutFramed, Framed, Stream
  <2>3. QED
    BY <2>1, <2>2
<1>7. QED
  BY <1>2, <1>4, <1>5, <1>6 DEF OutInv

LEMMA AcceptKeepsOut ==
  ASSUME TypeOK, OutInv, Accept PROVE OutInv'
<1>1. UNCHANGED <<pc, tag, write_mutex, outbuf, outErr>>
  BY DEF Accept, threadVars, outVars
<1>2. WriterKnown' /\ Buffered' /\ FailedEmpty'
  BY <1>1 DEF OutInv, WriterKnown, Buffered, FailedEmpty
<1> DEFINE n == Len(Stream)
<1>3. n \in Nat /\ n >= 2 /\ Len(Stream') = n - 2 /\ \A i \in 1 .. n - 2 : Stream'[i] = Stream[i + 2]
  BY StreamTyped, AcceptTakes
<1>4. OutFramed'
  <2>0. SUFFICES ASSUME ~outErr PROVE Framed(Stream')
    BY <1>1 DEF OutFramed, Framed, Stream
  <2>1. Framed(Stream)
    BY <2>0, FramedStream DEF OutInv
  <2>2. \A i \in 1 .. n : /\ Stream[i].part = IF i % 2 = 1 THEN "header" ELSE "body"
                          /\ i % 2 = 0 => Stream[i].of = Stream[i - 1].of /\ Stream[i].tag = Stream[i - 1].tag
    BY <2>1 DEF Framed
  <2> HIDE DEF n
  <2>3. SUFFICES ASSUME NEW i \in 1 .. n - 2
                 PROVE  /\ Stream'[i].part = IF i % 2 = 1 THEN "header" ELSE "body"
                        /\ i % 2 = 0 => /\ Stream'[i].of = Stream'[i - 1].of
                                        /\ Stream'[i].tag = Stream'[i - 1].tag
    BY <1>3 DEF Framed
  <2>4. i + 2 \in 1 .. n /\ (i + 2) % 2 = i % 2
    BY <1>3
  <2>5. i % 2 = 0 => i - 1 \in 1 .. n - 2 /\ (i - 1) + 2 = (i + 2) - 1
    BY <1>3
  <2>6. QED
    BY <1>3, <2>2, <2>4, <2>5
<1>5. HalfWritten'
  <2>1. SUFFICES ASSUME ~outErr
                 PROVE  /\ write_mutex = NoThread => Len(Stream') % 2 = 0
                        /\ write_mutex # NoThread =>
                             /\ Len(Stream') % 2 = 1
                             /\ Stream'[Len(Stream')].of = write_mutex
                             /\ Stream'[Len(Stream')].tag = tag[write_mutex]
    BY <1>1 DEF HalfWritten
  <2>2. /\ write_mutex = NoThread => n % 2 = 0
        /\ write_mutex # NoThread => /\ n % 2 = 1
                                     /\ Stream[n].of = write_mutex
                                     /\ Stream[n].tag = tag[write_mutex]
    BY <2>1 DEF OutInv, HalfWritten
  <2> HIDE DEF n
  <2>3. (n - 2) % 2 = n % 2 /\ (n % 2 = 1 => n - 2 \in 1 .. n - 2 /\ (n - 2) + 2 = n)
    BY <1>3
  <2>4. QED
    BY <1>3, <2>2, <2>3
<1>6. QED
  BY <1>2, <1>4, <1>5 DEF OutInv

LEMMA NextOut == TypeOK /\ OutInv /\ [Next]_vars => OutInv'
<1> SUFFICES ASSUME TypeOK, OutInv, [Next]_vars PROVE OutInv'
  OBVIOUS
<1>1. CASE UNCHANGED vars \/ ConnDown \/ \E r \in pending, kind \in Kinds : Reply(r, kind)
  <2>1. UNCHANGED <<pc, tag, write_mutex, outbuf, outErr, wire>>
    BY <1>1 DEF ConnDown, Reply, vars, threadVars, outVars, serverVars
  <2>2. QED
    BY <2>1, OutSame
<1>2. CASE Accept
  BY <1>2, AcceptKeepsOut
<1>3. ASSUME NEW t \in Thread, Act(t) PROVE OutInv'
  <2>1. CASE WriteHeader(t) \/ WriteBody(t) \/ Flush(t)
    BY <2>1, HeaderKeepsOut, BodyKeepsOut, FlushKeepsOut
  <2>2. CASE ~WriteHeader(t) /\ ~WriteBody(t) /\ ~Flush(t)
    <3>1. /\ UNCHANGED <<write_mutex, outbuf, outErr, wire>>
          /\ pc[t] \notin {"writing", "flush"} /\ pc'[t] \notin {"writing", "flush"}
      BY <1>3, <2>2, QuietStep
    <3>2. \A u \in Thread : u # t => /\ pc'[u] = pc[u] \/ (pc[u] = "wait" /\ pc'[u] = "woken")
                                     /\ tag'[u] = tag[u]
      BY <1>3, OthersStay
    <3>3. QED
      BY <3>1, <3>2, OutSame
  <2>3. QED
    BY <2>1, <2>2
<1>4. QED
  BY <1>1, <1>2, <1>3 DEF Next, Server, Act

LEMMA InitOut == Init => OutInv
<1> SUFFICES ASSUME Init PROVE OutInv
  OBVIOUS
<1>1. Stream = <<>> /\ Len(Stream) = 0
  BY DEF Init, Stream
<1>2. OutFramed
  BY <1>1 DEF OutFramed, Stream
<1>3. QED
  BY <1>1, <1>2 DEF Init, OutInv, WriterKnown, HalfWritten, Buffered, FailedEmpty

(* Until a write fails, and however tags are reused, the server reads      *)
(* requests whole: no header is separated from its body by another         *)
(* thread's parts, although flushes happen outside write_mutex and may     *)
(* send half of another thread's request.                                  *)
THEOREM RequestsWhole == Spec => []OutFramed
<1>1. OutInv => OutFramed
  BY DEF OutInv
<1>2. QED
  BY <1>1, InitTyped, NextTyped, InitOut, NextOut, PTL DEF Spec

(* A thread that has gone on to wait for its reply has nothing left in the *)
(* stdio buffer, whatever fails.                                           *)
THEOREM NoneLeftBehind == Spec => []FlushedBeforeWaiting
<1>1. OutInv => FlushedBeforeWaiting
  BY DEF OutInv, Buffered, FlushedBeforeWaiting
<1>2. QED
  BY <1>1, InitTyped, NextTyped, InitOut, NextOut, PTL DEF Spec

(***************************************************************************)
(* Requests and replies on their way.                                      *)
(***************************************************************************)
(* A step that moves nothing and keeps every caller whose request or reply *)
(* travels where it may be.                                                *)
LEMMA TravelSame ==
  ASSUME TypeOK, Travel, Stream' = Stream, UNCHANGED <<pending, inbox, body>>,
         \A u \in Thread :
           /\ StreamOf(u) => pc'[u] \in Out /\ tag'[u] = tag[u]
           /\ ServedOf(u) \/ ComingOf(u) => pc'[u] \in Whole /\ tag'[u] = tag[u]
           /\ BodyOf(u) => pc'[u] \in Whole \cup {"body"} /\ tag'[u] = tag[u]
  PROVE  Travel'
<1>1. \A u : /\ StreamOf(u)' <=> StreamOf(u)
             /\ ServedOf(u)' <=> ServedOf(u)
             /\ ComingOf(u)' <=> ComingOf(u)
             /\ BodyOf(u)' <=> BodyOf(u)
  BY DEF StreamOf, ServedOf, ComingOf, BodyOf
<1>2. OnePlace' /\ Stage'
  BY <1>1 DEF Travel, OnePlace, Stage
<1>3. Once'
  BY DEF Travel, Once
<1>4. Tagged'
  <2>1. \A i \in 1 .. Len(Stream) : Stream[i].of \in Thread /\ StreamOf(Stream[i].of)
    BY StreamTyped DEF StreamOf, Part
  <2>2. \A r \in pending : r.of \in Thread /\ ServedOf(r.of)
    BY DEF ServedOf, TypeOK
  <2>3. \A i \in 1 .. Len(inbox) : inbox[i].of \in Thread /\ ComingOf(inbox[i].of)
    BY DEF ComingOf, Travel, Tagged, Proper
  <2>4. body # NoMsg => body.of \in Thread /\ BodyOf(body.of)
    BY DEF BodyOf, Travel, Tagged, Proper
  <2>5. \A i \in 1 .. Len(Stream) : Stream'[i].tag = tag'[Stream'[i].of]
    BY <2>1 DEF Travel, Tagged
  <2>6. \A r \in pending : r.tag = tag'[r.of]
    BY <2>2 DEF Travel, Tagged
  <2>7. \A i \in 1 .. Len(inbox) : Proper(inbox[i])'
    BY <2>3 DEF Travel, Tagged, Proper
  <2>8. body # NoMsg => Proper(body)'
    BY <2>4 DEF Travel, Tagged, Proper
  <2>9. QED
    BY <2>5, <2>6, <2>7, <2>8 DEF Tagged
<1>5. QED
  BY <1>2, <1>3, <1>4 DEF Travel

LEMMA InboxTyped ==
  ASSUME TypeOK
  PROVE  inbox \in Seq(Msg) /\ Len(inbox) \in Nat /\ \A i \in 1 .. Len(inbox) : inbox[i] \in Msg
  BY DEF TypeOK

(* A header goes on the stream.                                            *)
LEMMA HeaderTravels ==
  ASSUME TypeOK, Healthy', OutInv, Travel, NEW t \in Thread, WriteHeader(t) PROVE Travel'
<1> DEFINE n == Len(Stream)
<1>1. /\ pc[t] = "registered"
      /\ pc' = [pc EXCEPT ![t] = "writing"]
      /\ UNCHANGED <<tag, pending, inbox, body>> /\ Put(t, "header")
  BY DEF WriteHeader, At, Goto, inVars
<1>2. \A u \in Thread : pc'[u] = IF u = t THEN "writing" ELSE pc[u]
  BY <1>1 DEF TypeOK
<1>3. /\ n \in Nat /\ Len(Stream') = n + 1
      /\ \A i \in 1 .. n : Stream'[i] = Stream[i] /\ Stream[i] \in Part
      /\ Stream'[n + 1] = [of |-> t, tag |-> tag[t], part |-> "header"]
  BY <1>1, PutExtends, StreamTyped DEF Healthy
<1> HIDE DEF n
<1>4. \A i : i \in 1 .. n + 1 <=> i \in 1 .. n \/ i = n + 1
  BY <1>3
<1>5. \A u : /\ StreamOf(u)' <=> StreamOf(u) \/ u = t
             /\ ServedOf(u)' <=> ServedOf(u)
             /\ ComingOf(u)' <=> ComingOf(u)
             /\ BodyOf(u)' <=> BodyOf(u)
  BY <1>1, <1>3, <1>4 DEF StreamOf, ServedOf, ComingOf, BodyOf, n
<1>6. ~StreamOf(t) /\ ~ServedOf(t) /\ ~ComingOf(t) /\ ~BodyOf(t)
  BY <1>1 DEF Travel, Stage, Out, Whole
<1>7. OnePlace'
  BY <1>5, <1>6 DEF Travel, OnePlace
<1>8. Stage'
  BY <1>2, <1>5, <1>6 DEF Travel, Stage, Out, Registered, Waiting, EnRoute
<1>9. Tagged'
  <2>1. \A i \in 1 .. n + 1 : Stream'[i].tag = tag[Stream'[i].of]
    BY <1>3, <1>4 DEF Travel, Tagged, n
  <2>2. QED
    BY <1>1, <1>3, <2>1 DEF Travel, Tagged, Proper
<1>10. Once'
  <2>1. \A i \in 1 .. n : Stream[i].of # t
    BY <1>6 DEF StreamOf, n
  <2>2. \A i, j \in 1 .. n + 1 :
          Stream'[i].part = "header" /\ Stream'[j].part = "header" /\ Stream'[i].of = Stream'[j].of => i = j
    BY <1>3, <1>4, <2>1 DEF Travel, Once, n
  <2>3. QED
    BY <1>1, <1>3, <2>2 DEF Travel, Once
<1>11. QED
  BY <1>7, <1>8, <1>9, <1>10 DEF Travel

(* Its body follows it.                                                    *)
LEMMA BodyTravels ==
  ASSUME TypeOK, Healthy, Healthy', OutInv, Travel, NEW t \in Thread, WriteBody(t) PROVE Travel'
<1> DEFINE n == Len(Stream)
<1>1. /\ pc[t] = "writing"
      /\ pc' = [pc EXCEPT ![t] = "flush"]
      /\ UNCHANGED <<tag, pending, inbox, body>> /\ Put(t, "body")
  BY DEF WriteBody, At, Goto, inVars, Healthy
<1>2. \A u \in Thread : pc'[u] = IF u = t THEN "flush" ELSE pc[u]
  BY <1>1 DEF TypeOK
<1>3. /\ n \in Nat /\ Len(Stream') = n + 1
      /\ \A i \in 1 .. n : Stream'[i] = Stream[i] /\ Stream[i] \in Part
      /\ Stream'[n + 1] = [of |-> t, tag |-> tag[t], part |-> "body"]
  BY <1>1, PutExtends, StreamTyped DEF Healthy
<1>4. StreamOf(t)
  <2>1. write_mutex = t
    BY <1>1 DEF OutInv, WriterKnown
  <2>2. n % 2 = 1 /\ Stream[n].of = t
    BY <2>1 DEF OutInv, HalfWritten, Healthy
  <2>3. n \in 1 .. n
    BY <1>3, <2>2
  <2>4. QED
    BY <2>2, <2>3 DEF StreamOf
<1> HIDE DEF n
<1>5. \A i : i \in 1 .. n + 1 <=> i \in 1 .. n \/ i = n + 1
  BY <1>3
<1>6. \A u : /\ StreamOf(u)' <=> StreamOf(u)
             /\ ServedOf(u)' <=> ServedOf(u)
             /\ ComingOf(u)' <=> ComingOf(u)
             /\ BodyOf(u)' <=> BodyOf(u)
  BY <1>1, <1>3, <1>4, <1>5 DEF StreamOf, ServedOf, ComingOf, BodyOf, n
<1>7. OnePlace'
  BY <1>6 DEF Travel, OnePlace
<1>8. Stage'
  BY <1>1, <1>2, <1>6 DEF Travel, Stage, Out, Whole, Registered, Waiting, EnRoute
<1>9. Tagged'
  <2>1. \A i \in 1 .. n + 1 : Stream'[i].tag = tag[Stream'[i].of]
    BY <1>3, <1>5 DEF Travel, Tagged, n
  <2>2. QED
    BY <1>1, <1>3, <2>1 DEF Travel, Tagged, Proper
<1>10. Once'
  <2>1. \A i, j \in 1 .. n + 1 :
          Stream'[i].part = "header" /\ Stream'[j].part = "header" /\ Stream'[i].of = Stream'[j].of => i = j
    BY <1>3, <1>5 DEF Travel, Once, n
  <2>2. QED
    BY <1>1, <1>3, <2>1 DEF Travel, Once
<1>11. QED
  BY <1>7, <1>8, <1>9, <1>10 DEF Travel

(* The server takes a whole request, and with it all of the caller's.      *)
LEMMA AcceptTravels ==
  ASSUME TypeOK, Healthy, OutInv, Travel, Accept PROVE Travel'
<1> DEFINE n == Len(Stream)
           o == Stream[1].of
<1>1. /\ UNCHANGED <<pc, tag, outErr, write_mutex, inbox, body>>
      /\ pending' = pending \cup {[of |-> wire[1].of, tag |-> wire[1].tag]}
  BY DEF Accept, threadVars, outVars, inVars
<1>2. /\ n \in Nat /\ n >= 2 /\ Len(Stream') = n - 2
      /\ \A i \in 1 .. n - 2 : Stream'[i] = Stream[i + 2]
      /\ wire[1] = Stream[1] /\ Stream[1] \in Part
  BY AcceptTakes, StreamTyped
<1>3. \A i \in 1 .. n : /\ Stream[i].part = IF i % 2 = 1 THEN "header" ELSE "body"
                        /\ i % 2 = 0 => Stream[i].of = Stream[i - 1].of
  BY FramedStream DEF OutInv, Framed, Healthy
<1>4. o \in Thread /\ StreamOf(o) /\ Stream[1].tag = tag[o]
  BY <1>2 DEF StreamOf, Part, Travel, Tagged
<1>5. \A i, j \in 1 .. n :
        Stream[i].part = "header" /\ Stream[j].part = "header" /\ Stream[i].of = Stream[j].of => i = j
  BY DEF Travel, Once
<1>6. Stream[1].part = "header" /\ 1 \in 1 .. n
  BY <1>2, <1>3
<1>7. pc[o] # "writing"
  <2>1. SUFFICES ASSUME pc[o] = "writing" PROVE FALSE
    OBVIOUS
  <2>2. write_mutex = o
    BY <1>4, <2>1 DEF OutInv, WriterKnown
  <2>3. n % 2 = 1 /\ Stream[n].of = o
    BY <1>4, <2>2 DEF OutInv, HalfWritten, Healthy
  <2>4. n \in 1 .. n
    BY <1>2
  <2> HIDE DEF n
  <2>5. Stream[n].part = "header"
    BY <1>3, <2>3, <2>4
  <2>6. n = 1
    BY <1>5, <1>6, <2>3, <2>4, <2>5
  <2>7. QED
    BY <1>2, <2>6
<1>8. \A i \in 1 .. n - 2 : Stream[i + 2].of # o
  <2>1. SUFFICES ASSUME NEW i \in 1 .. n - 2, Stream[i + 2].of = o PROVE FALSE
    OBVIOUS
  <2> HIDE DEF n
  <2>2. i + 2 \in 1 .. n /\ i + 1 \in 1 .. n /\ (i + 2) - 1 = i + 1 /\ i + 1 # 1 /\ i + 2 # 1
    BY <1>2
  <2>3. CASE (i + 2) % 2 = 1
    BY <1>3, <1>5, <1>6, <2>1, <2>2, <2>3
  <2>4. CASE (i + 2) % 2 = 0
    <3>1. (i + 1) % 2 = 1
      BY <1>2, <2>4
    <3>2. Stream[i + 1].part = "header" /\ Stream[i + 1].of = o
      BY <1>3, <2>1, <2>2, <2>4, <3>1
    <3>3. QED
      BY <1>5, <1>6, <2>2, <3>2
  <2>5. QED
    BY <1>2, <2>3, <2>4
<1> HIDE DEF o
<1>9. pc[o] \in Whole
  BY <1>4, <1>7 DEF Travel, Stage, Whole
<1>10. \A u : /\ StreamOf(u)' => StreamOf(u) /\ u # o
              /\ ServedOf(u)' <=> ServedOf(u) \/ u = o
              /\ ComingOf(u)' <=> ComingOf(u)
              /\ BodyOf(u)' <=> BodyOf(u)
  <2>1. ASSUME NEW u, StreamOf(u)' PROVE StreamOf(u) /\ u # o
    <3>1. PICK i \in 1 .. n - 2 : Stream[i + 2].of = u
      BY <1>2, <2>1 DEF StreamOf
    <3>2. i + 2 \in 1 .. n
      BY <1>2
    <3>3. QED
      BY <1>8, <3>1, <3>2 DEF StreamOf
  <2>2. \A u : ServedOf(u)' <=> ServedOf(u) \/ u = o
    <3>1. \A r : r \in pending' <=> r \in pending \/ r = [of |-> o, tag |-> Stream[1].tag]
      BY <1>1, <1>2 DEF o
    <3> DEFINE q == [of |-> o, tag |-> Stream[1].tag]
    <3>2. q.of = o
      OBVIOUS
    <3>3. \A r : r \in pending' <=> r \in pending \/ r = q
      BY <3>1
    <3> HIDE DEF q
    <3>4. QED
      BY <3>2, <3>3 DEF ServedOf
  <2>3. QED
    BY <1>1, <2>1, <2>2 DEF ComingOf, BodyOf
<1>11. OnePlace'
  BY <1>4, <1>10 DEF Travel, OnePlace
<1>12. Stage'
  BY <1>1, <1>9, <1>10 DEF Travel, Stage
<1>13. Tagged'
  <2>1. \A i \in 1 .. n - 2 : i + 2 \in 1 .. n
    BY <1>2
  <2>2. \A i \in 1 .. n - 2 : Stream'[i].tag = tag[Stream'[i].of]
    BY <1>2, <2>1 DEF Travel, Tagged
  <2>3. \A r \in pending' : r.tag = tag[r.of]
    BY <1>1, <1>2, <1>4 DEF Travel, Tagged, o
  <2>4. QED
    BY <1>1, <1>2, <2>2, <2>3 DEF Travel, Tagged, Proper
<1>14. Once'
  <2>1. \A i, j \in 1 .. n - 2 :
          Stream'[i].part = "header" /\ Stream'[j].part = "header" /\ Stream'[i].of = Stream'[j].of => i = j
    <3>1. \A i \in 1 .. n - 2 : i + 2 \in 1 .. n
      BY <1>2
    <3>2. \A i, j \in 1 .. n - 2 : i + 2 = j + 2 => i = j
      BY <1>2
    <3> HIDE DEF n
    <3>3. QED
      BY <1>2, <1>5, <3>1, <3>2
  <2>2. QED
    BY <1>1, <1>2, <2>1 DEF Travel, Once
<1>15. QED
  BY <1>11, <1>12, <1>13, <1>14 DEF Travel

(* The server's answer takes the place of the request.                     *)
LEMMA ReplyTravels ==
  ASSUME TypeOK, Travel, NEW r \in pending, NEW kind \in Kinds, Reply(r, kind) PROVE Travel'
<1> DEFINE m == [tag |-> r.tag, of |-> r.of, kind |-> kind, cut |-> FALSE]
           n == Len(inbox)
<1>1. /\ UNCHANGED <<pc, tag, wire, outbuf, body>>
      /\ pending' = pending \ {r} /\ inbox' = Append(inbox, m)
  BY DEF Reply, threadVars, outVars
<1>2. r.of \in Thread /\ r.tag \in Tags /\ r.tag = tag[r.of] /\ ServedOf(r.of)
  BY DEF TypeOK, Travel, Tagged, ServedOf
<1>3. m \in Msg /\ m.of = r.of /\ Proper(m)
  BY <1>2, KindsAssumption DEF Msg, Proper
<1> HIDE DEF m
<1>4. /\ n \in Nat /\ Len(inbox') = n + 1 /\ inbox'[n + 1] = m
      /\ \A i \in 1 .. n : inbox'[i] = inbox[i]
  BY <1>1, <1>3, InboxTyped, AppendEffect
<1> HIDE DEF n
<1>5. \A i : i \in 1 .. n + 1 <=> i \in 1 .. n \/ i = n + 1
  BY <1>4
<1>6. Stream' = Stream
  BY <1>1 DEF Stream
<1>7. \A q \in pending : q.of = r.of => q = r
  <2>1. pending \subseteq [tag : Tags, of : Thread] /\ \A q \in pending : q.tag = tag[q.of]
    BY DEF Travel, Tagged, TypeOK
  <2>2. ASSUME NEW q \in pending, q.of = r.of PROVE q = r
    <3>1. q = [tag |-> q.tag, of |-> q.of] /\ r = [tag |-> r.tag, of |-> r.of]
      BY <2>1
    <3>2. q.tag = r.tag
      BY <2>1, <2>2
    <3>3. QED
      BY <2>2, <3>1, <3>2
  <2>3. QED
    BY <2>2
<1>8. \A u : /\ StreamOf(u)' <=> StreamOf(u)
             /\ ServedOf(u)' => ServedOf(u) /\ u # r.of
             /\ ComingOf(u)' <=> ComingOf(u) \/ u = r.of
             /\ BodyOf(u)' <=> BodyOf(u)
  <2>1. \A u : ServedOf(u)' => ServedOf(u) /\ u # r.of
    BY <1>1, <1>7 DEF ServedOf
  <2>2. \A u : ComingOf(u)' <=> ComingOf(u) \/ u = r.of
    BY <1>3, <1>4, <1>5 DEF ComingOf, n
  <2>3. QED
    BY <1>1, <1>6, <2>1, <2>2 DEF StreamOf, BodyOf
<1>9. OnePlace'
  BY <1>2, <1>8 DEF Travel, OnePlace
<1>10. Stage'
  BY <1>1, <1>2, <1>8 DEF Travel, Stage
<1>11. Tagged'
  <2>1. \A i \in 1 .. n + 1 : Proper(inbox'[i])
    BY <1>3, <1>4, <1>5 DEF Travel, Tagged, n
  <2>2. QED
    BY <1>1, <1>4, <1>6, <2>1 DEF Travel, Tagged, Proper
<1>12. Once'
  <2>1. \A i \in 1 .. n : inbox[i].of # r.of
    BY <1>2 DEF Travel, OnePlace, ComingOf, n
  <2>2. \A i, j \in 1 .. n + 1 : inbox'[i].of = inbox'[j].of => i = j
    BY <1>3, <1>4, <1>5, <2>1 DEF Travel, Once, n
  <2>3. QED
    BY <1>4, <1>6, <2>2 DEF Travel, Once
<1>13. QED
  BY <1>9, <1>10, <1>11, <1>12 DEF Travel

LEMMA TailEffect ==
  ASSUME NEW S, NEW s \in Seq(S), s # <<>>
  PROVE  /\ Len(s) \in Nat /\ Len(s) >= 1 /\ Len(Tail(s)) = Len(s) - 1
         /\ Head(s) = s[1]
         /\ \A i \in 1 .. Len(s) - 1 : Tail(s)[i] = s[i + 1]
  OBVIOUS

(* A thread reads the next header: the reply's body is next.               *)
LEMMA ReadTravels ==
  ASSUME TypeOK, Travel, NEW t \in Thread, ReadHeader(t), body = NoMsg
  PROVE  /\ Travel'
         /\ inbox # <<>> /\ body' = inbox[1] /\ body' \in Msg
         /\ hdr' = [hdr EXCEPT ![t] = body'] /\ inbox' = Tail(inbox)
<1> DEFINE n == Len(inbox)
<1>1. /\ pc[t] = "read" /\ pc' = [pc EXCEPT ![t] = "dispatch"]
      /\ UNCHANGED <<tag, wire, outbuf, pending>>
  BY DEF ReadHeader, At, outVars, serverVars
<1>2. /\ inbox # <<>> /\ inbox' = Tail(inbox) /\ body' = Head(inbox)
      /\ hdr' = [hdr EXCEPT ![t] = body']
  BY DEF ReadHeader, NextHeader
<1>3. /\ n \in Nat /\ n >= 1 /\ Len(inbox') = n - 1 /\ body' = inbox[1]
      /\ \A i \in 1 .. n - 1 : inbox'[i] = inbox[i + 1]
  BY <1>2, InboxTyped, TailEffect
<1>4. body' \in Msg /\ body' # NoMsg /\ Proper(body')
  BY <1>3, InboxTyped DEF Travel, Tagged
<1> HIDE DEF n
<1>5. 1 \in 1 .. n /\ \A i \in 1 .. n - 1 : i + 1 \in 1 .. n /\ i + 1 # 1
  BY <1>3
<1>6. Stream' = Stream
  BY <1>1 DEF Stream
<1> DEFINE o == body'.of
<1>7. ComingOf(o)
  BY <1>3, <1>5 DEF ComingOf, n
<1>8. \A i \in 1 .. n - 1 : inbox[i + 1].of # o
  BY <1>3, <1>5 DEF Travel, Once, n
<1>9. \A u : /\ StreamOf(u)' <=> StreamOf(u)
             /\ ServedOf(u)' <=> ServedOf(u)
             /\ ComingOf(u)' => ComingOf(u) /\ u # o
             /\ BodyOf(u)' <=> u = o
  <2>1. ASSUME NEW u, ComingOf(u)' PROVE ComingOf(u) /\ u # o
    <3>1. PICK i \in 1 .. n - 1 : inbox[i + 1].of = u
      BY <1>3, <2>1 DEF ComingOf
    <3>2. QED
      BY <1>5, <1>8, <3>1 DEF ComingOf, n
  <2>2. QED
    BY <1>1, <1>4, <1>6, <2>1 DEF StreamOf, ServedOf, BodyOf
<1>10. o \in Thread
  BY <1>4 DEF Proper
<1> HIDE DEF o
<1>11. OnePlace'
  BY <1>7, <1>9, <1>10 DEF Travel, OnePlace
<1>12. Stage'
  <2>1. \A u \in Thread : /\ pc[u] \in Out => pc'[u] \in Out
                          /\ pc[u] \in Whole => pc'[u] \in Whole
    BY <1>1 DEF TypeOK, Out, Whole, Registered
  <2>2. QED
    BY <1>7, <1>9, <1>10, <2>1 DEF Travel, Stage
<1>13. Tagged'
  <2>1. \A i \in 1 .. n - 1 : Proper(inbox'[i])
    BY <1>3, <1>5 DEF Travel, Tagged, n
  <2>2. QED
    BY <1>1, <1>3, <1>4, <1>6, <2>1 DEF Travel, Tagged, Proper
<1>14. Once'
  <2>1. \A i, j \in 1 .. n - 1 : i + 1 = j + 1 => i = j
    BY <1>3
  <2>2. \A i, j \in 1 .. n - 1 : inbox'[i].of = inbox'[j].of => i = j
    BY <1>3, <1>5, <2>1 DEF Travel, Once, n
  <2>3. QED
    BY <1>3, <1>6, <2>2 DEF Travel, Once
<1>15. QED
  BY <1>2, <1>3, <1>4, <1>11, <1>12, <1>13, <1>14 DEF Travel

(* The body is read: the caller has nothing left on the way.               *)
LEMMA BodyDone ==
  ASSUME TypeOK, Travel, Stream' = Stream, UNCHANGED <<tag, pending, inbox>>, body' = NoMsg,
         \A u \in Thread : pc'[u] = pc[u] \/ (BodyOf(u) /\ pc[u] = "body")
  PROVE  Travel'
<1>1. \A u : /\ StreamOf(u)' <=> StreamOf(u)
             /\ ServedOf(u)' <=> ServedOf(u)
             /\ ComingOf(u)' <=> ComingOf(u)
             /\ ~BodyOf(u)'
  BY DEF StreamOf, ServedOf, ComingOf, BodyOf
<1>2. OnePlace' /\ Stage'
  BY <1>1 DEF Travel, OnePlace, Stage
<1>3. Once' /\ Tagged'
  BY DEF Travel, Once, Tagged, Proper
<1>4. QED
  BY <1>2, <1>3 DEF Travel

(***************************************************************************)
(* Everyone gets the reply to its own request.                             *)
(***************************************************************************)
AllInv == TypeOK /\ StreamMutex /\ UndisturbedInv /\ OutInv /\ FlightInv

(* A header that has been read belongs to a call that awaits it, and the   *)
(* table leads to that call.                                               *)
LEMMA Addressee ==
  ASSUME AllInv, NEW t \in Thread, pc[t] = "dispatch"
  PROVE  /\ hdr[t] = body /\ body \in Msg /\ body # NoMsg /\ Proper(body)
         /\ body.of \in Thread /\ pc[body.of] \in Whole /\ got[body.of] = NoMsg
         /\ hdr[t].tag \in Tags /\ interest_table[hdr[t].tag] = body.of
         /\ Ours(t) <=> body.of = t
<1> DEFINE o == body.of
<1>1. hdr[t] = body /\ body \in Msg /\ body # NoMsg
  BY DEF AllInv, TypeOK, FlightInv, Hands
<1>2. Proper(body) /\ o \in Thread /\ body.tag = tag[o]
  BY <1>1 DEF AllInv, FlightInv, Travel, Tagged, Proper
<1>3. pc[o] \in Whole \cup {"body"}
  BY <1>1, <1>2 DEF AllInv, FlightInv, Travel, Stage, BodyOf
<1>4. pc[o] # "body"
  BY <1>2 DEF AllInv, StreamMutex, HoldsToken
<1>5. got[o] = NoMsg
  BY <1>2 DEF AllInv, StreamMutex, HoldsToken
<1>6. body.tag \in Tags
  BY <1>1 DEF Msg
<1>7. pc[o] \in Registered
  BY <1>3, <1>4 DEF Whole, Out
<1>8. interest_table[body.tag] = o
  BY <1>2, <1>6, <1>7 DEF AllInv, UndisturbedInv, TableExact
<1>9. Ours(t) <=> o = t
  <2>1. pc[t] # "idle" /\ pc[o] # "idle"
    BY <1>7 DEF Registered, Waiting, EnRoute
  <2>2. QED
    BY <1>1, <1>2, <2>1 DEF Ours, AllInv, FlightInv, TagsApart
<1>10. QED
  BY <1>1, <1>2, <1>3, <1>4, <1>5, <1>6, <1>8, <1>9

(* While nothing fails no assertion does: every message read is waited     *)
(* for, and whoever finds its header finds the token set.                  *)
LEMMA StepNoCrash ==
  ASSUME Undisturbed, AllInv, NoCrash, [Next]_vars PROVE NoCrash'
<1>1. CASE UNCHANGED vars \/ Server \/ ConnDown
  BY <1>1 DEF NoCrash, vars, Server, Accept, Reply, ConnDown
<1>2. ASSUME NEW t \in Thread, Act(t) PROVE NoCrash'
  <2>1. CASE WaitForHeader(t)
    <3>1. got[t] # NoMsg => some_thread_is_reading
      BY DEF AllInv, StreamMutex, HoldsToken
    <3>2. QED
      BY <2>1, <3>1 DEF WaitForHeader, NoCrash
  <2>2. CASE DispatchUnknown(t)
    <3>1. pc[t] = "dispatch" /\ interest_table[hdr[t].tag] = NoThread
      BY <2>2 DEF DispatchUnknown, At
    <3>2. QED
      BY <3>1, Addressee
  <2>3. CASE \/ Register(t) \/ RegisterFail(t) \/ WriteHeader(t) \/ WriteBody(t)
             \/ Flush(t) \/ ReadHeader(t) \/ DispatchOwn(t)
             \/ DispatchOther(t) \/ ReadBody(t) \/ Release(t) \/ SpuriousWake(t)
    BY <2>3 DEF NoCrash, Register, RegisterFail, WriteHeader, WriteBody, Flush, ReadHeader,
       DispatchOwn, DispatchOther, ReadBody, Release, SpuriousWake
  <2>4. QED
    BY <1>2, <2>1, <2>2, <2>3, UndisturbedSteps DEF AllInv
<1>3. QED
  BY <1>1, <1>2 DEF Next, Act

LEMMA StepTags ==
  ASSUME Undisturbed, AllInv, [Next]_vars PROVE TagsApart'
<1>0. TypeOK /\ TagsApart
  BY DEF AllInv, FlightInv
<1>1. CASE UNCHANGED vars \/ Server \/ ConnDown
  BY <1>0, <1>1 DEF TagsApart, vars, threadVars, Server, Accept, Reply, ConnDown
<1>2. ASSUME NEW t \in Thread, Act(t) PROVE TagsApart'
  <2>1. \A u \in Thread : u # t => /\ tag'[u] = tag[u]
                                   /\ pc'[u] # "idle" => pc[u] # "idle"
    BY <1>0, <1>2, OthersStay
  <2>2. CASE Register(t)
    <3>1. /\ \A u \in Thread : pc[u] # "idle" => tag[u] # next_tag
          /\ tag'[t] = next_tag
      BY <1>0, <2>2 DEF Register, Undisturbed, InFlight, TypeOK
    <3>2. QED
      BY <1>0, <2>1, <3>1 DEF TagsApart
  <2>3. CASE ~Register(t)
    <3>1. pc'[t] = "idle" \/ (pc[t] # "idle" /\ tag'[t] = tag[t])
      <4> USE DEF threadVars, At
      <4>1. CASE RegisterFail(t)
        BY <1>0, <4>1 DEF RegisterFail, Return, TypeOK
      <4>2. CASE WriteHeader(t) \/ (WriteBody(t) /\ Goto(t, "flush")) \/ Flush(t) \/ SpuriousWake(t)
        BY <1>0, <4>2 DEF WriteHeader, WriteBody, Flush, SpuriousWake, Goto, TypeOK
      <4>3. CASE WaitForHeader(t)
        BY <1>0, <4>3 DEF WaitForHeader, Goto, TypeOK
      <4>4. CASE ReadHeader(t) \/ DispatchOwn(t) \/ DispatchOther(t) \/ DispatchUnknown(t) \/ ReadBody(t)
        BY <1>0, <4>4 DEF ReadHeader, DispatchOwn, DispatchOther, DispatchUnknown, ReadBody
      <4>5. CASE Release(t)
        BY <1>0, <4>5, ReleaseWakesOne
      <4>6. QED
        BY <1>2, <2>3, <4>1, <4>2, <4>3, <4>4, <4>5, UndisturbedSteps DEF AllInv
    <3>2. QED
      BY <1>0, <2>1, <3>1 DEF TagsApart
  <2>4. QED
    BY <2>2, <2>3
<1>3. QED
  BY <1>1, <1>2 DEF Next, Act

LEMMA StepResults ==
  ASSUME Undisturbed, AllInv, [Next]_vars PROVE Results'
<1>0. TypeOK /\ Results
  BY DEF AllInv, FlightInv
<1> USE DEF Registered, Waiting, EnRoute
<1>1. CASE UNCHANGED vars \/ Server \/ ConnDown
  BY <1>0, <1>1 DEF Results, vars, threadVars, Server, Accept, Reply, ConnDown
<1>2. ASSUME NEW t \in Thread, Act(t) PROVE Results'
  <2>1. \A u \in Thread : u # t =>
          /\ result'[u] = result[u]
          /\ pc'[u] = pc[u] \/ (pc[u] = "wait" /\ pc'[u] = "woken")
    BY <1>0, <1>2, OthersStay
  <2>2. /\ pc'[t] \in Registered \cup {"body"} => result'[t] = "none"
        /\ pc'[t] = "release" => result'[t] # "none"
    <3> USE DEF threadVars, At
    <3>1. CASE Register(t)
      BY <1>0, <3>1 DEF Register, TypeOK
    <3>2. CASE RegisterFail(t)
      BY <1>0, <3>2 DEF RegisterFail, Return, TypeOK
    <3>3. CASE WriteHeader(t) \/ (WriteBody(t) /\ Goto(t, "flush")) \/ Flush(t) \/ SpuriousWake(t)
      BY <1>0, <3>3 DEF WriteHeader, WriteBody, Flush, SpuriousWake, Goto, TypeOK, Results
    <3>4. CASE WaitForHeader(t)
      BY <1>0, <3>4 DEF WaitForHeader, WaitOrRead, Goto, TypeOK, Results
    <3>5. CASE ReadHeader(t) \/ DispatchOwn(t) \/ DispatchUnknown(t)
      BY <1>0, <3>5 DEF ReadHeader, DispatchOwn, DispatchUnknown, TypeOK, Results
    <3>6. CASE DispatchOther(t)
      BY <1>0, <3>6 DEF DispatchOther, Signal, TypeOK, Results
    <3>7. CASE ReadBody(t)
      <4>1. got[t] \in Msg /\ got[t].kind \in {"match", "error", "other"}
        BY <1>0, <3>7 DEF ReadBody, TypeOK, Msg, AllKinds
      <4>2. result'[t] # "none" /\ pc'[t] = "release"
        BY <1>0, <3>7, <4>1 DEF ReadBody, TypeOK
      <4>3. QED
        BY <4>2
    <3>8. CASE Release(t)
      BY <1>0, <3>8, ReleaseWakesOne
    <3>9. QED
      BY <1>2, <3>1, <3>2, <3>3, <3>4, <3>5, <3>6, <3>7, <3>8, UndisturbedSteps DEF AllInv
  <2>3. QED
    BY <1>0, <2>1, <2>2 DEF Results
<1>3. QED
  BY <1>1, <1>2 DEF Next, Act

(* In a step of t that moves nothing, it is enough to know where t goes.   *)
LEMMA MovesOnly ==
  ASSUME AllInv, NEW t \in Thread, Act(t),
         Stream' = Stream, UNCHANGED <<pending, inbox, body>>,
         tag'[t] = tag[t] \/ pc[t] \in {"idle", "release"},
         pc[t] \in Whole => pc'[t] \in Whole \/ (pc'[t] = "body" /\ BodyOf(t)),
         pc[t] \notin {"writing", "body"}
  PROVE  Travel'
<1>0. TypeOK /\ Travel
  BY DEF AllInv, FlightInv
<1>1. ASSUME NEW u \in Thread, u # t
      PROVE  /\ tag'[u] = tag[u]
             /\ pc[u] \in Out => pc'[u] \in Out
             /\ pc[u] \in Whole => pc'[u] \in Whole
             /\ pc[u] = "body" => pc'[u] = "body"
  BY <1>0, <1>1, OthersStay DEF Out, Whole, Registered, Waiting, EnRoute
<1>2. /\ StreamOf(t) => pc'[t] \in Out /\ tag'[t] = tag[t]
      /\ ServedOf(t) \/ ComingOf(t) => pc'[t] \in Whole /\ tag'[t] = tag[t]
      /\ BodyOf(t) => pc'[t] \in Whole \cup {"body"} /\ tag'[t] = tag[t]
  BY <1>0 DEF Travel, Stage, OnePlace, Out, Whole, Registered, Waiting, EnRoute
<1>3. \A u \in Thread :
        /\ StreamOf(u) => pc'[u] \in Out /\ tag'[u] = tag[u]
        /\ ServedOf(u) \/ ComingOf(u) => pc'[u] \in Whole /\ tag'[u] = tag[u]
        /\ BodyOf(u) => pc'[u] \in Whole \cup {"body"} /\ tag'[u] = tag[u]
  BY <1>0, <1>1, <1>2 DEF Travel, Stage
<1>4. QED
  BY <1>0, <1>3, TravelSame

LEMMA ThreadStepTravel ==
  ASSUME Undisturbed, AllInv, NEW t \in Thread, Act(t) PROVE Travel'
<1>0. TypeOK /\ Healthy /\ OutInv /\ Travel /\ Hands /\ StreamMutex
  BY DEF AllInv, UndisturbedInv, FlightInv
<1>00. Healthy'
  BY StepHealthy DEF AllInv, Next, Act
<1> USE DEF threadVars, outVars, inVars, serverVars, At
<1>1. CASE Register(t)
  <2>1. /\ pc[t] = "idle" /\ UNCHANGED <<wire, outbuf, pending, inbox, body>>
    BY <1>1 DEF Register
  <2>2. QED
    BY <1>1, <2>1, MovesOnly DEF Stream, Act, Whole, Out, Registered, Waiting, EnRoute
<1>2. CASE RegisterFail(t)
  <2>1. /\ pc[t] = "idle" /\ UNCHANGED <<wire, outbuf, pending, inbox, body>>
    BY <1>2 DEF RegisterFail
  <2>2. QED
    BY <1>2, <2>1, MovesOnly DEF Stream, Act, Whole, Out, Registered, Waiting, EnRoute
<1>3. CASE WriteHeader(t)
  BY <1>0, <1>00, <1>3, HeaderTravels
<1>4. CASE WriteBody(t)
  BY <1>0, <1>00, <1>4, BodyTravels
<1>5. CASE Flush(t)
  <2>1. /\ pc[t] = "flush" /\ pc'[t] = "sent" /\ UNCHANGED <<tag, pending, inbox, body>>
    BY <1>0, <1>5 DEF Flush, Goto, TypeOK
  <2>2. Stream' = Stream
    BY <1>0, <1>00, <1>5, FlushMoves DEF Healthy
  <2>3. pc'[t] \in Whole
    BY <2>1 DEF Whole, Out, Registered, Waiting, EnRoute
  <2>4. QED
    BY <1>5, <2>1, <2>2, <2>3, MovesOnly DEF Act, Send
<1>6. CASE WaitForHeader(t)
  <2>1. /\ pc[t] \in {"sent", "woken"} /\ UNCHANGED <<tag, wire, outbuf, pending, inbox, body>>
    BY <1>6 DEF WaitForHeader, Goto
  <2>2. pc'[t] \in {"wait", "read"} \/ (pc'[t] = "body" /\ got[t] # NoMsg)
    BY <1>0, <1>6 DEF WaitForHeader, WaitOrRead, Goto, TypeOK
  <2>3. got[t] # NoMsg => BodyOf(t)
    BY <1>0, <2>1 DEF Hands, BodyOf
  <2>4. {"wait", "read"} \subseteq Whole
    BY DEF Whole, Out, Registered, Waiting, EnRoute
  <2>5. QED
    BY <1>6, <2>1, <2>2, <2>3, <2>4, MovesOnly DEF Stream, Act, Receive
<1>7. CASE ReadHeader(t)
  <2>1. body = NoMsg
    BY <1>0, <1>7 DEF ReadHeader, Hands
  <2>2. QED
    BY <1>0, <1>7, <2>1, ReadTravels
<1>8. CASE DispatchOwn(t)
  <2>1. /\ pc[t] = "dispatch" /\ pc'[t] = "body" /\ Ours(t)
        /\ UNCHANGED <<tag, wire, outbuf, pending, inbox, body>>
    BY <1>0, <1>8 DEF DispatchOwn, TypeOK
  <2>2. BodyOf(t)
    BY <2>1, Addressee DEF BodyOf
  <2>3. QED
    BY <1>8, <2>1, <2>2, MovesOnly DEF Stream, Act, Receive
<1>9. CASE DispatchOther(t)
  <2>1. /\ pc[t] = "dispatch" /\ UNCHANGED <<tag, wire, outbuf, pending, inbox, body>>
    BY <1>9 DEF DispatchOther
  <2>2. pc'[t] \in {"wait", "woken"}
    BY <1>0, <1>9 DEF DispatchOther, Signal, TypeOK
  <2>3. {"wait", "woken"} \subseteq Whole
    BY DEF Whole, Out, Registered, Waiting, EnRoute
  <2>4. QED
    BY <1>9, <2>1, <2>2, <2>3, MovesOnly DEF Stream, Act, Receive
<1>10. CASE DispatchUnknown(t)
  <2>1. pc[t] = "dispatch" /\ interest_table[hdr[t].tag] = NoThread
    BY <1>10 DEF DispatchUnknown
  <2>2. QED
    BY <2>1, Addressee
<1>11. CASE ReadBody(t)
  <2>1. /\ pc[t] = "body" /\ pc' = [pc EXCEPT ![t] = "release"]
        /\ UNCHANGED <<tag, wire, outbuf, pending, inbox>>
        /\ body' = IF got[t].of = NoThread \/ (inErr /\ got[t].kind = "other") THEN body ELSE NoMsg
    BY <1>11 DEF ReadBody
  <2>2. got[t] \in Msg /\ got[t] # NoMsg /\ got[t].of = t /\ got[t] = body
    BY <1>0, <2>1 DEF TypeOK, Hands
  <2>3. body' = NoMsg /\ BodyOf(t)
    BY <1>0, <2>1, <2>2 DEF Healthy, BodyOf
  <2>4. \A u \in Thread : pc'[u] = pc[u] \/ (BodyOf(u) /\ pc[u] = "body")
    BY <1>0, <2>1, <2>3 DEF TypeOK
  <2>5. Stream' = Stream
    BY <2>1 DEF Stream
  <2>6. QED
    BY <1>0, <2>1, <2>3, <2>4, <2>5, BodyDone
<1>12. CASE Release(t)
  <2>1. /\ pc[t] = "release" /\ UNCHANGED <<wire, outbuf, pending, inbox, body>>
    BY <1>12 DEF Release
  <2>2. QED
    BY <1>12, <2>1, MovesOnly DEF Stream, Act, Receive, Whole, Out, Registered, Waiting, EnRoute
<1>13. CASE SpuriousWake(t)
  <2>1. /\ pc[t] = "wait" /\ pc'[t] = "woken"
        /\ UNCHANGED <<tag, wire, outbuf, pending, inbox, body>>
    BY <1>0, <1>13 DEF SpuriousWake, Goto, TypeOK
  <2>2. pc'[t] \in Whole
    BY <2>1 DEF Whole, Out, Registered, Waiting, EnRoute
  <2>3. QED
    BY <1>13, <2>1, <2>2, MovesOnly DEF Stream, Act
<1>14. QED
  BY <1>1, <1>2, <1>3, <1>4, <1>5, <1>6, <1>7, <1>8, <1>9, <1>10, <1>11,
     <1>12, <1>13, UndisturbedSteps DEF AllInv

LEMMA StepTravel ==
  ASSUME Undisturbed, AllInv, [Next]_vars PROVE Travel'
<1>0. TypeOK /\ Healthy /\ OutInv /\ Travel
  BY DEF AllInv, UndisturbedInv, FlightInv
<1>1. CASE UNCHANGED vars
  <2>1. UNCHANGED <<pc, tag, wire, outbuf, pending, inbox, body>>
    BY <1>1 DEF vars, threadVars, outVars, inVars, serverVars
  <2>2. Stream' = Stream
    BY <2>1 DEF Stream
  <2>3. QED
    BY <1>0, <2>1, <2>2, TravelSame DEF Travel, Stage
<1>2. CASE Accept
  BY <1>0, <1>2, AcceptTravels
<1>3. ASSUME NEW r \in pending, NEW kind \in Kinds, Reply(r, kind) PROVE Travel'
  BY <1>0, <1>3, ReplyTravels
<1>4. CASE ConnDown
  BY <1>4 DEF ConnDown, Undisturbed
<1>5. ASSUME NEW t \in Thread, Act(t) PROVE Travel'
  BY <1>5, ThreadStepTravel
<1>6. QED
  BY <1>1, <1>2, <1>3, <1>4, <1>5 DEF Next, Server, Act

(* A step that hands nothing over, after which everyone who reads,         *)
(* dispatches or releases did so before.                                   *)
LEMMA HandsSame ==
  ASSUME TypeOK, Hands, UNCHANGED <<got, body>>,
         \A u \in Thread :
           /\ pc[u] = "dispatch" \/ pc'[u] = "dispatch" => pc'[u] = pc[u] /\ hdr'[u] = hdr[u]
           /\ pc[u] = "release" \/ pc'[u] \in {"body", "read", "release"} => pc'[u] = pc[u]
  PROVE  Hands'
<1>1. body # NoMsg => got[body.of] = body \/ \E u \in Thread : pc'[u] = "dispatch" /\ hdr'[u] = body
  BY DEF Hands
<1>2. ASSUME NEW u \in Thread
      PROVE  /\ got[u] # NoMsg => got[u].of = u /\ (pc'[u] = "release" \/ got[u] = body)
             /\ pc'[u] = "dispatch" => hdr'[u] = body
             /\ pc'[u] = "body" => got[u] = body
             /\ pc'[u] \in {"read", "release"} => body = NoMsg
  BY DEF Hands
<1>3. QED
  BY <1>1, <1>2 DEF Hands

LEMMA ThreadStepHands ==
  ASSUME Undisturbed, AllInv, NEW t \in Thread, Act(t) PROVE Hands'
<1>0. TypeOK /\ Healthy /\ StartsClean /\ Travel /\ Hands /\ StreamMutex
  BY DEF AllInv, UndisturbedInv, FlightInv
<1> USE DEF threadVars, tableVars, inVars, At
<1>1. CASE Register(t)
  BY <1>0, <1>1, HandsSame DEF Register, TypeOK
<1>2. CASE RegisterFail(t)
  <2>1. pc[t] = "idle" /\ got[t] = NoMsg
    BY <1>0, <1>2 DEF RegisterFail, StartsClean
  <2>2. UNCHANGED <<got, body>>
    BY <1>0, <1>2, <2>1 DEF RegisterFail, Return, TypeOK
  <2>3. QED
    BY <1>0, <1>2, <2>1, <2>2, HandsSame DEF RegisterFail, Return, TypeOK
<1>3. CASE WriteHeader(t) \/ (WriteBody(t) /\ Goto(t, "flush")) \/ Flush(t) \/ SpuriousWake(t)
  <2>1. /\ pc[t] \in {"registered", "writing", "flush", "wait"}
        /\ pc'[t] \in {"writing", "flush", "sent", "woken"}
        /\ \A u \in Thread : u # t => pc'[u] = pc[u]
        /\ UNCHANGED <<hdr, got, body>>
    BY <1>0, <1>3 DEF WriteHeader, WriteBody, Flush, SpuriousWake, Goto, TypeOK
  <2>2. QED
    BY <1>0, <2>1, HandsSame
<1>4. CASE WaitForHeader(t)
  <2>1. /\ UNCHANGED <<hdr, got, body>> /\ pc[t] \in {"sent", "woken"}
        /\ \A u \in Thread : u # t => pc'[u] = pc[u]
    BY <1>0, <1>4 DEF WaitForHeader, Goto, TypeOK
  <2>2. CASE got[t] # NoMsg
    <3>1. pc'[t] = "body" /\ got[t] = body /\ got[t].of = t
      BY <1>0, <1>4, <2>1, <2>2 DEF WaitForHeader, Goto, TypeOK, Hands
    <3>2. QED
      BY <1>0, <2>1, <3>1 DEF Hands
  <2>3. CASE got[t] = NoMsg /\ some_thread_is_reading
    <3>1. pc'[t] = "wait"
      BY <1>0, <1>4, <2>3 DEF WaitForHeader, WaitOrRead, Goto, TypeOK
    <3>2. QED
      BY <1>0, <2>1, <3>1, HandsSame
  <2>4. CASE got[t] = NoMsg /\ ~some_thread_is_reading
    <3>1. pc'[t] = "read"
      BY <1>0, <1>4, <2>4 DEF WaitForHeader, WaitOrRead, Goto, TypeOK
    <3>2. \A u \in Thread : ~HoldsToken(u)
      BY <1>0, <2>4 DEF StreamMutex
    <3>3. body = NoMsg
      BY <1>0, <3>2 DEF HoldsToken, Hands, Travel, Tagged, Proper
    <3>4. QED
      BY <1>0, <2>1, <3>1, <3>3 DEF Hands
  <2>5. QED
    BY <1>0, <2>2, <2>3, <2>4 DEF TypeOK
<1>5. CASE ReadHeader(t)
  <2>1. pc[t] = "read" /\ body = NoMsg /\ pc' = [pc EXCEPT ![t] = "dispatch"] /\ UNCHANGED got
    BY <1>0, <1>5 DEF ReadHeader, Hands
  <2>2. body' \in Msg /\ hdr' = [hdr EXCEPT ![t] = body']
    BY <1>0, <1>5, <2>1, ReadTravels
  <2>3. \A u \in Thread : HoldsToken(u) => u = t
    BY <1>0, <2>1 DEF StreamMutex, HoldsToken
  <2>4. \A u \in Thread : got[u] = NoMsg
    BY <1>0, <2>1, <2>3 DEF HoldsToken, StreamMutex
  <2>5. \A u \in Thread : u # t => pc[u] \notin {"read", "dispatch", "body", "release"}
    BY <2>3 DEF HoldsToken
  <2>6. pc'[t] = "dispatch" /\ hdr'[t] = body' /\ \A u \in Thread : u # t => pc'[u] = pc[u]
    BY <1>0, <2>1, <2>2 DEF TypeOK
  <2>7. QED
    BY <2>1, <2>4, <2>5, <2>6 DEF Hands
<1>6. CASE DispatchOwn(t)
  <2>1. /\ pc[t] = "dispatch" /\ Ours(t) /\ UNCHANGED body
        /\ pc' = [pc EXCEPT ![t] = "body"] /\ got' = [got EXCEPT ![t] = hdr[t]]
    BY <1>6 DEF DispatchOwn
  <2>2. hdr[t] = body /\ body.of = t /\ body # NoMsg
    BY <2>1, Addressee
  <2>3. \A u \in Thread : u # t => ~HoldsToken(u)
    BY <1>0, <2>1 DEF StreamMutex, HoldsToken
  <2>4. \A u \in Thread : u # t => got'[u] = NoMsg /\ pc'[u] \notin {"read", "dispatch", "body", "release"}
    BY <1>0, <2>1, <2>3 DEF HoldsToken, TypeOK
  <2>5. got'[t] = body /\ pc'[t] = "body"
    BY <1>0, <2>1, <2>2 DEF TypeOK
  <2>6. QED
    BY <2>1, <2>2, <2>4, <2>5 DEF Hands
<1>7. CASE DispatchOther(t)
  <2> DEFINE o == body.of
  <2>1. /\ pc[t] = "dispatch" /\ ~Ours(t) /\ UNCHANGED body
        /\ got' = [got EXCEPT ![interest_table[hdr[t].tag]] = hdr[t]]
    BY <1>7 DEF DispatchOther
  <2>2. /\ hdr[t] = body /\ body # NoMsg /\ o \in Thread /\ o # t /\ pc[o] \in Whole
        /\ interest_table[hdr[t].tag] = o
    BY <2>1, Addressee
  <2>3. \A u \in Thread : u # t => ~HoldsToken(u)
    BY <1>0, <2>1 DEF StreamMutex, HoldsToken
  <2>4. got[t] = NoMsg
    BY <1>0, <2>1 DEF StreamMutex
  <2>5. \A u \in Thread : pc'[u] \notin {"read", "dispatch", "body", "release"}
    <3>1. pc'[t] \in {"wait", "woken"}
      BY <1>0, <1>7 DEF DispatchOther, Signal, TypeOK
    <3>2. QED
      BY <1>0, <1>7, <2>3, <3>1, OthersStay DEF Act, Receive, HoldsToken
  <2>6. \A u \in Thread : got'[u] = IF u = o THEN body ELSE NoMsg
    BY <1>0, <2>1, <2>2, <2>3, <2>4 DEF TypeOK, HoldsToken
  <2>7. QED
    BY <2>1, <2>2, <2>5, <2>6 DEF Hands
<1>8. CASE DispatchUnknown(t)
  <2>1. pc[t] = "dispatch" /\ interest_table[hdr[t].tag] = NoThread
    BY <1>8 DEF DispatchUnknown
  <2>2. QED
    BY <2>1, Addressee
<1>9. CASE ReadBody(t)
  <2>1. /\ pc[t] = "body" /\ pc' = [pc EXCEPT ![t] = "release"] /\ UNCHANGED got
        /\ body' = IF got[t].of = NoThread \/ (inErr /\ got[t].kind = "other") THEN body ELSE NoMsg
    BY <1>9 DEF ReadBody
  <2>2. got[t] \in Msg /\ got[t] # NoMsg /\ got[t].of = t
    BY <1>0, <2>1 DEF TypeOK, Hands
  <2>3. body' = NoMsg
    BY <1>0, <2>1, <2>2 DEF Healthy
  <2>4. \A u \in Thread : u # t => ~HoldsToken(u)
    BY <1>0, <2>1 DEF StreamMutex, HoldsToken
  <2>5. \A u \in Thread : u # t => got'[u] = NoMsg /\ pc'[u] \notin {"read", "dispatch", "body", "release"}
    BY <1>0, <2>1, <2>4 DEF HoldsToken, TypeOK
  <2>6. pc'[t] = "release"
    BY <1>0, <2>1 DEF TypeOK
  <2>7. QED
    BY <2>1, <2>2, <2>3, <2>5, <2>6 DEF Hands
<1>10. CASE Release(t)
  <2>1. pc[t] = "release" /\ UNCHANGED body /\ got' = [got EXCEPT ![t] = NoMsg]
    BY <1>10 DEF Release
  <2>2. body = NoMsg
    BY <1>0, <2>1 DEF Hands
  <2>3. \A u \in Thread : u # t => ~HoldsToken(u)
    BY <1>0, <2>1 DEF StreamMutex, HoldsToken
  <2>4. \A u \in Thread : got'[u] = NoMsg
    BY <1>0, <2>1, <2>3 DEF HoldsToken, TypeOK
  <2>5. pc'[t] = "idle"
    BY <1>0, <1>10, ReleaseWakesOne
  <2>6. \A u \in Thread : pc'[u] \notin {"read", "dispatch", "body", "release"}
    BY <1>0, <1>10, <2>3, <2>5, OthersStay DEF Act, Receive, HoldsToken
  <2>7. QED
    BY <2>1, <2>2, <2>4, <2>6 DEF Hands
<1>11. QED
  BY <1>1, <1>2, <1>3, <1>4, <1>5, <1>6, <1>7, <1>8, <1>9, <1>10, UndisturbedSteps DEF AllInv

LEMMA StepHands ==
  ASSUME Undisturbed, AllInv, [Next]_vars PROVE Hands'
<1>1. CASE UNCHANGED vars \/ Server
  <2>1. UNCHANGED <<pc, hdr, got, body>>
    BY <1>1 DEF Server, Accept, Reply, vars, threadVars, inVars
  <2>2. QED
    BY <2>1, HandsSame DEF AllInv, FlightInv
<1>2. CASE ConnDown
  BY <1>2 DEF ConnDown, Undisturbed
<1>3. ASSUME NEW t \in Thread, Act(t) PROVE Hands'
  BY <1>3, ThreadStepHands
<1>4. QED
  BY <1>1, <1>2, <1>3 DEF Next, Act

LEMMA InitFlight == Init => FlightInv
<1> SUFFICES ASSUME Init PROVE FlightInv
  OBVIOUS
<1>1. Stream = <<>> /\ Len(Stream) = 0
  BY DEF Init, Stream
<1>2. inbox = <<>> /\ Len(inbox) = 0 /\ body = NoMsg /\ pending = {}
  BY DEF Init
<1>3. \A u : ~StreamOf(u) /\ ~ServedOf(u) /\ ~ComingOf(u) /\ ~BodyOf(u)
  BY <1>1, <1>2 DEF StreamOf, ServedOf, ComingOf, BodyOf
<1>4. Travel
  BY <1>1, <1>2, <1>3 DEF Travel, Tagged, Once, OnePlace, Stage
<1>5. TagsApart /\ Hands /\ Results
  BY DEF Init, TagsApart, Hands, Results, Registered, Waiting, EnRoute
<1>6. QED
  BY <1>4, <1>5 DEF FlightInv

LEMMA InitAll == Init => AllInv /\ NoCrash
<1>1. Init => UndisturbedInv
  BY DEF Init, UndisturbedInv, Healthy, StartsClean, TableExact, TokenHasHolder, NoLostWakeup,
         Registered, Waiting, EnRoute
<1>2. Init => StreamMutex /\ NoCrash
  BY DEF Init, StreamMutex, HoldsToken, NoCrash
<1>3. QED
  BY <1>1, <1>2, InitTyped, InitOut, InitFlight DEF AllInv

LEMMA NextAll ==
  ASSUME Undisturbed PROVE AllInv /\ NoCrash /\ [Next]_vars => AllInv' /\ NoCrash'
<1> SUFFICES ASSUME AllInv, NoCrash, [Next]_vars PROVE AllInv' /\ NoCrash'
  OBVIOUS
<1>1. TypeOK' /\ StreamMutex' /\ OutInv'
  BY NextTyped, NextMutex, NextOut DEF AllInv
<1>2. UndisturbedInv'
  BY NextUndisturbed DEF AllInv
<1>3. FlightInv'
  BY StepTags, StepTravel, StepHands, StepResults DEF FlightInv
<1>4. QED
  BY <1>1, <1>2, <1>3, StepNoCrash DEF AllInv

(* While nothing but an allocation fails and no tag is in use twice, a     *)
(* thread that reads a body reads the reply to its own request.            *)
THEOREM OwnReply ==
  ASSUME Undisturbed PROVE Spec => []RightReply
<1>1. AllInv => RightReply
  BY DEF AllInv, FlightInv, Hands, RightReply
<1>2. QED
  BY <1>1, InitAll, NextAll, PTL DEF Spec

(* Under the same conditions neither assertion of wait_for_header fails:   *)
(* no message arrives that nobody waits for, and a thread that finds its   *)
(* header finds some_thread_is_reading set.                                *)
THEOREM AssertionsHold ==
  ASSUME Undisturbed PROVE Spec => []~crashed
<1>1. NoCrash => ~crashed
  BY DEF NoCrash
<1>2. QED
  BY <1>1, InitAll, NextAll, PTL DEF Spec

(***************************************************************************)
(* The multiplexer implements RpcService (its safety part).                *)
(***************************************************************************)
Faultless == Faults = {} /\ ~TagReuse

(* The service's variables, as the INSTANCE in P9Rpc maps them.            *)
Calling == {t \in Thread : pc[t] # "idle"}
AnswerOf(m) == [of |-> m.of, kind |-> m.kind]
Answers == {AnswerOf(m) : m \in Replies}

(* A reply is in transit or its body is next.                              *)
LEMMA RepliesAre ==
  \A m : m \in Replies <=> (\E i \in 1 .. Len(inbox) : inbox[i] = m) \/ (m = body /\ body # NoMsg)
  BY DEF Replies

(* A step that no caller notices.                                          *)
LEMMA Unnoticed ==
  ASSUME UNCHANGED result, Calling' = Calling, Replies' = Replies
  PROVE  UNCHANGED Service!svars
<1>1. Answers' = Answers
  BY DEF Answers, AnswerOf
<1>2. QED
  BY <1>1 DEF Service!svars, Calling, Answers, AnswerOf

LEMMA CallStep ==
  ASSUME AllInv, NEW t \in Thread, Register(t) PROVE Service!Call(t)
<1>1. /\ pc[t] = "idle" /\ pc' = [pc EXCEPT ![t] = "registered"]
      /\ result' = [result EXCEPT ![t] = "none"] /\ UNCHANGED <<inbox, body>>
  BY DEF Register, At, inVars
<1>2. Calling' = Calling \cup {t} /\ t \notin Calling
  BY <1>1 DEF Calling, AllInv, TypeOK
<1>3. Answers' = Answers
  BY <1>1 DEF Answers, AnswerOf, Replies
<1>4. QED
  BY <1>1, <1>2, <1>3 DEF Service!Call, Calling, Answers, AnswerOf

LEMMA ConsumeStep ==
  ASSUME AllInv, NEW t \in Thread, ReadBody(t)
  PROVE  \E kind \in Kinds : Service!Consume(t, kind)
<1>1. /\ pc[t] = "body" /\ pc' = [pc EXCEPT ![t] = "release"] /\ UNCHANGED inbox
      /\ body' = IF got[t].of = NoThread \/ (inErr /\ got[t].kind = "other") THEN body ELSE NoMsg
  BY DEF ReadBody, At
<1>2. got[t] \in Msg /\ got[t] # NoMsg /\ got[t].of = t /\ got[t] = body /\ Proper(body)
  BY <1>1 DEF AllInv, TypeOK, FlightInv, Hands, Travel, Tagged
<1>3. ~inErr /\ ~body.cut /\ body.kind \in Kinds
  BY <1>2 DEF AllInv, UndisturbedInv, Healthy, Proper
<1>4. body' = NoMsg
  BY <1>1, <1>2, <1>3
<1>5. result' = [result EXCEPT ![t] = body.kind]
  <2>1. result' = [result EXCEPT ![t] =
                    CASE body.kind = "other" -> "other"
                      [] body.kind # "other" /\ inErr -> "ferror"
                      [] body.kind # "other" /\ ~inErr -> IF body.cut THEN "short" ELSE body.kind]
    BY <1>2 DEF ReadBody
  <2>2. QED
    BY <1>3, <2>1
<1>6. Calling' = Calling
  BY <1>1 DEF Calling, AllInv, TypeOK
<1> DEFINE a == [of |-> t, kind |-> body.kind]
<1>7. a \in Answers /\ a.of = t
  BY <1>2, RepliesAre DEF Answers, AnswerOf
<1>8. Answers' = Answers \ {a}
  <2>1. \A m : m \in Replies' <=> \E i \in 1 .. Len(inbox) : inbox[i] = m
    BY <1>1, <1>4 DEF Replies
  <2>2. \A m : m \in Replies' => m \in Replies /\ m.of # t
    BY <1>2, <2>1, RepliesAre DEF AllInv, FlightInv, Travel, OnePlace, ComingOf, BodyOf
  <2>3. \A m : m \in Replies => m \in Replies' \/ m = body
    BY <2>1, RepliesAre
  <2>4. \A b : b \in Answers' => b \in Answers /\ b # a
    <3>1. SUFFICES ASSUME NEW b \in Answers' PROVE b \in Answers /\ b # a
      OBVIOUS
    <3>2. PICK m \in Replies' : b = AnswerOf(m)
      BY DEF Answers, AnswerOf
    <3>3. b.of = m.of
      BY <3>2 DEF AnswerOf
    <3>4. b # a
      BY <1>7, <2>2, <3>2, <3>3
    <3>5. QED
      BY <2>2, <3>2, <3>4 DEF Answers
  <2>5. \A b : b \in Answers /\ b # a => b \in Answers'
    <3>1. SUFFICES ASSUME NEW b \in Answers, b # a PROVE b \in Answers'
      OBVIOUS
    <3>2. PICK m \in Replies : b = AnswerOf(m)
      BY DEF Answers
    <3>3. m # body
      BY <1>2, <3>1, <3>2 DEF AnswerOf
    <3>4. m \in Replies'
      BY <2>3, <3>2, <3>3
    <3>5. QED
      BY <3>2, <3>4 DEF Answers, AnswerOf
  <2>6. QED
    BY <2>4, <2>5
<1>9. PICK k \in Kinds : k = body.kind
  BY <1>3
<1>10. Service!Consume(t, k)
  BY <1>5, <1>6, <1>7, <1>8, <1>9 DEF Service!Consume, Calling, Answers, AnswerOf
<1>11. QED
  BY <1>10

LEMMA ReturnStep ==
  ASSUME AllInv, NEW t \in Thread, Release(t) PROVE Service!Return(t)
<1>1. pc[t] = "release" /\ UNCHANGED <<result, inbox, body>>
  BY DEF Release, At, inVars
<1>2. /\ pc'[t] = "idle"
      /\ \A u \in Thread : u # t => pc'[u] = pc[u] \/ (pc[u] = "wait" /\ pc'[u] = "woken")
  BY ReleaseWakesOne DEF AllInv
<1>3. Calling' = Calling \ {t} /\ t \in Calling
  BY <1>1, <1>2 DEF Calling
<1>4. Answers' = Answers
  BY <1>1 DEF Answers, AnswerOf, Replies
<1>5. result[t] # "none"
  BY <1>1 DEF AllInv, FlightInv, Results
<1>6. QED
  BY <1>1, <1>3, <1>4, <1>5 DEF Service!Return, Calling, Answers, AnswerOf

LEMMA ServeStep ==
  ASSUME AllInv, NEW r \in pending, NEW kind \in Kinds, Reply(r, kind)
  PROVE  r.of \in Thread /\ Service!Serve(r.of, kind)
<1> DEFINE m == [tag |-> r.tag, of |-> r.of, kind |-> kind, cut |-> FALSE]
           n == Len(inbox)
           a == [of |-> r.of, kind |-> kind]
<1>1. UNCHANGED <<pc, result, body>> /\ inbox' = Append(inbox, m)
  BY DEF Reply, threadVars
<1>2. r.of \in Thread /\ r.tag \in Tags /\ ServedOf(r.of)
  BY DEF AllInv, TypeOK, ServedOf
<1>3. m \in Msg
  BY <1>2, KindsAssumption DEF Msg
<1>4. pc[r.of] \in Whole
  BY <1>2 DEF AllInv, FlightInv, Travel, Stage
<1>5. r.of \in Calling /\ result[r.of] = "none"
  BY <1>2, <1>4 DEF Calling, Whole, Out, Registered, Waiting, EnRoute, AllInv, FlightInv, Results
<1>6. \A k \in Replies : k.of # r.of
  BY <1>2, RepliesAre DEF AllInv, FlightInv, Travel, OnePlace, ComingOf, BodyOf
<1>7. \A b \in Answers : b.of # r.of
  BY <1>6 DEF Answers, AnswerOf
<1>8. AnswerOf(m) = a
  BY DEF AnswerOf
<1> HIDE DEF m
<1>9. /\ n \in Nat /\ Len(inbox') = n + 1 /\ inbox'[n + 1] = m
      /\ \A i \in 1 .. n : inbox'[i] = inbox[i]
  BY <1>1, <1>3, InboxTyped, AppendEffect DEF AllInv
<1>10. \A k : k \in Replies' <=> k \in Replies \/ k = m
  <2>1. \A i : i \in 1 .. n + 1 <=> i \in 1 .. n \/ i = n + 1
    BY <1>9
  <2> HIDE DEF n
  <2>2. \A k : (\E i \in 1 .. n + 1 : inbox'[i] = k) <=> (\E i \in 1 .. n : inbox[i] = k) \/ k = m
    BY <1>9, <2>1
  <2>3. \A k : k \in Replies' <=> (\E i \in 1 .. Len(inbox') : inbox'[i] = k) \/ (k = body /\ body # NoMsg)
    BY <1>1 DEF Replies
  <2>4. QED
    BY <1>9, <2>2, <2>3, RepliesAre DEF n
<1>11. Answers' = Answers \cup {a}
  <2>1. \A b : b \in Answers' <=> \E k \in Replies' : b = AnswerOf(k)
    BY DEF Answers, AnswerOf
  <2>2. \A b : b \in Answers <=> \E k \in Replies : b = AnswerOf(k)
    BY DEF Answers
  <2>3. QED
    BY <1>8, <1>10, <2>1, <2>2
<1>12. Calling' = Calling
  BY <1>1 DEF Calling
<1>13. QED
  BY <1>1, <1>2, <1>5, <1>7, <1>11, <1>12 DEF Service!Serve, Calling, Answers, AnswerOf

(* Every other step of a thread goes unnoticed.                            *)
LEMMA SilentStep ==
  ASSUME Faultless, AllInv, NEW t \in Thread, Act(t),
         ~Register(t), ~ReadBody(t), ~Release(t)
  PROVE  UNCHANGED Service!svars
<1>0. TypeOK
  BY DEF AllInv
<1>1. Undisturbed /\ ~RegisterFail(t)
  BY DEF Faultless, Undisturbed, RegisterFail
<1> USE DEF threadVars, inVars, At
<1>2. pc[t] # "idle" /\ pc'[t] # "idle" /\ result' = result /\ Replies' = Replies
  <2>1. CASE WriteHeader(t) \/ (WriteBody(t) /\ Goto(t, "flush")) \/ Flush(t) \/ SpuriousWake(t)
    BY <1>0, <2>1 DEF WriteHeader, WriteBody, Flush, SpuriousWake, Goto, TypeOK, Replies
  <2>2. CASE WaitForHeader(t)
    BY <1>0, <2>2 DEF WaitForHeader, WaitOrRead, Goto, TypeOK, Replies
  <2>3. CASE DispatchOwn(t) \/ DispatchUnknown(t)
    BY <1>0, <2>3 DEF DispatchOwn, DispatchUnknown, TypeOK, Replies
  <2>4. CASE DispatchOther(t)
    BY <1>0, <2>4 DEF DispatchOther, Signal, TypeOK, Replies
  <2>5. CASE ReadHeader(t)
    <3> DEFINE n == Len(inbox)
    <3>1. pc[t] = "read" /\ pc'[t] = "dispatch" /\ result' = result
      BY <1>0, <2>5 DEF ReadHeader, TypeOK
    <3>2. body = NoMsg
      BY <3>1 DEF AllInv, FlightInv, Hands
    <3>3. /\ inbox # <<>> /\ inbox' = Tail(inbox)
          /\ body' = inbox[1] /\ body' # NoMsg
      BY <1>0, <2>5, <3>2, ReadTravels DEF AllInv, FlightInv
    <3>4. /\ n \in Nat /\ n >= 1 /\ Len(inbox') = n - 1
          /\ \A i \in 1 .. n - 1 : inbox'[i] = inbox[i + 1]
      BY <1>0, <3>3, InboxTyped, TailEffect
    <3>5. \A m : m \in Replies' <=> (\E i \in 1 .. n - 1 : inbox[i + 1] = m) \/ m = inbox[1]
      BY <3>3, <3>4 DEF Replies
    <3>6. \A m : m \in Replies <=> \E i \in 1 .. n : inbox[i] = m
      BY <3>2, RepliesAre
    <3> HIDE DEF n
    <3>7. \A i \in 1 .. n - 1 : i + 1 \in 1 .. n
      BY <3>4
    <3>8. 1 \in 1 .. n
      BY <3>4
    <3>9. \A i \in 1 .. n : i = 1 \/ (i - 1 \in 1 .. n - 1 /\ (i - 1) + 1 = i)
      BY <3>4
    <3>10. Replies' \subseteq Replies
      BY <3>5, <3>6, <3>7, <3>8
    <3>11. Replies \subseteq Replies'
      <4>1. SUFFICES ASSUME NEW m \in Replies PROVE m \in Replies'
        OBVIOUS
      <4>2. PICK i \in 1 .. n : inbox[i] = m
        BY <3>6
      <4>3. i = 1 \/ (i - 1 \in 1 .. n - 1 /\ inbox[(i - 1) + 1] = m)
        BY <3>9, <4>2
      <4>4. QED
        BY <3>5, <4>2, <4>3
    <3>12. QED
      BY <3>1, <3>10, <3>11
  <2>6. QED
    BY <1>1, <2>1, <2>2, <2>3, <2>4, <2>5, UndisturbedSteps DEF AllInv
<1>3. Calling' = Calling
  BY <1>0, <1>2, OthersStay DEF Calling
<1>4. QED
  BY <1>2, <1>3, Unnoticed

LEMMA ServiceStep ==
  ASSUME Faultless, AllInv, [Next]_vars PROVE [Service!Next]_Service!svars
<1>1. CASE UNCHANGED vars \/ Accept
  <2>1. UNCHANGED <<pc, result, inbox, body>>
    BY <1>1 DEF vars, threadVars, inVars, Accept
  <2>2. QED
    BY <2>1, Unnoticed DEF Calling, Replies
<1>2. ASSUME NEW r \in pending, NEW kind \in Kinds, Reply(r, kind) PROVE Service!Next
  <2>1. r.of \in Thread /\ Service!Serve(r.of, kind)
    BY <1>2, ServeStep
  <2>2. PICK t \in Thread : t = r.of
    BY <2>1
  <2>3. Service!Serve(t, kind)
    BY <2>1, <2>2
  <2>4. QED
    BY <2>3 DEF Service!Next
<1>3. CASE ConnDown
  BY <1>3 DEF ConnDown, Faultless
<1>4. ASSUME NEW t \in Thread, Act(t) PROVE [Service!Next]_Service!svars
  <2>1. CASE Register(t)
    BY <2>1, CallStep DEF Service!Next
  <2>2. CASE ReadBody(t)
    BY <2>2, ConsumeStep DEF Service!Next
  <2>3. CASE Release(t)
    BY <2>3, ReturnStep DEF Service!Next
  <2>4. QED
    BY <1>4, <2>1, <2>2, <2>3, SilentStep
<1>5. QED
  BY <1>1, <1>2, <1>3, <1>4 DEF Next, Server, Act

(* With no fault and no tag in use twice, what callers see of the          *)
(* multiplexer is the service: each call is answered at most once and      *)
(* returns the answer given to it, whatever the others do.  (That it       *)
(* returns at all is checked by TLC under fairness.)                       *)
THEOREM ImplementsService ==
  ASSUME Faultless PROVE Spec => Service!Spec
<1>1. Undisturbed
  BY DEF Faultless, Undisturbed
<1>2. Init => Service!Init
  <2> SUFFICES ASSUME Init PROVE Service!Init
    OBVIOUS
  <2>1. Calling = {} /\ Replies = {}
    BY DEF Init, Calling, Replies
  <2>2. Answers = {}
    BY <2>1 DEF Answers
  <2>3. QED
    BY <2>1, <2>2 DEF Init, Service!Init, Calling, Answers, AnswerOf
<1>3. AllInv /\ NoCrash /\ [Next]_vars => [Service!Next]_Service!svars
  BY ServiceStep
<1>4. AllInv /\ NoCrash /\ [Next]_vars => AllInv' /\ NoCrash'
  BY <1>1, NextAll
<1>5. QED
  BY <1>2, <1>3, <1>4, InitAll, PTL DEF Spec, Service!Spec

=============================================================================
