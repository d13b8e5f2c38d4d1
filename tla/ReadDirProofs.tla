--------------------------- MODULE ReadDirProofs ----------------------------
(***************************************************************************)
(* Proofs about ReadDir, for directories, blocks and replies of any size.  *)
(***************************************************************************)
EXTENDS ReadDir, SequenceTheorems, TLAPS

(* A client leaves room for any one entry, memory for the reply is there,  *)
(* and after any failure but a refused read and a malformed entry it gives *)
(* the protid up.                                                          *)
Undisturbed ==
  /\ "reply" \notin Faults /\ Retried \subseteq {"read", "parse"}
  /\ \A b \in BufSizes \ {0}, e \in 0 .. Entries - 1 : RecLen[e] <= b

(* What the limits need: counters count, and buffered entries exist.       *)
Typed ==
  /\ p9_version \in {"core", "L"} /\ pc \in {"idle", "parse", "parsed", "load", "read", "returned"}
  /\ entry \in Int /\ asked \in Int /\ nentries \in Int /\ bufsize \in BufSizes \cup {0}
  /\ datacnt \in Nat /\ amt \in Nat
  /\ next_entry \in Nat /\ next_offset \in Nat /\ position \in Nat
  /\ buffer \in Seq(0 .. Entries - 1) /\ out \in Seq(0 .. Entries - 1)
  /\ io_fid \in {"none", "open", "unopened"}

Inv1 == Typed /\ WithinLimits

(* The call has taken amt entries, from the one asked for on.              *)
Taken ==
  /\ Len(out) = amt /\ entry = asked + amt
  /\ RightEntries
  /\ amt = 0 => datacnt = 0

(* The buffer holds consecutive entries, of which next_entry is the first. *)
(* Parsing the first one may have moved next_offset beyond it, in 9P2000.L *)
(* only.                                                                   *)
Aligned ==
  /\ \A k \in 1 .. Len(buffer) : buffer[k] = next_entry + k - 1
  /\ next_offset = next_entry \/ (p9_version = "L" /\ buffer # <<>>)
  /\ p9_version = "core" /\ io_fid # "none" =>
       next_offset + Len(buffer) = position \/ (next_offset = 0 /\ buffer = <<>>)
  /\ io_fid # "unopened"

(* To reopen the directory breaks the agreement until the next block is    *)
(* there; who fails in between gives up, as does who asked for nonsense.   *)
Spoilt == pc = "read" \/ (pc = "returned" /\ err \in Faults \ Retried) \/ nentries < -1

(* Data is loaded for want of a first entry, from where next_entry is.     *)
Loading ==
  /\ pc = "parsed" /\ amt = 0 /\ Wanted => buffer = <<>> \/ entry < next_entry
  /\ pc = "load" => amt = 0 /\ nentries # 0
  /\ pc = "load" /\ Wanted => buffer = <<>> \/ entry < next_entry
  /\ pc = "read" => amt = 0 /\ nentries # 0
  /\ pc = "read" /\ Wanted => /\ entry >= next_entry \/ next_entry = 0
                              /\ next_offset = next_entry /\ Readable

Inv2 ==
  /\ Taken
  /\ ~Spoilt => Aligned
  /\ Loading
  /\ EmptyMeansEnd

(***************************************************************************)
(* Sequences.                                                              *)
(***************************************************************************)
USE DEF Wanted

LEMMA TailOf ==
  ASSUME NEW S, NEW s \in Seq(S), s # <<>>
  PROVE  /\ Head(s) = s[1] /\ Head(s) \in S /\ Tail(s) \in Seq(S) /\ Len(s) \in Nat \ {0}
         /\ Len(Tail(s)) = Len(s) - 1 /\ \A k \in 1 .. Len(s) - 1 : Tail(s)[k] = s[k + 1]
OBVIOUS

LEMMA AppendTo ==
  ASSUME NEW S, NEW s \in Seq(S), NEW e \in S
  PROVE  /\ Append(s, e) \in Seq(S) /\ Len(Append(s, e)) = Len(s) + 1
         /\ \A k \in 1 .. Len(s) : Append(s, e)[k] = s[k]
         /\ Append(s, e)[Len(s) + 1] = e
OBVIOUS

LEMMA BlockOf ==
  ASSUME NEW from \in Nat, NEW n \in Nat, from + n <= Entries
  PROVE  LET b == [k \in 1 .. n |-> from + k - 1] IN
         /\ b \in Seq(0 .. Entries - 1) /\ Len(b) = n
         /\ \A k \in 1 .. n : b[k] = from + k - 1
         /\ n = 0 <=> b = <<>>
<1> DEFINE b == [k \in 1 .. n |-> from + k - 1]
<1>1. b \in [1 .. n -> 0 .. Entries - 1]
  BY EntriesAssumption
<1>2. b \in Seq(0 .. Entries - 1)
  <2> DEFINE E == 0 .. Entries - 1
             c == b
  <2>1. c \in [1 .. n -> E]
    BY <1>1
  <2> HIDE DEF c, E
  <2>2. c \in Seq(E)
    BY <2>1
  <2> QED
    BY <2>2 DEF c, E
<1>3. Len(b) = n
  BY <1>2, LenProperties
<1>4. n = 0 <=> b = <<>>
  BY <1>2, <1>3, EmptySeq
<1> QED
  BY <1>2, <1>3, <1>4

(***************************************************************************)
(* Types and limits.                                                       *)
(***************************************************************************)
LEMMA InitInv1 == Init => Inv1
BY FaultsAssumption DEF Init, Inv1, Typed, WithinLimits

LEMMA ConsumeTypes ==
  ASSUME Inv1, Looking, Consume
  PROVE  /\ buffer' \in Seq(0 .. Entries - 1) /\ next_entry' \in Nat /\ next_offset' \in Nat
         /\ Head(buffer) \in 0 .. Entries - 1
BY TailOf, EntriesAssumption DEF Inv1, Typed, Looking, Consume, Consumed

LEMMA NextInv1 == Inv1 /\ [Next]_vars => Inv1'
<1> SUFFICES ASSUME Inv1, [Next]_vars PROVE Inv1'
  OBVIOUS
<1> USE DEF call, reply, dir
<1>1. CASE UNCHANGED vars
  BY <1>1 DEF vars, Inv1, Typed, WithinLimits
<1>2. ASSUME NEW e \in FirstEntries, NEW n \in Counts, NEW b \in BufSizes, Begin(e, n, b)
      PROVE  Inv1'
  BY <1>2, EntriesAssumption, RequestsAssumption DEF Begin, Inv1, Typed, WithinLimits
<1>3. CASE Close
  BY <1>3 DEF Close, Inv1, Typed, WithinLimits
<1>4. CASE ParseFails
  <2>1. next_offset' \in Nat
    BY <1>4, TailOf, EntriesAssumption DEF ParseFails, Inv1, Typed, Looking, Parsed
  <2> QED
    BY <1>4, <2>1 DEF ParseFails, Fail, Inv1, Typed, WithinLimits
<1>5. CASE SkipEntry
  BY <1>5, ConsumeTypes DEF SkipEntry, Inv1, Typed, WithinLimits
<1>6. CASE TakeEntry
  <2>1. Head(buffer) \in 0 .. Entries - 1 /\ RecLen[Head(buffer)] \in Nat \ {0}
    BY <1>6, ConsumeTypes, EntriesAssumption DEF TakeEntry
  <2>2. out' \in Seq(0 .. Entries - 1)
    BY <1>6, <2>1, AppendTo DEF TakeEntry, Inv1, Typed
  <2>3. bufsize = 0 \/ datacnt + RecLen[Head(buffer)] <= bufsize
    BY <1>6 DEF TakeEntry, HasSpace, HasRoom
  <2>4. nentries # -1 => amt < nentries
    BY <1>6 DEF TakeEntry, Looking
  <2>5. Typed'
    BY <1>6, <2>1, <2>2, ConsumeTypes DEF TakeEntry, Inv1, Typed
  <2>6. WithinLimits'
    BY <1>6, <2>1, <2>3, <2>4, RequestsAssumption DEF TakeEntry, Inv1, Typed, WithinLimits
  <2> QED
    BY <2>5, <2>6 DEF Inv1
<1>7. CASE NoSpace
  <2>1. next_offset' \in Nat
    BY <1>7, TailOf, EntriesAssumption DEF NoSpace, Inv1, Typed, Looking, Parsed
  <2> QED
    BY <1>7, <2>1 DEF NoSpace, Inv1, Typed, WithinLimits
<1>8. CASE NothingMore \/ Reuse
  BY <1>8 DEF NothingMore, Reuse, Inv1, Typed, WithinLimits
<1>9. CASE EndOfBuffer
  BY <1>9 DEF EndOfBuffer, Inv1, Typed, WithinLimits
<1>10. CASE Reopen
  BY <1>10 DEF Reopen, Rewind, Fail, Inv1, Typed, WithinLimits
<1>11. CASE NoMemory
  BY <1>11 DEF NoMemory, Fail, Inv1, Typed, WithinLimits
<1>13. CASE ReadFails
  BY <1>13, EmptySeq DEF ReadFails, Fail, Inv1, Typed, WithinLimits
<1>12. CASE Read
  <2>1. PICK n \in 0 .. Least(Block, Entries - next_offset) :
          /\ n = 0 => next_offset = Entries
          /\ buffer' = [k \in 1 .. n |-> next_offset + k - 1]
          /\ position' = next_offset + n
          /\ pc' = (IF n = 0 THEN "returned" ELSE "parse")
    BY <1>12 DEF Read
  <2>2. n \in Nat /\ next_offset + n <= Entries
    BY <2>1, EntriesAssumption DEF Least, Inv1, Typed
  <2>3. buffer' \in Seq(0 .. Entries - 1)
    BY <2>1, <2>2, BlockOf DEF Inv1, Typed
  <2> QED
    BY <1>12, <2>1, <2>2, <2>3 DEF Read, Inv1, Typed, WithinLimits
<1> QED
  BY <1>1, <1>2, <1>3, <1>4, <1>5, <1>6, <1>7, <1>8, <1>9, <1>10, <1>11, <1>12, <1>13 DEF Next

LEMMA Inv1Holds == Spec => []Inv1
BY InitInv1, NextInv1, PTL DEF Spec

(* The reply never has more entries than were asked for nor more data than *)
(* fits, whatever fails (make_space and the loop condition of              *)
(* S_dir_readdir).                                                         *)
THEOREM LimitsKept == Spec => []WithinLimits
<1>1. Inv1 => WithinLimits
  BY DEF Inv1
<1> QED
  BY <1>1, Inv1Holds, PTL

(***************************************************************************)
(* Entries and positions.                                                  *)
(***************************************************************************)
LEMMA InitInv2 == Init => Inv2
BY DEF Init, Inv2, Taken, RightEntries, Spoilt, Aligned, Loading, EmptyMeansEnd

(* A call begins: it has taken nothing.                                    *)
LEMMA BeginStep ==
  ASSUME Inv1, Inv2, Undisturbed,
         NEW e \in FirstEntries, NEW n \in Counts, NEW b \in BufSizes, Begin(e, n, b)
  PROVE  Inv2'
<1>1. Taken'
  BY RequestsAssumption DEF Begin, Taken, RightEntries
<1>2. Aligned'
  BY FaultsAssumption DEF Begin, GoesOn, dir, Inv1, Typed, Inv2, Spoilt, Aligned
<1>3. Loading' /\ EmptyMeansEnd'
  BY DEF Begin, Loading, EmptyMeansEnd
<1> QED
  BY <1>1, <1>2, <1>3 DEF Inv2

LEMMA CloseStep ==
  ASSUME Close
  PROVE  Inv2'
BY DEF Close, Inv2, Taken, RightEntries, Spoilt, Aligned, Loading, EmptyMeansEnd

(* The first of the buffered entries leaves the buffer.                    *)
LEMMA ConsumeAligned ==
  ASSUME Inv1, Aligned, Looking, Consume, UNCHANGED <<p9_version, io_fid, position>>
  PROVE  Aligned' /\ Head(buffer) = next_entry
<1>1. buffer \in Seq(0 .. Entries - 1) /\ buffer # <<>>
  BY DEF Inv1, Typed, Looking
<1>2. /\ Head(buffer) = next_entry
      /\ Len(buffer) \in Nat \ {0} /\ Len(buffer') = Len(buffer) - 1
      /\ \A k \in 1 .. Len(buffer) - 1 : buffer'[k] = buffer[k + 1]
  BY <1>1, TailOf DEF Aligned, Consume, Inv1, Typed
<1>3. \A k \in 1 .. Len(buffer') : buffer'[k] = next_entry' + k - 1
  BY <1>2 DEF Aligned, Consume, Inv1, Typed
<1>4. next_offset' = next_entry'
  BY <1>2 DEF Aligned, Consume, Consumed, Inv1, Typed
<1>5. p9_version = "core" => next_offset' + Len(buffer') = next_offset + Len(buffer)
  BY <1>2 DEF Consume, Consumed, Inv1, Typed
<1> QED
  BY <1>1, <1>2, <1>3, <1>4, <1>5 DEF Aligned

(* Who looks through the buffer asked for a sensible number of entries.    *)
LEMMA LookingAligned ==
  ASSUME Inv1, Inv2, Looking, pc = "parse"
  PROVE  Aligned /\ nentries >= -1
BY DEF Inv1, Typed, Looking, Inv2, Spoilt

LEMMA ParseFailsStep ==
  ASSUME Inv1, Inv2, ParseFails
  PROVE  Inv2'
<1>1. Aligned
  BY LookingAligned DEF ParseFails
<1>2. p9_version = "core" => next_offset' = next_offset
  BY DEF ParseFails, Parsed, Inv1, Typed
<1>3. Aligned'
  BY <1>1, <1>2 DEF ParseFails, Aligned, Looking, Inv1, Typed
<1>4. Taken'
  BY DEF ParseFails, call, Inv2, Taken, RightEntries
<1>5. Loading' /\ EmptyMeansEnd'
  BY DEF ParseFails, Fail, Loading, EmptyMeansEnd
<1> QED
  BY <1>3, <1>4, <1>5 DEF Inv2

LEMMA SkipStep ==
  ASSUME Inv1, Inv2, SkipEntry
  PROVE  Inv2'
<1>1. Aligned'
  BY ConsumeAligned, LookingAligned DEF SkipEntry
<1>2. Taken'
  BY DEF SkipEntry, call, Inv2, Taken, RightEntries
<1>3. Loading' /\ EmptyMeansEnd'
  BY DEF SkipEntry, Loading, EmptyMeansEnd
<1> QED
  BY <1>1, <1>2, <1>3 DEF Inv2

(* The entry taken is the one wanted next.                                 *)
LEMMA TakeStep ==
  ASSUME Inv1, Inv2, TakeEntry
  PROVE  Inv2'
<1>1. Aligned' /\ Head(buffer) = next_entry
  BY ConsumeAligned, LookingAligned DEF TakeEntry
<1>2. Head(buffer) = asked + amt
  <2>1. entry \in Nat /\ next_entry \in Nat /\ entry >= next_entry /\ entry <= next_entry
    BY DEF TakeEntry, Looking, Inv1, Typed
  <2>2. entry = next_entry
    BY <2>1
  <2> QED
    BY <1>1, <2>2 DEF Inv2, Taken
<1>3. Head(buffer) \in 0 .. Entries - 1
  BY ConsumeTypes DEF TakeEntry
<1>4. /\ Len(out') = amt + 1 /\ entry' = asked' + amt' /\ amt' = amt + 1
      /\ out'[amt + 1] = asked' + amt /\ \A k \in 1 .. amt : out'[k] = out[k]
  BY <1>2, <1>3, AppendTo DEF TakeEntry, Inv1, Typed, Inv2, Taken
<1>5. Taken'
  BY <1>4 DEF TakeEntry, Inv1, Typed, Inv2, Taken, RightEntries
<1>6. Loading' /\ EmptyMeansEnd'
  BY DEF TakeEntry, Loading, EmptyMeansEnd
<1> QED
  BY <1>1, <1>5, <1>6 DEF Inv2

(* There is no room only once something was taken.                         *)
LEMMA NoSpaceStep ==
  ASSUME Inv1, Inv2, Undisturbed, NoSpace
  PROVE  Inv2'
<1>1. Head(buffer) \in 0 .. Entries - 1
  BY TailOf DEF NoSpace, Looking, Inv1, Typed
<1>2. amt # 0
  <2> SUFFICES ASSUME amt = 0 PROVE FALSE
    OBVIOUS
  <2>1. ~HasRoom(Head(buffer))
    BY DEF NoSpace, HasSpace, Undisturbed
  <2>2. bufsize \in BufSizes \ {0} /\ datacnt = 0
    BY <2>1 DEF HasRoom, Inv1, Typed, Inv2, Taken
  <2>3. RecLen[Head(buffer)] <= bufsize /\ RecLen[Head(buffer)] \in Nat
    BY <1>1, <2>2, EntriesAssumption DEF Undisturbed
  <2> QED
    BY <2>1, <2>2, <2>3 DEF HasRoom
<1>3. p9_version = "core" => next_offset' = next_offset
  BY DEF NoSpace, Parsed, Inv1, Typed
<1>4. Aligned'
  BY <1>3, LookingAligned DEF NoSpace, Aligned, Looking, Inv1, Typed
<1>5. Taken'
  BY DEF NoSpace, call, Inv2, Taken, RightEntries
<1>6. Loading' /\ EmptyMeansEnd'
  BY <1>2 DEF NoSpace, Loading, EmptyMeansEnd
<1> QED
  BY <1>4, <1>5, <1>6 DEF Inv2

LEMMA NothingMoreStep ==
  ASSUME Inv1, Inv2, NothingMore
  PROVE  Inv2'
<1>1. Taken' /\ (~Spoilt' => Aligned')
  BY DEF NothingMore, call, reply, dir, Inv2, Taken, RightEntries, Spoilt, Aligned
<1>2. Loading' /\ EmptyMeansEnd'
  BY DEF NothingMore, call, reply, dir, Inv1, Typed, Inv2, Looking, Loading, EmptyMeansEnd
<1> QED
  BY <1>1, <1>2 DEF Inv2

LEMMA EndOfBufferStep ==
  ASSUME Inv1, Inv2, EndOfBuffer
  PROVE  Inv2'
<1>1. Taken' /\ (~Spoilt' => Aligned')
  BY DEF EndOfBuffer, call, Inv2, Taken, RightEntries, Spoilt, Aligned
<1>2. Loading' /\ EmptyMeansEnd'
  BY DEF EndOfBuffer, call, Inv1, Typed, Inv2, Loading, EmptyMeansEnd
<1> QED
  BY <1>1, <1>2 DEF Inv2

(* A new fid is read from the start, and a fid that is reused from where   *)
(* the buffer, now empty, ended.                                           *)
LEMMA ReopenStep ==
  ASSUME Inv1, Inv2, Undisturbed, Reopen
  PROVE  Inv2'
<1>1. Taken'
  BY DEF Reopen, call, Inv2, Taken, RightEntries
<1>2. Spoilt'
  BY DEF Reopen, Fail, Spoilt, Undisturbed
<1>3. Loading' /\ EmptyMeansEnd'
  BY DEF Reopen, Rewind, Fail, call, Inv1, Typed, Inv2, Loading, EmptyMeansEnd, Readable
<1> QED
  BY <1>1, <1>2, <1>3 DEF Inv2

LEMMA ReuseStep ==
  ASSUME Inv1, Inv2, Reuse
  PROVE  Inv2'
<1>1. amt = 0 /\ nentries # 0 /\ entry >= next_entry /\ io_fid # "none"
  BY DEF Reuse, can_reuse_io_fid, Inv2, Loading
<1>2. ASSUME Wanted PROVE next_offset = next_entry /\ Readable
  <2>1. buffer = <<>> /\ Aligned
    BY <1>1, <1>2 DEF Reuse, Inv1, Typed, Inv2, Loading, Spoilt
  <2> QED
    BY <1>1, <2>1 DEF Aligned, Readable, Inv1, Typed
<1>3. Taken' /\ Loading' /\ EmptyMeansEnd'
  BY <1>1, <1>2 DEF Reuse, call, reply, dir, Inv2, Taken, RightEntries, Loading, EmptyMeansEnd, Readable
<1> QED
  BY <1>3 DEF Inv2, Spoilt, Reuse

LEMMA NoMemoryStep ==
  ASSUME Inv1, Inv2, Undisturbed, NoMemory
  PROVE  Inv2'
<1>1. Taken' /\ Loading' /\ EmptyMeansEnd'
  BY DEF NoMemory, Fail, call, Inv2, Taken, RightEntries, Loading, EmptyMeansEnd
<1>2. Spoilt'
  BY DEF NoMemory, Fail, Spoilt, Undisturbed
<1> QED
  BY <1>1, <1>2 DEF Inv2

(* A refused read leaves an empty buffer, and the position where it was.   *)
LEMMA ReadFailsStep ==
  ASSUME Inv1, Inv2, ReadFails
  PROVE  Inv2'
<1>1. Taken' /\ Loading' /\ EmptyMeansEnd'
  BY DEF ReadFails, Fail, call, Inv2, Taken, RightEntries, Loading, EmptyMeansEnd
<1>2. ASSUME nentries >= -1 PROVE Aligned'
  <2>1. Wanted /\ next_offset = next_entry /\ Readable
    BY <1>2 DEF ReadFails, Inv1, Typed, Inv2, Loading
  <2> QED
    BY <2>1, EmptySeq DEF ReadFails, Aligned, Readable, Inv1, Typed
<1>3. nentries < -1 => Spoilt'
  BY DEF ReadFails, call, Spoilt
<1> QED
  BY <1>1, <1>2, <1>3 DEF Inv2, Inv1, Typed

(* A block starts at next_entry; at the end of the directory there is none.*)
LEMMA ReadStep ==
  ASSUME Inv1, Inv2, Read
  PROVE  Inv2'
<1>1. PICK n \in 0 .. Least(Block, Entries - next_offset) :
        /\ n = 0 => next_offset = Entries
        /\ buffer' = [k \in 1 .. n |-> next_offset + k - 1]
        /\ position' = next_offset + n
        /\ pc' = (IF n = 0 THEN "returned" ELSE "parse")
  BY DEF Read
<1>2. n \in Nat /\ next_offset + n <= Entries
  BY <1>1, EntriesAssumption DEF Least, Inv1, Typed
<1>3. /\ Len(buffer') = n /\ \A k \in 1 .. n : buffer'[k] = next_offset + k - 1
      /\ n = 0 <=> buffer' = <<>>
  BY <1>1, <1>2, BlockOf DEF Inv1, Typed
<1>4. /\ amt = 0 /\ nentries # 0
      /\ Wanted => (entry >= next_entry \/ next_entry = 0) /\ next_offset = next_entry /\ Readable
  BY DEF Read, Inv2, Loading
<1>5. Taken'
  BY DEF Read, call, Inv2, Taken, RightEntries
<1>6. ~Spoilt' => Aligned'
  <2>1. Wanted => Aligned'
    BY <1>1, <1>2, <1>3, <1>4 DEF Read, Aligned, Readable, Inv1, Typed
  <2> QED
    BY <1>4, <2>1 DEF Spoilt, Read, call, Inv1, Typed
<1>7. Loading'
  BY <1>1 DEF Read, Loading
<1>8. EmptyMeansEnd'
  BY <1>1, <1>4, EntriesAssumption DEF Read, call, EmptyMeansEnd, Inv1, Typed, Inv2, Taken
<1> QED
  BY <1>5, <1>6, <1>7, <1>8 DEF Inv2

LEMMA NextInv2 == Undisturbed /\ Inv1 /\ Inv2 /\ [Next]_vars => Inv2'
<1> SUFFICES ASSUME Undisturbed, Inv1, Inv2, [Next]_vars PROVE Inv2'
  OBVIOUS
<1>1. CASE UNCHANGED vars
  BY <1>1 DEF vars, call, reply, dir, Inv2, Taken, RightEntries, Spoilt, Aligned, Loading, EmptyMeansEnd, Readable
<1> QED
  BY <1>1, BeginStep, CloseStep, ParseFailsStep, SkipStep, TakeStep, NoSpaceStep, NothingMoreStep,
     EndOfBufferStep, ReopenStep, ReuseStep, NoMemoryStep, ReadFailsStep, ReadStep DEF Next

LEMMA Inv2Holds == Undisturbed /\ Spec => []Inv2
<1> SUFFICES ASSUME Undisturbed PROVE Spec => []Inv2
  OBVIOUS
<1>1. Inv1 /\ Inv2 /\ [Next]_vars => Inv2'
  BY NextInv2
<1> QED
  BY <1>1, InitInv2, Inv1Holds, PTL DEF Spec

(* For a directory, blocks and requests of any size, a call returns the    *)
(* entries from the one asked for on, none left out and none twice,        *)
(* however earlier calls jumped and wherever refused reads and malformed   *)
(* entries left the buffer (S_dir_readdir).                                *)
THEOREM EntriesInOrder == Undisturbed /\ Spec => []RightEntries
<1>1. Inv2 => RightEntries
  BY DEF Inv2, Taken
<1> QED
  BY <1>1, Inv2Holds, PTL

(* Success without an entry means the end of the directory: a client that  *)
(* stops there has seen everything (S_dir_readdir).                        *)
THEOREM NoEarlyEnd == Undisturbed /\ Spec => []EmptyMeansEnd
<1>1. Inv2 => EmptyMeansEnd
  BY DEF Inv2
<1> QED
  BY <1>1, Inv2Holds, PTL

(* The core protocol's rule for reading directories is kept: a fid is read *)
(* from the start or from where its last read ended (can_reuse_io_fid).    *)
THEOREM OffsetsContinue == Undisturbed /\ Spec => []OffsetContinues
<1>1. Inv2 => OffsetContinues
  BY DEF Inv2, Loading, OffsetContinues
<1> QED
  BY <1>1, Inv2Holds, PTL
=============================================================================
