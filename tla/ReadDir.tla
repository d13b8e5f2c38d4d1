------------------------------ MODULE ReadDir ------------------------------
(***************************************************************************)
(* S_dir_readdir (dir-readdir.c): the calls on one protid of a directory,  *)
(* which hold the node lock and so follow one another.  The client names   *)
(* the entry it wants to start from; the server is read from a position,   *)
(* in blocks that are kept in a buffer from one call to the next.          *)
(*                                                                         *)
(* Entries are their indices 0 .. Entries - 1 in the server's directory    *)
(* (external), and positions too: in 9P2000.L the position of the entry    *)
(* that follows, which the server sends with each; in the core protocol    *)
(* the sum of the sizes of the entries before it, and a fid must be read   *)
(* from the start or from where its last read ended.                       *)
(***************************************************************************)
EXTENDS Integers, Sequences

CONSTANTS
  Entries,      \* how many entries the directory has
  Block,        \* how many of them the server sends at most
  RecLen,       \* the room each takes in the reply
  FirstEntries, \* the entries clients ask for: any int, the code checks none
  Counts,       \* how many they ask for, -1 for all; unchecked as well
  BufSizes,     \* the limits they set to the reply, 0 for none
  Versions,
  Faults,       \* what may fail: to "read", to "open", to "parse" an entry, memory
                \* for the "buffer" or for the "reply"
  Retried       \* after which failures clients go on with the same protid

ASSUME EntriesAssumption == Entries \in Nat /\ Block \in Nat \ {0} /\ RecLen \in [0 .. Entries - 1 -> Nat \ {0}]
ASSUME RequestsAssumption == FirstEntries \subseteq Int /\ Counts \subseteq Int /\ BufSizes \subseteq Nat
ASSUME FaultsAssumption ==
  /\ Versions \subseteq {"core", "L"}
  /\ Faults \subseteq {"read", "open", "parse", "buffer", "reply"}
  /\ Retried \subseteq Faults

Least(a, b) == IF a < b THEN a ELSE b

VARIABLES
  p9_version,
  pc,
  entry, nentries, bufsize,   \* of the call
  datacnt, amt,               \* what it has filled in
  next_entry, next_offset,    \* of the protid
  buffer, base,               \* its buffer: the entries remaining, and whether it is allocated
  io_fid,                     \* "none", "open", or "unopened" after a failed open
  position,                   \* of the fid at the server, in the core protocol
  err,
  asked,                      \* ghost: the entry the client asked for
  out                         \* ghost: the entries returned

call == <<entry, nentries, bufsize, asked>>
reply == <<datacnt, amt, err, out>>
dir == <<next_entry, next_offset, buffer, base>>
vars == <<p9_version, pc, call, reply, dir, io_fid, position>>

(* The protid may have been opened by the lookup that made it.             *)
Init ==
  /\ p9_version \in Versions
  /\ pc = "idle"
  /\ entry = 0 /\ nentries = 0 /\ bufsize = 0 /\ asked = 0
  /\ datacnt = 0 /\ amt = 0 /\ err = "none" /\ out = <<>>
  /\ next_entry = 0 /\ next_offset = 0 /\ buffer = <<>> /\ base = FALSE
  /\ io_fid \in {"none", "open"} /\ position = 0

(* Nobody goes on after a count below -1: if the call returned at all, the *)
(* positions it left behind may disagree.                                  *)
GoesOn == err \notin Faults \ Retried /\ nentries >= -1

Begin(e, n, b) ==
  /\ pc \in {"idle", "returned"} /\ GoesOn
  /\ entry' = e /\ nentries' = n /\ bufsize' = b /\ asked' = e
  /\ datacnt' = 0 /\ amt' = 0 /\ err' = "unset" /\ out' = <<>>
  /\ pc' = "parse"
  /\ UNCHANGED <<p9_version, dir, io_fid, position>>

(* The client has had enough; the next protid of the directory is new.     *)
Close ==
  /\ pc = "returned"
  /\ pc' = "idle"
  /\ entry' = 0 /\ nentries' = 0 /\ bufsize' = 0 /\ asked' = 0
  /\ datacnt' = 0 /\ amt' = 0 /\ err' = "none" /\ out' = <<>>
  /\ next_entry' = 0 /\ next_offset' = 0 /\ buffer' = <<>> /\ base' = FALSE
  /\ io_fid' \in {"none", "open"} /\ position' = 0
  /\ UNCHANGED p9_version

(***************************************************************************)
(* Look through the buffered data.                                         *)
(***************************************************************************)
LookingBack == buffer # <<>> /\ (amt < nentries \/ nentries = -1)
Looking == entry >= next_entry /\ buffer # <<>> /\ (amt < nentries \/ nentries = -1)

(* make_space                                                              *)
HasRoomNow(e) == bufsize = 0 \/ datacnt < bufsize
HasRoom(e) == bufsize = 0 \/ datacnt + RecLen[e] <= bufsize
HasSpace(e) == IF ~HasRoom(e) THEN {FALSE} ELSE IF "reply" \in Faults THEN BOOLEAN ELSE {TRUE}

(* In 9P2000.L parsing an entry moves next_offset, taken or not.           *)
Parsed == IF p9_version = "L" THEN Head(buffer) + 1 ELSE next_offset
Consumed == IF p9_version = "L" THEN Head(buffer) + 1 ELSE next_offset + 1

Consume ==
  /\ buffer' = Tail(buffer) /\ next_entry' = next_entry + 1 /\ next_offset' = Consumed
  /\ err' = "none" /\ UNCHANGED base

Fail(e) == err' = e /\ pc' = "returned"

(* Malformed, or no memory for its name; the entry stays in the buffer.    *)
ParseFails ==
  /\ pc = "parse" /\ Looking /\ "parse" \in Faults
  /\ next_offset' \in {next_offset, Parsed}
  /\ Fail("parse")
  /\ UNCHANGED <<p9_version, call, datacnt, amt, out, next_entry, buffer, base, io_fid, position>>

SkipEntry ==
  /\ pc = "parse" /\ Looking /\ entry > next_entry
  /\ Consume
  /\ UNCHANGED <<p9_version, pc, call, datacnt, amt, out, io_fid, position>>

TakeEntry ==
  /\ pc = "parse" /\ Looking /\ entry <= next_entry /\ TRUE \in HasSpace(Head(buffer))
  /\ Consume
  /\ datacnt' = datacnt + RecLen[Head(buffer)] /\ amt' = amt + 1 /\ entry' = entry + 1
  /\ out' = Append(out, Head(buffer))
  /\ UNCHANGED <<p9_version, pc, nentries, bufsize, asked, io_fid, position>>

NoSpace ==
  /\ pc = "parse" /\ Looking /\ entry <= next_entry /\ FALSE \in HasSpace(Head(buffer))
  /\ next_offset' = Parsed /\ err' = "none"
  /\ pc' = "parsed"
  /\ UNCHANGED <<p9_version, call, datacnt, amt, out, next_entry, buffer, base, io_fid, position>>

NothingMore ==
  /\ pc = "parse" /\ ~Looking
  /\ pc' = "parsed"
  /\ UNCHANGED <<p9_version, call, reply, dir, io_fid, position>>

(* An empty buffer is deallocated.  "If we managed to fill in some entries *)
(* (or none were requested in the first place), this is it."  A call that  *)
(* asks for none and does neither returns whatever err was.                *)
EndOfBuffer ==
  /\ pc = "parsed"
  /\ base' = (base /\ buffer # <<>>)
  /\ LET e == IF base /\ buffer = <<>> THEN "none" ELSE err IN
     IF amt > 0 \/ nentries = 0
       THEN pc' = "returned" /\ err' \in (IF e = "unset" THEN {"none", "garbage"} ELSE {e})
       ELSE pc' = "load" /\ err' = e
  /\ UNCHANGED <<p9_version, call, datacnt, amt, out, next_entry, next_offset, buffer, io_fid, position>>

(***************************************************************************)
(* Load more data from the server.                                         *)
(***************************************************************************)
CanReuseAny == io_fid # "none"
can_reuse_io_fid == io_fid # "none" /\ entry >= next_entry

(* A new fid starts from the beginning.  If the walk to it is refused,     *)
(* there is none, and if the open is, one that is not open.                *)
RewindEntry == next_entry' = 0 /\ UNCHANGED next_offset
Rewind == next_entry' = 0 /\ next_offset' = 0

Reopen ==
  /\ pc = "load" /\ ~can_reuse_io_fid
  /\ Rewind
  /\ \/ io_fid' = "open" /\ position' = 0 /\ pc' = "read" /\ UNCHANGED err
     \/ "open" \in Faults /\ io_fid' \in {"none", "unopened"} /\ position' = 0 /\ Fail("open")
  /\ UNCHANGED <<p9_version, call, datacnt, amt, out, buffer, base>>

Reuse ==
  /\ pc = "load" /\ can_reuse_io_fid
  /\ pc' = "read"
  /\ UNCHANGED <<p9_version, call, reply, dir, io_fid, position>>

NoMemory ==
  /\ pc = "read" /\ "buffer" \in Faults
  /\ Fail("buffer")
  /\ UNCHANGED <<p9_version, call, datacnt, amt, out, dir, io_fid, position>>

(* What the server answers: an error if the fid is not open or may not be  *)
(* read from there, else a block of entries, empty at the end only.        *)
Readable == io_fid = "open" /\ (p9_version = "L" \/ next_offset \in {0, position})

ReadFails ==
  /\ pc = "read" /\ (~Readable \/ "read" \in Faults)
  /\ buffer' = <<>> /\ base' = FALSE
  /\ Fail("read")
  /\ UNCHANGED <<p9_version, call, datacnt, amt, out, next_entry, next_offset, io_fid, position>>

Read ==
  /\ pc = "read" /\ Readable
  /\ \E n \in 0 .. Least(Block, Entries - next_offset) :
       /\ n = 0 => next_offset = Entries
       /\ buffer' = [k \in 1 .. n |-> next_offset + k - 1]
       /\ base' = (n > 0)
       /\ position' = next_offset + n
       /\ pc' = (IF n = 0 THEN "returned" ELSE "parse") /\ err' = "none"
  /\ UNCHANGED <<p9_version, call, datacnt, amt, out, next_entry, next_offset, io_fid>>

Next ==
  \/ \E e \in FirstEntries, n \in Counts, b \in BufSizes : Begin(e, n, b)
  \/ Close \/ ParseFails \/ SkipEntry \/ TakeEntry \/ NoSpace \/ NothingMore \/ EndOfBuffer
  \/ Reopen \/ Reuse \/ NoMemory \/ ReadFails \/ Read

Fairness ==
  /\ WF_vars(ParseFails \/ SkipEntry \/ TakeEntry \/ NoSpace \/ NothingMore \/ EndOfBuffer)
  /\ WF_vars(Reopen \/ Reuse \/ NoMemory \/ ReadFails \/ Read)
Spec == Init /\ [][Next]_vars /\ Fairness

(***************************************************************************)
(* What is to hold.                                                        *)
(***************************************************************************)
(* Every variable has its type; the protid's positions are in the          *)
(* directory.                                                              *)
TypeOK ==
  /\ p9_version \in {"core", "L"}
  /\ pc \in {"idle", "parse", "parsed", "load", "read", "returned"}
  /\ entry \in Int /\ nentries \in Int /\ bufsize \in BufSizes \cup {0}
  /\ datacnt \in Nat /\ amt \in Nat /\ err \in {"unset", "none", "garbage", "read", "open", "parse", "buffer", "reply"}
  /\ next_entry \in 0 .. Entries /\ next_offset \in 0 .. Entries
  /\ buffer \in Seq(0 .. Entries - 1) /\ base \in BOOLEAN
  /\ io_fid \in {"none", "open", "unopened"} /\ position \in 0 .. Entries

(* A call returns the entries from the one asked for on, in order, none    *)
(* left out and none twice, whatever calls came before: however the client *)
(* jumps, and wherever it left the buffer.                                 *)
RightEntries == \A k \in 1 .. Len(out) : out[k] = asked + k - 1

(* A call that succeeds without an entry, though some were wanted, asked   *)
(* for entries beyond the end of the directory.                            *)
Wanted == nentries > 0 \/ nentries = -1
EmptyMeansEnd ==
  pc = "returned" /\ err = "none" /\ amt = 0 /\ Wanted => \A e \in 0 .. Entries - 1 : e < asked

(* The reply stays within the limits of the client.                        *)
WithinLimits ==
  /\ bufsize # 0 => datacnt <= bufsize
  /\ nentries >= 0 => amt <= nentries

(* The server has no reason to refuse a read: its fid is open, and in the  *)
(* core protocol it is read from the start or from where its last read     *)
(* ended, however many entries of that block the client has seen.  Only a  *)
(* call for fewer than -1 entries reads from elsewhere.                    *)
OffsetContinues == pc = "read" /\ Wanted => Readable

(* A request that the loop can satisfy: its first entry is not negative    *)
(* ("entry >= next_entry" fails after every rewind), its count not below   *)
(* -1 ("amt < nentries" never holds), and there is room for any one entry. *)
(* For any other the code may load the same block over and over, with the  *)
(* node locked.                                                            *)
Sensible ==
  /\ asked >= 0 /\ nentries >= -1
  /\ bufsize # 0 => \A e \in 0 .. Entries - 1 : RecLen[e] <= bufsize

(* A call with a sensible request returns, whatever calls came before it   *)
(* and whatever fails.                                                     *)
CallsReturn == (pc = "parse" /\ Sensible) ~> pc = "returned"
=============================================================================
