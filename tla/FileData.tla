------------------------------ MODULE FileData ------------------------------
(***************************************************************************)
(* The data and attributes of one open file: io_read, io_write and io_seek *)
(* with the offset the protids of a peropen share, the limits on what one  *)
(* message carries, the open modes, and the attributes that io_stat caches *)
(* for a while.  (How the fids get opened is the subject of OpenFiles;     *)
(* here opening may fail, and may lower the limit of the node.)            *)
(*                                                                         *)
(* Threads serve calls.  io_read, io_write, io_seek and the open mode      *)
(* calls hold the node lock; io_stat and the calls that set attributes do  *)
(* not.  The server (external) keeps a file that other clients change too. *)
(* Time passes, in seconds.                                                *)
(***************************************************************************)
EXTENDS Integers

CONSTANTS
  Threads,
  ReadOnly,       \* the values of the option p9_readonly
  Limits,         \* message size limits: p9_max_message_size
  Iounits,        \* what the server tells when a file is opened
  Word,           \* sizes are computed modulo Word (2^32)
  Inline,         \* room for data in a reply without allocating memory
  Counts,         \* the amounts clients ask for
  Faults,         \* "refuse" a request, "nomem", "overreport" what was written
  StatTime,       \* how many seconds attributes are cached
  Latency,        \* how many seconds a reply may take
  StatOverlaps,   \* may a client call io_stat and change the file at once?
  MaxCalls, MaxRivals, MaxTime

ASSUME SizesAssumption ==
  /\ Word \in Nat /\ Inline \in Nat /\ Counts \subseteq Nat \ {0}
  /\ Limits \subseteq 24 .. Word - 1 /\ Iounits \subseteq 0 .. Word - 1
ASSUME FaultsAssumption == ReadOnly \subseteq BOOLEAN /\ Faults \subseteq {"refuse", "nomem", "overreport"}
ASSUME TimeAssumption == StatTime \in Nat /\ Latency \in Nat /\ StatOverlaps \in BOOLEAN
ASSUME BoundsAssumption == MaxCalls \in Nat /\ MaxRivals \in Nat /\ MaxTime \in Nat

None == "none"
ASSUME NoneAssumption == None \notin Threads

HONORED_STATE_MODES == {"append", "nonblock"}
Access == {"read", "write"}
Whence == {"set", "cur", "end"}

VARIABLES
  calls, pc,
  call,                  \* a thread's call: what was asked for, and its local variables
  lock,
  offset,                \* of the peropen
  user_open_flags, p9_readonly,
  p9_max_message_size,   \* of the connection
  max_message_size,      \* of the node
  iounit,
  stat, last_stat,       \* the node's cached attributes, in two parts, and when they were stored
  size,                  \* of the server's file
  version,               \* ghost: how often this client has changed it
  rivals, now,
  last,                  \* ghost: where the last transfer at the shared offset ended, -1 after a seek
  gap                    \* ghost: a transfer did not start there

thread == <<calls, pc, call>>
position == <<offset, last, gap>>
cache == <<stat, last_stat>>
file == <<size, version>>
fixed == <<p9_readonly, p9_max_message_size, iounit>>
vars == <<fixed, thread, lock, position, max_message_size, user_open_flags, cache, file, rivals, now>>

(* Attributes: the size, and (ghosts) the version and the time they show.  *)
NoAttributes == [size |-> 0, version |-> 0, at |-> 0]
NoCall == [op |-> None]

(* io_stat stores field by field: up to st_size, and from there on.        *)
Parts == {"mode", "size"}
Storing == Parts \cup {"stamp"}

(* Far enough from the epoch that attributes never fetched are too old.    *)
Init ==
  /\ calls = 0 /\ pc = [t \in Threads |-> "idle"] /\ call = [t \in Threads |-> NoCall]
  /\ lock = None
  /\ offset = 0 /\ last = -1 /\ gap = FALSE
  /\ p9_readonly \in ReadOnly /\ user_open_flags \in {{"read"}, Access}
  /\ p9_max_message_size \in Limits /\ max_message_size = p9_max_message_size /\ iounit \in Iounits
  /\ stat = [part \in Parts |-> NoAttributes] /\ last_stat = 0 /\ now = StatTime + 1
  /\ size = 2 /\ version = 0 /\ rivals = 0

(***************************************************************************)
(* The server (external), other clients, and time.                         *)
(***************************************************************************)
Change(newsize) == size' = newsize /\ version' = version + 1

Rival ==
  /\ rivals < MaxRivals /\ rivals' = rivals + 1
  /\ \E n \in {0, 3} : size' = n
  /\ UNCHANGED <<fixed, thread, lock, position, max_message_size, user_open_flags, cache, version, now>>

(* A reply is stored no later than Latency after it was sent.              *)
Tick ==
  /\ now < MaxTime /\ now' = now + 1
  /\ \A t \in Threads : pc[t] \in Storing => now - call[t].sample.at < Latency
  /\ UNCHANGED <<fixed, thread, lock, position, max_message_size, user_open_flags, cache, file, rivals>>

(***************************************************************************)
(* Calls.                                                                  *)
(***************************************************************************)
Changes == {"write", "file_set_size", "file_chmod", "file_utimes", "file_utimens"}

(* Unless StatOverlaps, a client waits for one before the other.           *)
Overlapping(op) ==
  \E t \in Threads : \/ op = "stat" /\ call[t].op \in Changes
                     \/ op \in Changes /\ call[t].op = "stat"

Begin(t, c, label) ==
  /\ pc[t] = "idle" /\ calls < MaxCalls
  /\ StatOverlaps \/ ~Overlapping(c.op)
  /\ calls' = calls + 1
  /\ pc' = [pc EXCEPT ![t] = label] /\ call' = [call EXCEPT ![t] = c]

At(t, label) == pc[t] = label
Goto(t, label, c) == pc' = [pc EXCEPT ![t] = label] /\ call' = [call EXCEPT ![t] = c] /\ UNCHANGED calls
Return(t) == Goto(t, "idle", NoCall)

(***************************************************************************)
(* io_read and io_write.                                                   *)
(***************************************************************************)
(* What fits in one message beside its header; the code computes it in     *)
(* unsigned integers.                                                      *)
CapTight(n) ==
  LET most == (max_message_size - 25) % Word IN IF n > most THEN most ELSE n
Cap(n) ==
  LET most == (max_message_size - 24) % Word IN IF n > most THEN most ELSE n

(* A read's buffer is chosen before the lock is taken: inline if the       *)
(* amount fits, else allocated; without memory the amount is what fits     *)
(* inline.                                                                 *)
BuffersAsked(amount) ==
  {[room |-> amount, n |-> amount], [room |-> Inline, n |-> amount]}
Buffers(amount) ==
  IF amount <= Inline THEN {[room |-> Inline, n |-> amount]}
  ELSE {[room |-> amount, n |-> amount]}
         \cup (IF "nomem" \in Faults THEN {[room |-> Inline, n |-> Inline]} ELSE {})

BeginRead(t, where, amount) ==
  /\ "read" \in user_open_flags
  /\ \E b \in Buffers(Cap(amount)) :
       Begin(t, [op |-> "read", where |-> where, room |-> b.room, n |-> b.n], "lock")
  /\ UNCHANGED <<fixed, lock, position, max_message_size, user_open_flags, cache, file, rivals, now>>

BeginWrite(t, where, datalen) ==
  /\ "write" \in user_open_flags /\ ~p9_readonly
  /\ Begin(t, [op |-> "write", where |-> where, room |-> 0, n |-> datalen], "lock")
  /\ UNCHANGED <<fixed, lock, position, max_message_size, user_open_flags, cache, file, rivals, now>>

LockUnchecked == TRUE
Lock == lock = None
Unlock == lock' = None

(* p9_ensure_open: "Some servers are known to send a 0 iounit; ignore it." *)
Lowered == IF iounit > 0 /\ iounit < max_message_size THEN iounit ELSE max_message_size

(* With the lock the file is opened if need be ...                         *)
Open(t) ==
  /\ At(t, "lock") /\ Lock /\ lock' = t
  /\ max_message_size' \in {max_message_size, Lowered}
  /\ Goto(t, "opened", call[t])
  /\ UNCHANGED <<fixed, position, user_open_flags, cache, file, rivals, now>>

OpenFailed(t) ==
  /\ "refuse" \in Faults /\ At(t, "opened")
  /\ Unlock /\ Return(t)
  /\ UNCHANGED <<fixed, position, max_message_size, user_open_flags, cache, file, rivals, now>>

(* ... the amount is capped again, and the request says where it starts.   *)
(* A write invalidates the cached attributes first.                        *)
RequestUncapped(t) ==
  /\ At(t, "opened")
  /\ LET c == call[t]
         from == IF c.where = -1 THEN offset ELSE c.where
     IN  Goto(t, "request", [op |-> c.op, where |-> c.where, room |-> c.room, n |-> c.n, start |-> from])
  /\ last_stat' = IF call[t].op = "write" THEN 0 ELSE last_stat
  /\ UNCHANGED <<fixed, lock, position, max_message_size, user_open_flags, stat, file, rivals, now>>
Request(t) ==
  /\ At(t, "opened")
  /\ LET c == call[t]
         from == IF c.where = -1 THEN offset ELSE c.where
     IN  Goto(t, "request", [op |-> c.op, where |-> c.where, room |-> c.room, n |-> Cap(c.n), start |-> from])
  /\ last_stat' = IF call[t].op = "write" THEN 0 ELSE last_stat
  /\ UNCHANGED <<fixed, lock, position, max_message_size, user_open_flags, stat, file, rivals, now>>

(* A transfer at the shared offset moves it, by what was transferred.      *)
MoveBy(t, n) == offset' = offset + n

Moved(t, n) ==
  IF call[t].where # -1 THEN UNCHANGED position
  ELSE /\ MoveBy(t, n)
       /\ last' = call[t].start + n
       /\ gap' = (gap \/ (last # -1 /\ last # call[t].start))

Refused(t) ==
  /\ "refuse" \in Faults /\ At(t, "request")
  /\ Unlock /\ Return(t)
  /\ UNCHANGED <<fixed, position, max_message_size, user_open_flags, cache, file, rivals, now>>

(* A read that starts within the file returns something, but no more than  *)
(* there is.                                                               *)
ReadReply(t) ==
  /\ At(t, "request") /\ call[t].op = "read"
  /\ \E n \in 0 .. call[t].n :
       /\ n > 0 => call[t].start + n <= size
       /\ n = 0 => call[t].n = 0 \/ call[t].start >= size
       /\ Moved(t, n)
  /\ Unlock /\ Return(t)
  /\ UNCHANGED <<fixed, max_message_size, user_open_flags, cache, file, rivals, now>>

(* A server that reports more than it was sent makes the call return      *)
(* EIO with the lock held.                                                 *)
WriteReply(t) ==
  /\ At(t, "request") /\ call[t].op = "write"
  /\ \E n \in 0 .. call[t].n + (IF "overreport" \in Faults THEN 1 ELSE 0) :
       /\ n = 0 => call[t].n = 0
       /\ Change(IF call[t].start + n > size THEN call[t].start + n ELSE size)
       /\ IF n > call[t].n THEN UNCHANGED <<position, lock>> ELSE Moved(t, n) /\ Unlock
  /\ Return(t)
  /\ UNCHANGED <<fixed, max_message_size, user_open_flags, cache, rivals, now>>

(***************************************************************************)
(* io_seek and the open modes: one step each, under the lock.              *)
(***************************************************************************)
Briefly(t) == lock = None /\ pc[t] = "idle" /\ calls < MaxCalls /\ calls' = calls + 1

SeekTo(whence, n) ==
  CASE whence = "set" -> n [] whence = "cur" -> offset + n [] whence = "end" -> stat["size"].size + n

(* A negative result is no error, but the offset stays.                    *)
GoodOffset(n) == n >= 0

Seek(t, whence, n) ==
  /\ Briefly(t)
  /\ IF GoodOffset(SeekTo(whence, n)) THEN offset' = SeekTo(whence, n) /\ last' = -1
                                      ELSE UNCHANGED <<offset, last>>
  /\ UNCHANGED <<fixed, pc, call, lock, gap, max_message_size, user_open_flags, cache, file, rivals, now>>

SetSome(flags, bits) == flags \cup (bits \cap HONORED_STATE_MODES)
ClearSome(flags, bits) == flags \ (bits \cap HONORED_STATE_MODES)
SetAll(flags, bits) == (flags \ HONORED_STATE_MODES) \cup (bits \cap HONORED_STATE_MODES)

SetOpenmodes(t, bits) ==
  /\ Briefly(t)
  /\ \/ user_open_flags' = SetSome(user_open_flags, bits)
     \/ user_open_flags' = ClearSome(user_open_flags, bits)
     \/ user_open_flags' = SetAll(user_open_flags, bits)
  /\ UNCHANGED <<fixed, pc, call, lock, position, max_message_size, cache, file, rivals, now>>

(***************************************************************************)
(* io_stat (and io_identity, which calls it).                              *)
(***************************************************************************)
(* "Cache stats for up to 5 seconds."  A cached answer changes nothing.    *)
CachedLonger == now <= last_stat + StatTime + 1
Cached == now <= last_stat + StatTime

BeginStat(t) ==
  /\ ~Cached
  /\ Begin(t, [op |-> "stat"], "fetch")
  /\ UNCHANGED <<fixed, lock, position, max_message_size, user_open_flags, cache, file, rivals, now>>

(* Tgetattr or Tstat: the server answers with the attributes of now.       *)
Fetch(t) ==
  /\ At(t, "fetch")
  /\ Goto(t, "mode", [op |-> "stat", sample |-> [size |-> size, version |-> version, at |-> now]])
  /\ UNCHANGED <<fixed, lock, position, max_message_size, user_open_flags, cache, file, rivals, now>>

FetchRefused(t) ==
  /\ "refuse" \in Faults /\ At(t, "fetch")
  /\ Return(t)
  /\ UNCHANGED <<fixed, lock, position, max_message_size, user_open_flags, cache, file, rivals, now>>

(* The reply is stored in the node, without a lock, part after part, and   *)
(* then the time.                                                          *)
Store(t, part) ==
  /\ At(t, part)
  /\ stat' = [stat EXCEPT ![part] = call[t].sample]
  /\ Goto(t, IF part = "mode" THEN "size" ELSE "stamp", call[t])
  /\ UNCHANGED <<fixed, lock, position, max_message_size, user_open_flags, last_stat, file, rivals, now>>

Stamp(t) ==
  /\ At(t, "stamp")
  /\ last_stat' = now
  /\ Return(t)
  /\ UNCHANGED <<fixed, lock, position, max_message_size, user_open_flags, stat, file, rivals, now>>

(***************************************************************************)
(* file_set_size, file_chmod, file_utimes and file_utimens.                *)
(***************************************************************************)
Kept == last_stat
Invalidated == 0

(* The cached attributes are invalidated before the request is made.  In   *)
(* the core protocol file_chmod then refuses.                              *)
BeginSet(t, c) ==
  /\ ~p9_readonly
  /\ Begin(t, c, "set")
  /\ last_stat' = Invalidated
  /\ UNCHANGED <<fixed, lock, position, max_message_size, user_open_flags, stat, file, rivals, now>>

file_set_size(t, n) == n >= 0 /\ "write" \in user_open_flags /\ BeginSet(t, [op |-> "file_set_size", n |-> n])
file_chmod(t) == BeginSet(t, [op |-> "file_chmod"])
file_utimes(t) == BeginSet(t, [op |-> "file_utimes"])
file_utimens(t) == BeginSet(t, [op |-> "file_utimens"])

Set(t) ==
  /\ At(t, "set")
  /\ Change(IF call[t].op = "file_set_size" THEN call[t].n ELSE size)
  /\ Return(t)
  /\ UNCHANGED <<fixed, lock, position, max_message_size, user_open_flags, cache, rivals, now>>

SetRefused(t) ==
  /\ "refuse" \in Faults /\ At(t, "set")
  /\ Return(t)
  /\ UNCHANGED <<fixed, lock, position, max_message_size, user_open_flags, cache, file, rivals, now>>

(***************************************************************************)
(* The specification.                                                      *)
(***************************************************************************)
Step(t) ==
  \/ Open(t) \/ OpenFailed(t) \/ Request(t) \/ Refused(t)
  \/ ReadReply(t) \/ WriteReply(t)
  \/ Fetch(t) \/ FetchRefused(t) \/ (\E part \in Parts : Store(t, part)) \/ Stamp(t)
  \/ Set(t) \/ SetRefused(t)

NewCall(t) ==
  \/ \E where \in {-1, 1}, n \in Counts : BeginRead(t, where, n) \/ BeginWrite(t, where, n)
  \/ \E whence \in Whence, n \in {-1, 1} : Seek(t, whence, n)
  \/ \E bits \in SUBSET (Access \cup {"append"}) : SetOpenmodes(t, bits)
  \/ BeginStat(t)
  \/ file_set_size(t, 0) \/ file_chmod(t) \/ file_utimes(t) \/ file_utimens(t)

Next == (\E t \in Threads : Step(t) \/ NewCall(t)) \/ Rival \/ Tick

Spec == Init /\ [][Next]_vars

(***************************************************************************)
(* What is to hold.                                                        *)
(***************************************************************************)
(* Every variable has its type; no seek makes the offset negative.         *)
TypeOK ==
  /\ calls \in 0 .. MaxCalls /\ lock \in Threads \cup {None}
  /\ pc \in [Threads -> {"idle", "lock", "opened", "request", "fetch", "set"} \cup Storing]
  /\ offset \in Nat /\ user_open_flags \subseteq Access \cup HONORED_STATE_MODES
  /\ max_message_size \in 1 .. p9_max_message_size
  /\ stat \in [Parts -> [size : Nat, version : Nat, at : Nat]] /\ last_stat \in Nat
  /\ size \in Nat /\ version \in Nat

(* Reads and writes at the shared offset, of any threads, follow each      *)
(* other without a gap and without an overlap: each starts where the last  *)
(* one's data ended (io_read, io_write: the offset is read and moved under *)
(* the lock).                                                              *)
SequentialAccess == ~gap

(* A request with its data, and the reply with the data asked for, fit in  *)
(* a message of the size the server told when the file was opened, though  *)
(* another call opens it, and so lowers the node's limit, after this one   *)
(* has capped its amount and while it waits for the lock.                  *)
FitsMessage == \A t \in Threads : At(t, "request") => 23 + call[t].n <= max_message_size

(* The data asked for fits in the buffer chosen before the lock was taken. *)
BufferFits ==
  \A t \in Threads : At(t, "request") /\ call[t].op = "read" => call[t].n <= call[t].room

(* Whoever wants data asks for some: no read ends the file early, and no   *)
(* write is cut to nothing.                                                *)
NeverEmpty == Inline > 0 => \A t \in Threads : At(t, "request") => call[t].n > 0

(* Attributes that io_stat answers from the cache were current not longer  *)
(* ago than the cache time and the delay of two replies, whoever changes   *)
(* the file, however replies are overtaken and though two io_stats store   *)
(* at once: the attributes of the one that stamps the cache may have been  *)
(* overwritten with older ones (io_stat).                                  *)
StatFresh == Cached => \A part \in Parts : now - stat[part].at <= StatTime + 2 * Latency

(* Once a call that changed the file has returned, io_stat shows the       *)
(* change, if no client overlaps the two.                                  *)
ReadYourChanges == Cached /\ ~Overlapping("stat") => \A part \in Parts : stat[part].version = version

=============================================================================
