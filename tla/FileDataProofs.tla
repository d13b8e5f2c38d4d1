--------------------------- MODULE FileDataProofs ---------------------------
(***************************************************************************)
(* Proofs about FileData, for any threads, limits, amounts and faults.     *)
(***************************************************************************)
EXTENDS FileData, TLAPS

Labels == {"idle", "lock", "opened", "request", "fetch", "mode", "size", "stamp", "set"}
Transferring == {"lock", "opened", "request"}
Holding == {"opened", "request"}

(* The limits are sizes.                                                   *)
Sized ==
  /\ p9_max_message_size \in Limits /\ iounit \in Iounits
  /\ max_message_size \in Nat

(* Who transfers knows how much; a read asks for no more than its buffer   *)
(* holds.                                                                  *)
Amounts ==
  /\ pc \in [Threads -> Labels] /\ DOMAIN call = Threads
  /\ \A t \in Threads :
       pc[t] \in Transferring =>
         /\ call[t].op \in {"read", "write"} /\ call[t].n \in Int /\ call[t].room \in Int
         /\ call[t].op = "read" => call[t].n <= call[t].room

(* From the moment the file is opened to the reply the lock is held: no    *)
(* two threads are there at once.                                          *)
Locked == \A t \in Threads : pc[t] \in Holding => lock = t

(* The shared offset is where the last transfer ended, and where the       *)
(* transfer under way starts.                                              *)
Follows ==
  /\ ~gap
  /\ last # -1 => last = offset
  /\ \A t \in Threads : pc[t] = "request" /\ call[t].where = -1 => call[t].start = offset

Inv == Sized /\ Amounts /\ Locked /\ Follows

(* Capping never asks for more.                                            *)
LEMMA CapLowers ==
  ASSUME Sized, NEW n \in Int
  PROVE  Cap(n) \in Int /\ Cap(n) <= n
<1>1. Word \in Nat /\ Word > 0 /\ max_message_size - 24 \in Int
  BY SizesAssumption DEF Sized
<1>2. (max_message_size - 24) % Word \in Int
  BY <1>1
<1> QED
  BY <1>2 DEF Cap

(* No thread holds the lock that is free.                                  *)
LEMMA NobodyHolds ==
  ASSUME Locked, lock = None, NEW t \in Threads
  PROVE  pc[t] \notin Holding
BY NoneAssumption DEF Locked

LEMMA InitInv == Init => Inv
BY SizesAssumption DEF Init, Inv, Sized, Amounts, Locked, Follows, Labels, Transferring, Holding

(* A call begins.                                                          *)
LEMMA BeginStep ==
  ASSUME Inv, NEW t \in Threads, NEW c, NEW label \in Labels \ Holding, Begin(t, c, label),
         label = "lock" => /\ c.op \in {"read", "write"} /\ c.n \in Int /\ c.room \in Int
                           /\ c.op = "read" => c.n <= c.room,
         UNCHANGED <<fixed, lock, position, max_message_size>>
  PROVE  Inv'
<1>1. Sized'
  BY DEF Inv, Sized, fixed
<1>2. Amounts'
  BY DEF Inv, Amounts, Begin, Labels, Transferring, Holding
<1>3. Locked'
  BY DEF Inv, Amounts, Locked, Begin, Holding
<1>4. Follows'
  BY DEF Inv, Amounts, Follows, Begin, Holding, position
<1> QED
  BY <1>1, <1>2, <1>3, <1>4 DEF Inv

LEMMA BeginReadStep ==
  ASSUME Inv, NEW t \in Threads, NEW where \in {-1, 1}, NEW amount \in Counts, BeginRead(t, where, amount)
  PROVE  Inv'
<1>1. Cap(amount) \in Int
  BY CapLowers, SizesAssumption DEF Inv
<1>2. PICK b \in Buffers(Cap(amount)) :
        Begin(t, [op |-> "read", where |-> where, room |-> b.room, n |-> b.n], "lock")
  BY DEF BeginRead
<1>3. b.room \in Int /\ b.n \in Int /\ b.n <= b.room
  BY <1>1, <1>2, SizesAssumption DEF Buffers
<1>4. UNCHANGED <<fixed, lock, position, max_message_size>>
  BY DEF BeginRead
<1> DEFINE c == [op |-> "read", where |-> where, room |-> b.room, n |-> b.n]
<1>5. c.op = "read" /\ c.n \in Int /\ c.room \in Int /\ c.n <= c.room
  BY <1>3
<1>6. "lock" \in Labels \ Holding
  BY DEF Labels, Holding
<1>7. Begin(t, c, "lock")
  BY <1>2
<1> HIDE DEF c
<1> QED
  BY <1>4, <1>5, <1>6, <1>7, BeginStep

LEMMA BeginWriteStep ==
  ASSUME Inv, NEW t \in Threads, NEW where \in {-1, 1}, NEW datalen \in Counts, BeginWrite(t, where, datalen)
  PROVE  Inv'
<1> DEFINE c == [op |-> "write", where |-> where, room |-> 0, n |-> datalen]
<1>1. c.op = "write" /\ c.n \in Int /\ c.room \in Int
  BY SizesAssumption
<1>2. Begin(t, c, "lock") /\ UNCHANGED <<fixed, lock, position, max_message_size>>
  BY DEF BeginWrite
<1>3. "lock" \in Labels \ Holding
  BY DEF Labels, Holding
<1> HIDE DEF c
<1> QED
  BY <1>1, <1>2, <1>3, BeginStep

(* The other calls that take several steps.                                *)
LEMMA BeginOtherStep ==
  ASSUME Inv, NEW t \in Threads,
         BeginStat(t) \/ file_set_size(t, 0) \/ file_chmod(t) \/ file_utimes(t) \/ file_utimens(t)
  PROVE  Inv'
<1>1. "fetch" \in Labels \ Holding /\ "set" \in Labels \ Holding
  BY DEF Labels, Holding
<1>2. UNCHANGED <<fixed, lock, position, max_message_size>>
  BY DEF BeginStat, file_set_size, file_chmod, file_utimes, file_utimens, BeginSet
<1>3. \/ Begin(t, [op |-> "stat"], "fetch")
      \/ Begin(t, [op |-> "file_set_size", n |-> 0], "set")
      \/ Begin(t, [op |-> "file_chmod"], "set")
      \/ Begin(t, [op |-> "file_utimes"], "set")
      \/ Begin(t, [op |-> "file_utimens"], "set")
  BY DEF BeginStat, file_set_size, file_chmod, file_utimes, file_utimens, BeginSet
<1>4. ASSUME NEW c, NEW label \in {"fetch", "set"}, Begin(t, c, label) PROVE Inv'
  BY <1>1, <1>2, <1>4, BeginStep
<1> QED
  BY <1>3, <1>4

(* A call takes a step or returns, and leaves the offset alone.            *)
LEMMA QuietStep ==
  ASSUME Inv, NEW t \in Threads, NEW c, NEW label \in Labels \ Transferring, Goto(t, label, c),
         UNCHANGED <<fixed, position, max_message_size>>,
         lock' = lock \/ (lock = t /\ lock' = None)
  PROVE  Inv'
<1>1. Sized'
  BY DEF Inv, Sized, fixed
<1>2. Amounts'
  BY DEF Inv, Amounts, Goto, Labels, Transferring
<1>3. Locked'
  BY NoneAssumption DEF Inv, Amounts, Locked, Goto, Transferring, Holding
<1>4. Follows'
  BY DEF Inv, Amounts, Follows, Goto, Transferring, position
<1> QED
  BY <1>1, <1>2, <1>3, <1>4 DEF Inv

LEMMA ReturnQuietStep ==
  ASSUME Inv, NEW t \in Threads, OpenFailed(t) \/ Refused(t)
  PROVE  Inv'
<1>1. lock = t /\ lock' = None
  BY DEF OpenFailed, Refused, At, Unlock, Inv, Locked, Holding
<1>2. Goto(t, "idle", NoCall) /\ UNCHANGED <<fixed, position, max_message_size>>
  BY DEF OpenFailed, Refused, Return
<1>3. "idle" \in Labels \ Transferring
  BY DEF Labels, Transferring
<1> QED
  BY <1>1, <1>2, <1>3, QuietStep

LEMMA OutsideStep ==
  ASSUME Inv, NEW t \in Threads,
         Fetch(t) \/ FetchRefused(t) \/ (\E part \in Parts : Store(t, part)) \/ Stamp(t) \/ Set(t) \/ SetRefused(t)
  PROVE  Inv'
<1>1. lock' = lock /\ UNCHANGED <<fixed, position, max_message_size>>
  BY DEF Fetch, FetchRefused, Store, Stamp, Set, SetRefused
<1>2. \/ Goto(t, "mode", [op |-> "stat", sample |-> [size |-> size, version |-> version, at |-> now]])
      \/ Goto(t, "size", call[t])
      \/ Goto(t, "stamp", call[t])
      \/ Goto(t, "idle", NoCall)
  BY DEF Fetch, FetchRefused, Store, Stamp, Set, SetRefused, Return
<1>3. {"idle", "mode", "size", "stamp"} \subseteq Labels \ Transferring
  BY DEF Labels, Transferring
<1>4. ASSUME NEW c, NEW label \in {"idle", "mode", "size", "stamp"}, Goto(t, label, c) PROVE Inv'
  BY <1>1, <1>3, <1>4, QuietStep
<1> QED
  BY <1>2, <1>4

LEMMA OpenStep ==
  ASSUME Inv, NEW t \in Threads, Open(t)
  PROVE  Inv'
<1>1. lock = None /\ lock' = t /\ Goto(t, "opened", call[t]) /\ pc[t] = "lock"
  BY DEF Open, Lock, At
<1>2. Sized'
  BY SizesAssumption DEF Inv, Sized, Open, Lowered, fixed
<1>3. Amounts'
  BY <1>1 DEF Inv, Amounts, Goto, Labels, Transferring
<1>4. Locked'
  BY <1>1, NobodyHolds DEF Inv, Amounts, Locked, Goto, Holding
<1>5. Follows'
  BY <1>1 DEF Inv, Amounts, Follows, Goto, Open, position
<1> QED
  BY <1>2, <1>3, <1>4, <1>5 DEF Inv

(* The second cap lowers the amount further, and the start is the offset.  *)
LEMMA RequestStep ==
  ASSUME Inv, NEW t \in Threads, Request(t)
  PROVE  Inv'
<1> DEFINE from == IF call[t].where = -1 THEN offset ELSE call[t].where
           c == [op |-> call[t].op, where |-> call[t].where, room |-> call[t].room,
                 n |-> Cap(call[t].n), start |-> from]
<1>1. Goto(t, "request", c) /\ pc[t] = "opened"
  BY DEF Request, At
<1>2. UNCHANGED <<fixed, lock, position, max_message_size>>
  BY DEF Request
<1>3. /\ call[t].op \in {"read", "write"} /\ call[t].n \in Int /\ call[t].room \in Int
      /\ call[t].op = "read" => call[t].n <= call[t].room
  BY <1>1 DEF Inv, Amounts, Transferring
<1>4. Cap(call[t].n) \in Int /\ Cap(call[t].n) <= call[t].n
  BY <1>3, CapLowers DEF Inv
<1>5. /\ c.op \in {"read", "write"} /\ c.n \in Int /\ c.room \in Int
      /\ c.op = "read" => c.n <= c.room
  BY <1>3, <1>4
<1>6. c.where = -1 => c.start = offset
  OBVIOUS
<1> HIDE DEF c
<1>7. Sized'
  BY <1>2 DEF Inv, Sized, fixed
<1>8. Amounts'
  BY <1>1, <1>5 DEF Inv, Amounts, Goto, Labels, Transferring
<1>9. Locked'
  BY <1>1, <1>2 DEF Inv, Amounts, Locked, Goto, Holding
<1>10. Follows'
  BY <1>1, <1>2, <1>6 DEF Inv, Amounts, Follows, Goto, position
<1> QED
  BY <1>7, <1>8, <1>9, <1>10 DEF Inv

(* A reply moves the offset and gives the lock back, or, when the server   *)
(* has reported too much, does neither.                                    *)
LEMMA ReplyStep ==
  ASSUME Inv, NEW t \in Threads, ReadReply(t) \/ WriteReply(t)
  PROVE  Inv'
<1>1. pc[t] = "request" /\ lock = t
  BY DEF ReadReply, WriteReply, At, Inv, Locked, Holding
<1>2. Goto(t, "idle", NoCall) /\ UNCHANGED <<fixed, max_message_size>>
  BY DEF ReadReply, WriteReply, Return
<1>3. CASE UNCHANGED <<position, lock>>
  <2>1. "idle" \in Labels \ Transferring
    BY DEF Labels, Transferring
  <2> QED
    BY <1>2, <1>3, <2>1, QuietStep
<1>4. ASSUME NEW n, Moved(t, n), lock' = None PROVE Inv'
  <2>1. Sized'
    BY <1>2 DEF Inv, Sized, fixed
  <2>2. Amounts'
    BY <1>2 DEF Inv, Amounts, Goto, Labels, Transferring
  <2>3. \A u \in Threads : pc'[u] \notin Holding
    BY <1>1, <1>2 DEF Inv, Amounts, Locked, Goto, Holding
  <2>4. Locked'
    BY <2>3 DEF Locked
  <2>5. ~gap' /\ (last' # -1 => last' = offset')
    BY <1>1, <1>4 DEF Inv, Follows, Moved, MoveBy, position
  <2>6. Follows'
    BY <2>3, <2>5 DEF Follows, Holding
  <2> QED
    BY <2>1, <2>2, <2>4, <2>6 DEF Inv
<1>5. \/ UNCHANGED <<position, lock>>
      \/ \E n : Moved(t, n) /\ lock' = None
  BY DEF ReadReply, WriteReply, Unlock
<1> QED
  BY <1>3, <1>4, <1>5

(* A seek finds nobody transferring, and starts anew.                      *)
LEMMA BriefStep ==
  ASSUME Inv, NEW t \in Threads,
         \/ \E whence \in Whence, n \in {-1, 1} : Seek(t, whence, n)
         \/ \E bits \in SUBSET (Access \cup {"append"}) : SetOpenmodes(t, bits)
  PROVE  Inv'
<1>1. lock = None /\ UNCHANGED <<fixed, pc, call, lock, gap, max_message_size>>
  BY DEF Seek, SetOpenmodes, Briefly, position
<1>2. last' = -1 \/ UNCHANGED <<offset, last>>
  BY DEF Seek, SetOpenmodes, position
<1>3. Sized' /\ Amounts' /\ Locked'
  BY <1>1 DEF Inv, Sized, Amounts, Locked, fixed
<1>4. \A u \in Threads : pc'[u] # "request"
  BY <1>1, NobodyHolds DEF Inv, Holding
<1>5. Follows'
  BY <1>1, <1>2, <1>4 DEF Inv, Follows
<1> QED
  BY <1>3, <1>5 DEF Inv

LEMMA SameInv ==
  ASSUME Inv, UNCHANGED <<fixed, pc, call, lock, position, max_message_size>>
  PROVE  Inv'
BY DEF Inv, Sized, Amounts, Locked, Follows, fixed, position

LEMMA NextInv == Inv /\ [Next]_vars => Inv'
<1> SUFFICES ASSUME Inv, [Next]_vars PROVE Inv'
  OBVIOUS
<1>1. CASE UNCHANGED vars
  BY <1>1, SameInv DEF vars, thread
<1>2. CASE Rival \/ Tick
  BY <1>2, SameInv DEF Rival, Tick, thread
<1>3. ASSUME NEW t \in Threads, Step(t) PROVE Inv'
  BY <1>3, OpenStep, ReturnQuietStep, RequestStep, ReplyStep, OutsideStep DEF Step
<1>4. ASSUME NEW t \in Threads, NewCall(t) PROVE Inv'
  BY <1>4, BeginReadStep, BeginWriteStep, BeginOtherStep, BriefStep DEF NewCall
<1> QED
  BY <1>1, <1>2, <1>3, <1>4 DEF Next

LEMMA InvHolds == Spec => []Inv
BY InitInv, NextInv, PTL DEF Spec

(* Reads and writes of any threads at the shared offset follow each other  *)
(* without gap or overlap, whatever fails and whoever seeks in between     *)
(* (io_read, io_write, io_seek).                                           *)
THEOREM OffsetShared == Spec => []SequentialAccess
<1>1. Inv => SequentialAccess
  BY DEF Inv, Follows, SequentialAccess
<1> QED
  BY <1>1, InvHolds, PTL

(* The buffer of a read, chosen before the lock was taken, holds what is   *)
(* asked for when the request is made, for any limits, though another      *)
(* thread's open may lower them in between (io_read).                      *)
THEOREM BufferSuffices == Spec => []BufferFits
<1>1. Inv => BufferFits
  BY DEF Inv, Amounts, Transferring, BufferFits, At
<1> QED
  BY <1>1, InvHolds, PTL

(***************************************************************************)
(* Message sizes.                                                          *)
(***************************************************************************)
(* Neither the connection nor the server sets a limit below k.             *)
LimitsFrom(k) == (\A l \in Limits : l >= k) /\ \A i \in Iounits : i = 0 \/ i >= k

Within(k) ==
  /\ max_message_size >= k /\ max_message_size <= p9_max_message_size
  /\ max_message_size < Word

(* A limit that has room for a header caps without wrapping around.        *)
LEMMA CapExact ==
  ASSUME Inv, Within(24), NEW n \in Int
  PROVE  /\ Cap(n) \in Int /\ Cap(n) <= max_message_size - 24
         /\ max_message_size > 24 /\ n > 0 => Cap(n) > 0
<1>1. Word \in Nat /\ max_message_size - 24 \in 0 .. Word - 1
  BY SizesAssumption DEF Inv, Sized, Within
<1>2. (max_message_size - 24) % Word = max_message_size - 24
  BY <1>1
<1> QED
  BY <1>1, <1>2 DEF Cap, Inv, Sized

LEMMA InitWithin == ASSUME NEW k \in Nat, LimitsFrom(k) PROVE Init => Within(k)
BY SizesAssumption DEF Init, LimitsFrom, Within

(* What a step does to the limits, and to the thread that takes it.        *)
LEMMA LimitsStep ==
  ASSUME [Next]_vars
  PROVE  /\ UNCHANGED fixed
         /\ max_message_size' = max_message_size \/ max_message_size' = Lowered
BY DEF Next, vars, Step, NewCall, Open, OpenFailed, Request, Refused, ReadReply, WriteReply,
   Fetch, FetchRefused, Store, Stamp, Set, SetRefused, BeginRead, BeginWrite, Seek, SetOpenmodes, BeginStat,
   file_set_size, file_chmod, file_utimes, file_utimens, BeginSet, Rival, Tick

Sample == [size |-> size, version |-> version, at |-> now]

LEMMA ThreadStep ==
  ASSUME NEW t \in Threads, Step(t)
  PROVE  \/ Request(t)
         \/ Goto(t, "opened", call[t])
         \/ Goto(t, "mode", [op |-> "stat", sample |-> Sample])
         \/ \E part \in Parts : Store(t, part)
         \/ Goto(t, "idle", NoCall)
BY DEF Step, Open, OpenFailed, Refused, ReadReply, WriteReply, Fetch, FetchRefused, Stamp, Set, SetRefused,
   Return, Sample

(* One part is stored, and the call goes on.                               *)
LEMMA StoreStep ==
  ASSUME NEW t \in Threads, NEW part \in Parts, Store(t, part)
  PROVE  \E label \in {"size", "stamp"} : Goto(t, label, call[t])
BY DEF Store

LEMMA NewCallStep ==
  ASSUME NEW t \in Threads, NewCall(t)
  PROVE  \/ \E where \in {-1, 1}, n \in Counts : \E b :
              /\ b \in Buffers(Cap(n))
              /\ Begin(t, [op |-> "read", where |-> where, room |-> b.room, n |-> b.n], "lock")
         \/ \E where \in {-1, 1}, n \in Counts :
              Begin(t, [op |-> "write", where |-> where, room |-> 0, n |-> n], "lock")
         \/ Begin(t, [op |-> "stat"], "fetch")
         \/ \E c \in {[op |-> "file_set_size", n |-> 0], [op |-> "file_chmod"], [op |-> "file_utimes"],
                      [op |-> "file_utimens"]} : Begin(t, c, "set") /\ last_stat' = 0
         \/ UNCHANGED <<pc, call>>
<1>1. ASSUME NEW where \in {-1, 1}, NEW n \in Counts, BeginRead(t, where, n)
      PROVE  \E b : /\ b \in Buffers(Cap(n))
                    /\ Begin(t, [op |-> "read", where |-> where, room |-> b.room, n |-> b.n], "lock")
  BY <1>1 DEF BeginRead
<1>2. ASSUME NEW where \in {-1, 1}, NEW n \in Counts, BeginWrite(t, where, n)
      PROVE  Begin(t, [op |-> "write", where |-> where, room |-> 0, n |-> n], "lock")
  BY <1>2 DEF BeginWrite
<1>3. BeginStat(t) => Begin(t, [op |-> "stat"], "fetch")
  BY DEF BeginStat
<1>4. file_set_size(t, 0) \/ file_chmod(t) \/ file_utimes(t) \/ file_utimens(t) =>
        \E c \in {[op |-> "file_set_size", n |-> 0], [op |-> "file_chmod"], [op |-> "file_utimes"],
                  [op |-> "file_utimens"]} : Begin(t, c, "set") /\ last_stat' = 0
  BY DEF file_set_size, file_chmod, file_utimes, file_utimens, BeginSet, Invalidated
<1>5. ASSUME \/ \E whence \in Whence, n \in {-1, 1} : Seek(t, whence, n)
             \/ \E bits \in SUBSET (Access \cup {"append"}) : SetOpenmodes(t, bits)
      PROVE  UNCHANGED <<pc, call>>
  BY <1>5 DEF Seek, SetOpenmodes
<1> QED
  BY <1>1, <1>2, <1>3, <1>4, <1>5 DEF NewCall

LEMMA NextWithin ==
  ASSUME NEW k \in Nat, LimitsFrom(k), Inv, Within(k), [Next]_vars
  PROVE  Within(k)'
<1>1. Lowered >= k /\ Lowered <= max_message_size /\ Lowered \in Nat
  BY SizesAssumption DEF Lowered, LimitsFrom, Within, Inv, Sized
<1> QED
  BY <1>1, LimitsStep, SizesAssumption DEF Within, Inv, Sized, fixed

(* Who has sent a request has capped its amount under the lock, and only   *)
(* who takes the lock changes the limit.                                   *)
LEMMA NextFits ==
  ASSUME Inv, Within(24), FitsMessage, [Next]_vars
  PROVE  FitsMessage'
<1>1. max_message_size \in Int
  BY DEF Inv, Sized
<1>2. ASSUME NEW t \in Threads, Request(t) PROVE FitsMessage'
  <2>1. call[t].n \in Int
    BY <1>2 DEF Request, At, Inv, Amounts, Transferring
  <2>2. 23 + Cap(call[t].n) <= max_message_size /\ max_message_size' = max_message_size
    BY <1>1, <1>2, <2>1, CapExact DEF Request
  <2>3. /\ DOMAIN call = Threads /\ call'[t].n = Cap(call[t].n)
        /\ \A u \in Threads \ {t} : call'[u] = call[u] /\ pc'[u] = pc[u]
    BY <1>2 DEF Request, Goto, Inv, Amounts
  <2> QED
    BY <1>1, <2>2, <2>3 DEF FitsMessage, At
<1>3. ASSUME NEW t \in Threads, NEW c, NEW label \in Labels \ {"request"},
             \/ Begin(t, c, label)
             \/ Goto(t, label, c),
             max_message_size' = max_message_size
      PROVE  FitsMessage'
  BY <1>1, <1>3 DEF Begin, Goto, FitsMessage, At, Inv, Amounts
<1>4. CASE UNCHANGED <<pc, call, max_message_size>>
  BY <1>1, <1>4 DEF FitsMessage, At
<1>5. {"opened", "mode", "size", "stamp", "idle", "lock", "fetch", "set"} \subseteq Labels \ {"request"}
  BY DEF Labels
<1>6. ASSUME NEW t \in Threads, Open(t) PROVE FitsMessage'
  <2>1. \A u \in Threads : pc[u] # "request"
    BY <1>6, NobodyHolds DEF Open, Lock, Inv, Holding
  <2>2. \A u \in Threads : pc'[u] # "request"
    BY <1>6, <2>1 DEF Open, Goto, Inv, Amounts
  <2> QED
    BY <2>2 DEF FitsMessage, At
<1>7. ASSUME NEW t \in Threads, Step(t), ~Open(t) PROVE FitsMessage'
  <2>1. max_message_size' = max_message_size
    BY <1>7 DEF Step, OpenFailed, Request, Refused, ReadReply, WriteReply, Fetch, FetchRefused, Store,
       Stamp, Set, SetRefused
  <2> QED
    BY <1>2, <1>3, <1>5, <1>7, <2>1, ThreadStep, StoreStep
<1>8. ASSUME NEW t \in Threads, NewCall(t) PROVE FitsMessage'
  <2>1. max_message_size' = max_message_size
    BY <1>8 DEF NewCall, BeginRead, BeginWrite, Seek, SetOpenmodes, BeginStat, file_set_size, file_chmod,
       file_utimes, file_utimens, BeginSet
  <2> QED
    BY <1>3, <1>4, <1>5, <1>8, <2>1, NewCallStep
<1>9. CASE UNCHANGED vars \/ Rival \/ Tick
  BY <1>4, <1>9 DEF vars, thread, Rival, Tick
<1> QED
  BY <1>6, <1>7, <1>8, <1>9 DEF Next

(* Unless a limit leaves no room for a header, every read and write is cut *)
(* to what fits in a message of the size the server told at the open, for  *)
(* any limits and though another call's open lowers the node's limit while *)
(* the call waits for the lock (io_read, io_write, p9_ensure_open).        *)
THEOREM MessagesFit == LimitsFrom(24) /\ Spec => []FitsMessage
<1> SUFFICES ASSUME LimitsFrom(24) PROVE Spec => []FitsMessage
  OBVIOUS
<1>1. Init => FitsMessage
  BY DEF Init, FitsMessage, At
<1>2. Inv /\ Within(24) /\ FitsMessage /\ [Next]_vars => FitsMessage'
  BY NextFits
<1>3. Init => Within(24)
  BY InitWithin
<1>5. Inv /\ Within(24) /\ [Next]_vars => Within(24)'
  BY NextWithin
<1> QED
  BY <1>1, <1>2, <1>3, <1>5, InvHolds, PTL DEF Spec

(* Positive amounts stay positive.                                         *)
Wanting == \A t \in Threads : pc[t] \in Transferring => call[t].n > 0

LEMMA NextWanting ==
  ASSUME Inline > 0, Inv, Within(25), Wanting, [Next]_vars
  PROVE  Wanting'
<1>1. Within(24) /\ max_message_size > 24
  BY DEF Within, Inv, Sized
<1>2. ASSUME NEW t \in Threads, Request(t) PROVE Wanting'
  <2>1. call[t].n \in Int /\ call[t].n > 0
    BY <1>2 DEF Request, At, Inv, Amounts, Transferring, Wanting
  <2>2. Cap(call[t].n) > 0
    BY <1>1, <2>1, CapExact
  <2>3. /\ call'[t].n = Cap(call[t].n)
        /\ \A u \in Threads \ {t} : call'[u] = call[u] /\ pc'[u] = pc[u]
    BY <1>2 DEF Request, Goto, Inv, Amounts
  <2> QED
    BY <2>2, <2>3 DEF Wanting
<1>3. ASSUME NEW t \in Threads, NEW c, NEW label,
             Begin(t, c, label) \/ Goto(t, label, c),
             label \in Transferring => c.n > 0
      PROVE  Wanting'
  BY <1>3 DEF Begin, Goto, Wanting, Inv, Amounts
<1>4. CASE UNCHANGED <<pc, call>>
  BY <1>4 DEF Wanting
<1>5. {"mode", "size", "stamp", "idle", "fetch", "set"} \cap Transferring = {}
  BY DEF Transferring
<1>6. ASSUME NEW t \in Threads, Step(t) PROVE Wanting'
  <2>1. CASE Goto(t, "opened", call[t])
    <3>1. pc[t] = "lock"
      BY <1>6, <2>1 DEF Step, Goto, Open, OpenFailed, Request, Refused, ReadReply, WriteReply, Fetch,
         FetchRefused, Store, Stamp, Set, SetRefused, Return, At, Inv, Amounts
    <3> QED
      BY <1>3, <2>1, <3>1 DEF Wanting, Transferring
  <2> QED
    BY <1>2, <1>3, <1>5, <1>6, <2>1, ThreadStep, StoreStep
<1>7. ASSUME NEW t \in Threads, NewCall(t) PROVE Wanting'
  <2>1. ASSUME NEW n \in Counts, NEW b \in Buffers(Cap(n)) PROVE b.n > 0
    <3>1. Cap(n) \in Int /\ Cap(n) > 0
      BY <1>1, CapExact, SizesAssumption
    <3> QED
      BY <2>1, <3>1, SizesAssumption DEF Buffers
  <2>2. \A n \in Counts : n > 0
    BY SizesAssumption
  <2>3. ASSUME NEW where \in {-1, 1}, NEW n \in Counts, NEW b \in Buffers(Cap(n)),
               Begin(t, [op |-> "read", where |-> where, room |-> b.room, n |-> b.n], "lock")
        PROVE  Wanting'
    BY <1>3, <2>1, <2>3
  <2>4. ASSUME NEW where \in {-1, 1}, NEW n \in Counts,
               Begin(t, [op |-> "write", where |-> where, room |-> 0, n |-> n], "lock")
        PROVE  Wanting'
    BY <1>3, <2>2, <2>4
  <2>5. ASSUME NEW c, Begin(t, c, "fetch") \/ Begin(t, c, "set")
        PROVE  Wanting'
    BY <1>3, <1>5, <2>5
  <2> QED
    BY <1>4, <1>7, <2>3, <2>4, <2>5, NewCallStep
<1> QED
  BY <1>4, <1>6, <1>7 DEF Next, vars, thread, Rival, Tick

(* If every limit leaves room for some data beside the header, no read or  *)
(* write is cut to nothing: a read of no bytes means the end of the file   *)
(* (io_read, io_write).                                                    *)
THEOREM NoneEmptied == LimitsFrom(25) /\ Spec => []NeverEmpty
<1> SUFFICES ASSUME LimitsFrom(25) PROVE Spec => []NeverEmpty
  OBVIOUS
<1>1. CASE Inline > 0
  <2>1. Init => Wanting
    BY DEF Init, Wanting, Transferring
  <2>2. Inv /\ Within(25) /\ Wanting /\ [Next]_vars => Wanting'
    BY <1>1, NextWanting
  <2>3. Init => Within(25)
    BY InitWithin
  <2>5. Inv /\ Within(25) /\ [Next]_vars => Within(25)'
    BY NextWithin
  <2>4. Wanting => NeverEmpty
    BY DEF Wanting, NeverEmpty, At, Transferring
  <2> QED
    BY <2>1, <2>2, <2>3, <2>4, <2>5, InvHolds, PTL DEF Spec
<1>2. CASE ~(Inline > 0)
  <2>1. NeverEmpty
    BY <1>2 DEF NeverEmpty
  <2> QED
    BY <2>1, PTL
<1> QED
  BY <1>1, <1>2

(***************************************************************************)
(* The cached attributes.                                                  *)
(***************************************************************************)
(* What a thread stores was sampled at most Latency ago.  A part of the    *)
(* cache may be older than the sample of a thread that has stored it, but  *)
(* by no more than Latency: whoever overwrote it was still storing then.   *)
Stored(part) == IF part = "mode" THEN {"size", "stamp"} ELSE {"stamp"}

Aged ==
  /\ now \in Nat /\ now > StatTime
  /\ last_stat \in Nat /\ last_stat <= now /\ DOMAIN stat = Parts
  /\ \A part \in Parts : stat[part].at \in Nat /\ last_stat <= stat[part].at + 2 * Latency

Punctual ==
  \A t \in Threads :
    pc[t] \in Storing =>
      call[t].sample.at \in Nat /\ call[t].sample.at <= now /\ now <= call[t].sample.at + Latency

Overwritten ==
  \A t \in Threads, part \in Parts :
    pc[t] \in Stored(part) => call[t].sample.at <= stat[part].at + Latency

Timely == Aged /\ Punctual /\ Overwritten

LEMMA StoreTimely ==
  ASSUME Inv, Timely, NEW t \in Threads, NEW part \in Parts, Store(t, part)
  PROVE  Timely'
<1> USE TimeAssumption
<1> DEFINE s == call[t].sample
<1>1. /\ pc[t] = part /\ stat' = [stat EXCEPT ![part] = s]
      /\ UNCHANGED <<last_stat, now>>
  BY DEF Store, At
<1>2. /\ pc'[t] = (IF part = "mode" THEN "size" ELSE "stamp")
      /\ \A u \in Threads : call'[u] = call[u] /\ (u # t => pc'[u] = pc[u])
  BY DEF Store, Goto, Inv, Amounts
<1>3. s.at \in Nat /\ s.at <= now /\ now <= s.at + Latency
  BY <1>1 DEF Timely, Punctual, Storing
<1>4. /\ DOMAIN stat' = Parts /\ stat'[part] = s
      /\ \A q \in Parts \ {part} : stat'[q] = stat[q]
  BY <1>1 DEF Timely, Aged
<1>5. Aged'
  <2>1. last_stat <= s.at + 2 * Latency
    BY <1>3 DEF Timely, Aged
  <2> QED
    BY <1>1, <1>3, <1>4, <2>1 DEF Timely, Aged
<1>6. Punctual'
  BY <1>1, <1>2, <1>3 DEF Timely, Punctual
<1>7. Overwritten'
  <2> SUFFICES ASSUME NEW u \in Threads, NEW q \in Parts, pc'[u] \in Stored(q)
               PROVE  call'[u].sample.at <= stat'[q].at + Latency
    BY DEF Overwritten, Stored
  <2>1. CASE q # part
    <3>1. pc[u] \in Stored(q)
      BY <1>1, <1>2, <2>1 DEF Stored, Parts
    <3> QED
      BY <1>2, <1>4, <2>1, <3>1 DEF Timely, Overwritten
  <2>2. CASE q = part /\ u = t
    BY <1>2, <1>3, <1>4, <2>2
  <2>3. CASE q = part /\ u # t
    <3>1. call[u].sample.at \in Nat /\ call[u].sample.at <= now
      BY <1>2, <2>3 DEF Timely, Punctual, Stored, Storing, Parts
    <3> QED
      BY <1>2, <1>3, <1>4, <2>3, <3>1 DEF Timely, Aged
  <2> QED
    BY <2>1, <2>2, <2>3
<1> QED
  BY <1>5, <1>6, <1>7 DEF Timely

LEMMA StampTimely ==
  ASSUME Inv, Timely, NEW t \in Threads, Stamp(t)
  PROVE  Timely'
<1> USE TimeAssumption
<1>1. /\ pc[t] = "stamp" /\ last_stat' = now /\ UNCHANGED <<stat, now>> /\ pc'[t] = "idle"
      /\ \A u \in Threads \ {t} : pc'[u] = pc[u] /\ call'[u] = call[u]
  BY DEF Stamp, At, Return, Goto, Inv, Amounts
<1>2. now <= call[t].sample.at + Latency /\ call[t].sample.at \in Nat
  BY <1>1 DEF Timely, Punctual, Storing
<1>3. \A part \in Parts : call[t].sample.at <= stat[part].at + Latency
  BY <1>1 DEF Timely, Overwritten, Stored
<1>4. Aged'
  BY <1>1, <1>2, <1>3 DEF Timely, Aged
<1>5. Punctual' /\ Overwritten'
  BY <1>1 DEF Timely, Punctual, Overwritten, Storing, Parts, Stored
<1> QED
  BY <1>4, <1>5 DEF Timely

LEMMA NextTimely ==
  ASSUME Inv, Timely, [Next]_vars
  PROVE  Timely'
<1> USE TimeAssumption
<1>1. ASSUME NEW t \in Threads, NEW c, NEW label \in Labels \ {"size", "stamp"},
             Begin(t, c, label) \/ Goto(t, label, c),
             label = "mode" => c.sample.at = now,
             UNCHANGED <<stat, now>>, last_stat' = last_stat \/ last_stat' = 0
      PROVE  Timely'
  <2>1. /\ pc'[t] = label /\ call'[t] = c
        /\ \A u \in Threads \ {t} : pc'[u] = pc[u] /\ call'[u] = call[u]
    BY <1>1 DEF Begin, Goto, Inv, Amounts
  <2>2. Aged'
    BY <1>1 DEF Timely, Aged
  <2>3. Punctual'
    BY <1>1, <2>1 DEF Timely, Aged, Punctual, Storing, Parts
  <2>4. Overwritten'
    BY <1>1, <2>1 DEF Timely, Overwritten, Stored
  <2> QED
    BY <2>2, <2>3, <2>4 DEF Timely
<1>2. {"lock", "opened", "request", "fetch", "mode", "set", "idle"} \subseteq Labels \ {"size", "stamp"}
  BY DEF Labels
<1>3. CASE Tick
  <2>1. /\ \A t \in Threads : pc[t] \in Storing => now - call[t].sample.at < Latency
        /\ UNCHANGED <<pc, call, stat, last_stat>> /\ now' = now + 1
    BY <1>3 DEF Tick, thread, cache
  <2>2. Aged' /\ Overwritten'
    BY <2>1 DEF Timely, Aged, Overwritten
  <2>3. Punctual'
    BY <2>1 DEF Timely, Aged, Punctual
  <2> QED
    BY <2>2, <2>3 DEF Timely
<1>4. CASE UNCHANGED <<pc, call, stat, now>> /\ (last_stat' = last_stat \/ last_stat' = 0)
  BY <1>4 DEF Timely, Aged, Punctual, Overwritten
<1>5. ASSUME NEW t \in Threads, Step(t), ~\E part \in Parts : Store(t, part), ~Stamp(t) PROVE Timely'
  <2>1. UNCHANGED <<stat, now>> /\ (last_stat' = last_stat \/ last_stat' = 0)
    BY <1>5 DEF Step, cache, Open, OpenFailed, Request, Refused, ReadReply, WriteReply, Fetch, FetchRefused,
       Set, SetRefused
  <2>2. CASE Request(t)
    <3>1. PICK c : Goto(t, "request", c)
      BY <2>2 DEF Request
    <3> QED
      BY <1>1, <1>2, <2>1, <3>1
  <2>3. CASE Goto(t, "mode", [op |-> "stat", sample |-> Sample])
    BY <1>1, <1>2, <2>1, <2>3 DEF Sample
  <2>4. CASE Goto(t, "opened", call[t]) \/ Goto(t, "idle", NoCall)
    BY <1>1, <1>2, <2>1, <2>4
  <2> QED
    BY <1>5, <2>2, <2>3, <2>4, ThreadStep
<1>6. ASSUME NEW t \in Threads, NewCall(t) PROVE Timely'
  <2>1. UNCHANGED <<stat, now>> /\ (last_stat' = last_stat \/ last_stat' = 0)
    BY <1>6 DEF NewCall, cache, BeginRead, BeginWrite, Seek, SetOpenmodes, BeginStat, file_set_size,
       file_chmod, file_utimes, file_utimens, BeginSet, Invalidated
  <2>2. ASSUME NEW c, Begin(t, c, "lock") \/ Begin(t, c, "fetch") \/ Begin(t, c, "set") PROVE Timely'
    BY <1>1, <1>2, <2>1, <2>2
  <2> QED
    BY <1>4, <1>6, <2>1, <2>2, NewCallStep
<1>7. CASE Rival \/ UNCHANGED vars
  BY <1>4, <1>7 DEF vars, thread, cache, Rival
<1> QED
  BY <1>3, <1>5, <1>6, <1>7, StoreTimely, StampTimely DEF Next

(* However replies are delayed and overtaken, attributes answered from the *)
(* cache were current at most the cache time and two delays ago, for any   *)
(* number of threads and also where clients overlap their calls (io_stat:  *)
(* replies are stored part after part without a lock, and stamped with the *)
(* time at which that was done).                                           *)
THEOREM CacheFresh == Spec => []StatFresh
<1>1. Init => Timely
  BY TimeAssumption DEF Init, Timely, Aged, Punctual, Overwritten, Stored, Storing, Parts, NoAttributes
<1>2. Inv /\ Timely /\ [Next]_vars => Timely'
  BY NextTimely
<1>3. Timely => StatFresh
  BY TimeAssumption DEF Timely, Aged, StatFresh, Cached
<1> QED
  BY <1>1, <1>2, <1>3, InvHolds, PTL DEF Spec

(* Who changes the file has invalidated the cache before, and as no        *)
(* io_stat overlaps it, nothing fills the cache again: whatever is cached  *)
(* or about to be shows the latest change.                                 *)
Changing(t) == pc[t] = "set" \/ (pc[t] = "request" /\ call[t].op = "write")

Separate ==
  /\ \A t, u \in Threads : ~(call[t].op = "stat" /\ call[u].op \in Changes)
  /\ \A t \in Threads : pc[t] \in {"fetch"} \cup Storing => call[t].op = "stat"
  /\ \A t \in Threads : pc[t] = "set" => call[t].op \in Changes

Shown == \A part \in Parts : stat[part].version = version
Sampled == \A t \in Threads : pc[t] \in Storing => call[t].sample.version = version
Renewed == \A t \in Threads, part \in Parts : pc[t] \in Stored(part) => stat[part].version = version

Current ==
  /\ DOMAIN stat = Parts
  /\ \A t \in Threads : Changing(t) => last_stat = 0
  /\ last_stat # 0 => Shown
  /\ Sampled /\ Renewed

LEMMA NextSeparate ==
  ASSUME ~StatOverlaps, Inv, Separate, [Next]_vars
  PROVE  Separate'
<1>1. DOMAIN call = Threads /\ pc \in [Threads -> Labels]
  BY DEF Inv, Amounts
<1>2. ASSUME NEW t \in Threads, NEW c, NEW label, Begin(t, c, label),
             label \in {"lock", "fetch", "set"}, label = "fetch" => c.op = "stat", label = "set" => c.op \in Changes
      PROVE  Separate'
  <2>1. \A u \in Threads : ~(c.op = "stat" /\ call[u].op \in Changes) /\ ~(c.op \in Changes /\ call[u].op = "stat")
    BY <1>2 DEF Begin, Overlapping
  <2>2. ~(c.op = "stat" /\ c.op \in Changes)
    BY DEF Changes
  <2> QED
    BY <1>1, <1>2, <2>1, <2>2 DEF Begin, Separate, Storing, Parts
<1>3. ASSUME NEW t \in Threads, NEW c, NEW label, Goto(t, label, c),
             c.op \in {call[t].op, None}, label # "set", label \in {"fetch"} \cup Storing => c.op = "stat"
      PROVE  Separate'
  <2>1. c.op = "stat" => call[t].op = "stat"
    BY <1>3 DEF None
  <2>2. c.op \in Changes => call[t].op \in Changes
    BY <1>3 DEF None, Changes
  <2> QED
    BY <1>1, <1>3, <2>1, <2>2 DEF Goto, Separate
<1>4. CASE UNCHANGED <<pc, call>>
  BY <1>4 DEF Separate
<1>5. ASSUME NEW t \in Threads, Step(t) PROVE Separate'
  <2>1. CASE Request(t)
    <3> DEFINE c == [op |-> call[t].op, where |-> call[t].where, room |-> call[t].room, n |-> Cap(call[t].n),
                     start |-> IF call[t].where = -1 THEN offset ELSE call[t].where]
    <3>1. Goto(t, "request", c) /\ c.op = call[t].op
      BY <2>1 DEF Request
    <3> HIDE DEF c
    <3> QED
      BY <1>3, <3>1 DEF Storing, Parts
  <2>2. CASE Goto(t, "opened", call[t])
    BY <1>3, <2>2 DEF Storing, Parts
  <2>3. CASE Goto(t, "mode", [op |-> "stat", sample |-> Sample])
    <3>1. pc[t] = "fetch"
      BY <1>1, <1>5, <2>3 DEF Step, Goto, Open, OpenFailed, Request, Refused, ReadReply, WriteReply, Fetch,
         FetchRefused, Store, Stamp, Set, SetRefused, Return, At, Parts
    <3> QED
      BY <1>3, <2>3, <3>1 DEF Separate
  <2>5. ASSUME NEW part \in Parts, Store(t, part) PROVE Separate'
    <3>1. pc[t] \in Storing
      BY <2>5 DEF Store, At, Storing
    <3>2. call[t].op = "stat"
      BY <3>1 DEF Separate
    <3> QED
      BY <1>3, <2>5, <3>2, StoreStep
  <2>4. CASE Goto(t, "idle", NoCall)
    BY <1>3, <2>4 DEF NoCall, Storing, Parts
  <2> QED
    BY <1>5, <2>1, <2>2, <2>3, <2>4, <2>5, ThreadStep
<1>6. ASSUME NEW t \in Threads, NewCall(t) PROVE Separate'
  <2>1. ASSUME NEW c, Begin(t, c, "lock") PROVE Separate'
    BY <1>2, <2>1
  <2>2. CASE Begin(t, [op |-> "stat"], "fetch")
    BY <1>2, <2>2
  <2>3. ASSUME NEW c \in {[op |-> "file_set_size", n |-> 0], [op |-> "file_chmod"], [op |-> "file_utimes"],
                          [op |-> "file_utimens"]}, Begin(t, c, "set")
        PROVE  Separate'
    <3>1. c.op \in Changes
      BY DEF Changes
    <3> QED
      BY <1>2, <2>3, <3>1
  <2> QED
    BY <1>4, <1>6, <2>1, <2>2, <2>3, NewCallStep
<1> QED
  BY <1>4, <1>5, <1>6 DEF Next, vars, thread, Rival, Tick

LEMMA NextCurrent ==
  ASSUME Inv, Separate, Current, [Next]_vars
  PROVE  Current'
<1>1. DOMAIN call = Threads /\ pc \in [Threads -> Labels]
  BY DEF Inv, Amounts
(* A step that changes neither the file nor the cache, save to invalidate. *)
<1>2. ASSUME NEW t \in Threads, NEW c, NEW label,
             Begin(t, c, label) \/ Goto(t, label, c),
             UNCHANGED <<stat, version>>, last_stat' = last_stat \/ last_stat' = 0,
             label = "set" \/ (label = "request" /\ c.op = "write") => last_stat' = 0,
             label \notin {"size", "stamp"}, label = "mode" => c.sample.version = version
      PROVE  Current'
  <2>1. \A u \in Threads \ {t} : pc'[u] = pc[u] /\ call'[u] = call[u]
    BY <1>1, <1>2 DEF Begin, Goto
  <2>2. pc'[t] = label /\ call'[t] = c
    BY <1>1, <1>2 DEF Begin, Goto
  <2>3. Sampled' /\ Renewed'
    BY <1>2, <2>1, <2>2 DEF Current, Sampled, Renewed, Stored, Storing, Parts
  <2>4. \A u \in Threads : Changing(u)' => last_stat' = 0
    BY <1>2, <2>1, <2>2 DEF Current, Changing
  <2> QED
    BY <1>2, <2>3, <2>4 DEF Current, Shown
(* A change: the cache is invalid, and nobody has a sample.                *)
<1>3. ASSUME NEW t \in Threads, Changing(t), Goto(t, "idle", NoCall), UNCHANGED <<stat, last_stat>>
      PROVE  Current'
  <2>1. call[t].op \in Changes
    BY <1>3 DEF Changing, Separate, Changes
  <2>2. \A u \in Threads : pc[u] \notin Storing
    BY <2>1 DEF Separate
  <2>3. \A u \in Threads : pc'[u] \notin Storing /\ (Changing(u)' => Changing(u))
    BY <1>1, <1>3, <2>2 DEF Goto, Changing, Storing, Parts
  <2>4. Sampled' /\ Renewed'
    BY <2>3 DEF Sampled, Renewed, Stored, Storing, Parts
  <2> QED
    BY <1>3, <2>3, <2>4 DEF Current
<1>4. ASSUME NEW t \in Threads, NEW part \in Parts, Store(t, part) PROVE Current'
  <2>1. /\ pc[t] = part /\ stat' = [stat EXCEPT ![part] = call[t].sample]
        /\ UNCHANGED <<version, last_stat>> /\ \A u \in Threads : call'[u] = call[u]
    BY <1>1, <1>4 DEF Store, At, file, Goto
  <2>2. /\ pc'[t] = (IF part = "mode" THEN "size" ELSE "stamp")
        /\ \A u \in Threads \ {t} : pc'[u] = pc[u]
    BY <1>1, <1>4 DEF Store, Goto
  <2>3. call[t].sample.version = version
    BY <2>1 DEF Current, Sampled, Storing
  <2>4. /\ DOMAIN stat' = Parts /\ stat'[part] = call[t].sample
        /\ \A q \in Parts \ {part} : stat'[q] = stat[q]
    BY <2>1 DEF Current
  <2>5. Sampled'
    BY <2>1, <2>2, <2>3 DEF Current, Sampled
  <2>6. Renewed'
    <3> SUFFICES ASSUME NEW u \in Threads, NEW q \in Parts, pc'[u] \in Stored(q), q # part
                 PROVE  stat[q].version = version
      BY <2>1, <2>3, <2>4 DEF Renewed, Stored
    <3>1. pc[u] \in Stored(q)
      BY <2>1, <2>2 DEF Stored, Parts
    <3> QED
      BY <3>1 DEF Current, Renewed
  <2>7. last_stat' # 0 => Shown'
    BY <2>1, <2>3, <2>4 DEF Current, Shown
  <2>8. \A u \in Threads : Changing(u)' => last_stat' = 0
    BY <2>1, <2>2 DEF Current, Changing
  <2> QED
    BY <2>4, <2>5, <2>6, <2>7, <2>8 DEF Current
<1>8. ASSUME NEW t \in Threads, Stamp(t) PROVE Current'
  <2>1. pc[t] = "stamp" /\ pc'[t] = "idle" /\ UNCHANGED <<stat, version>>
    BY <1>1, <1>8 DEF Stamp, At, file, Return, Goto
  <2>2. \A u \in Threads \ {t} : pc'[u] = pc[u] /\ call'[u] = call[u]
    BY <1>1, <1>8 DEF Stamp, Return, Goto
  <2>3. call[t].op = "stat"
    BY <2>1 DEF Separate, Storing
  <2>4. \A u \in Threads : ~Changing(u)
    BY <2>3 DEF Separate, Changing, Changes
  <2>5. Shown
    BY <2>1 DEF Current, Renewed, Shown, Stored
  <2>6. Sampled' /\ Renewed'
    BY <2>1, <2>2 DEF Current, Sampled, Renewed, Stored, Storing, Parts
  <2> QED
    BY <2>1, <2>2, <2>4, <2>5, <2>6 DEF Current, Shown, Changing
<1>5. CASE UNCHANGED <<pc, call, stat, last_stat, version>>
  BY <1>5 DEF Current, Changing, Shown, Sampled, Renewed
<1>6. ASSUME NEW t \in Threads, Step(t), ~\E part \in Parts : Store(t, part), ~Stamp(t) PROVE Current'
  <2>1. CASE Set(t) \/ WriteReply(t)
    BY <1>3, <2>1 DEF Set, WriteReply, At, Changing, Return, cache
  <2>2. CASE Request(t)
    <3> DEFINE c == [op |-> call[t].op, where |-> call[t].where, room |-> call[t].room, n |-> Cap(call[t].n),
                     start |-> IF call[t].where = -1 THEN offset ELSE call[t].where]
    <3>1. /\ Goto(t, "request", c) /\ c.op = call[t].op /\ UNCHANGED <<stat, version>>
          /\ last_stat' = IF call[t].op = "write" THEN 0 ELSE last_stat
      BY <2>2 DEF Request, file
    <3> HIDE DEF c
    <3> QED
      BY <1>2, <3>1
  <2>3. CASE ~Set(t) /\ ~WriteReply(t) /\ ~Request(t)
    <3>1. UNCHANGED <<stat, last_stat, version>>
      BY <1>6, <2>3 DEF Step, cache, file, Open, OpenFailed, Refused, ReadReply, Fetch, FetchRefused, SetRefused
    <3>2. CASE Goto(t, "mode", [op |-> "stat", sample |-> Sample])
      BY <1>2, <3>1, <3>2 DEF Sample
    <3>3. CASE Goto(t, "opened", call[t]) \/ Goto(t, "idle", NoCall)
      BY <1>2, <3>1, <3>3
    <3> QED
      BY <1>6, <2>3, <3>2, <3>3, ThreadStep
  <2> QED
    BY <2>1, <2>2, <2>3
<1>7. ASSUME NEW t \in Threads, NewCall(t) PROVE Current'
  <2>1. UNCHANGED <<stat, version>> /\ (last_stat' = last_stat \/ last_stat' = 0)
    BY <1>7 DEF NewCall, cache, file, BeginRead, BeginWrite, Seek, SetOpenmodes, BeginStat, file_set_size,
       file_chmod, file_utimes, file_utimens, BeginSet, Invalidated
  <2>2. ASSUME NEW c, Begin(t, c, "lock") \/ Begin(t, c, "fetch") PROVE Current'
    BY <1>2, <2>1, <2>2
  <2>3. ASSUME NEW c, Begin(t, c, "set"), last_stat' = 0 PROVE Current'
    BY <1>2, <2>1, <2>3
  <2>4. CASE UNCHANGED <<pc, call>>
    BY <2>1, <2>4 DEF Current, Changing, Shown, Sampled, Renewed
  <2> QED
    BY <1>7, <2>2, <2>3, <2>4, NewCallStep
<1> QED
  BY <1>4, <1>5, <1>6, <1>7, <1>8 DEF Next, vars, thread, cache, file, Rival, Tick

(* A client that waits for its calls to return sees its changes: io_stat   *)
(* never answers from attributes older than a change that was made through *)
(* this translator, by any thread (io_write, file_set_size, file_chmod,    *)
(* file_utimes, file_utimens invalidate the cache before they ask).        *)
THEOREM ChangesSeen == ~StatOverlaps /\ Spec => []ReadYourChanges
<1> SUFFICES ASSUME ~StatOverlaps PROVE Spec => []ReadYourChanges
  OBVIOUS
<1>1. Init => Separate /\ Current /\ Timely
  BY TimeAssumption DEF Init, Separate, Current, Changing, Changes, NoCall, None, Timely, Aged, Punctual,
     Overwritten, Shown, Sampled, Renewed, Stored, Storing, Parts, NoAttributes
<1>2. Inv /\ Separate /\ [Next]_vars => Separate'
  BY NextSeparate
<1>3. Inv /\ Separate /\ Current /\ [Next]_vars => Current'
  BY NextCurrent
<1>4. Inv /\ Timely /\ [Next]_vars => Timely'
  BY NextTimely
<1>5. Timely /\ Current => ReadYourChanges
  BY TimeAssumption DEF Timely, Aged, Current, Shown, ReadYourChanges, Cached
<1> QED
  BY <1>1, <1>2, <1>3, <1>4, <1>5, InvHolds, PTL DEF Spec
=============================================================================
