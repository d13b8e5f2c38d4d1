-------------------------------- MODULE P9Rpc --------------------------------
(***************************************************************************)
(* The RPC multiplexer of 9p-rpc.c.  Every thread of the translator that   *)
(* serves a Hurd request calls p9_rpc: it registers an interest under a    *)
(* fresh 16-bit tag, writes the request to the shared stream p9_conn_out   *)
(* under write_mutex, flushes it, and waits for the reply.  There is no    *)
(* receiver thread: whoever finds some_thread_is_reading clear takes that  *)
(* token and reads the next message header from p9_conn_in; if the header  *)
(* belongs to another thread, it stores it in that thread's interest,      *)
(* signals it, and the token goes with it.  The owner reads the body,      *)
(* clears the token and signals one interest still in the table.           *)
(*                                                                         *)
(* Steps are the critical sections of `mutex' and the stdio calls made     *)
(* outside it.  The two streams are sequences of message parts; the server *)
(* and the network are external.                                           *)
(***************************************************************************)
EXTENDS Integers, Sequences, FiniteSets

CONSTANTS
  Thread,      \* the threads that call p9_rpc
  NoThread,    \* an empty slot of interest_table; the owner of garbage bytes
  NoMsg,       \* interest->size = 0: no header received
  NTags,       \* 2^16 in the code: the values a tag can take
  Kinds,       \* how a reply may answer: subset of {"match", "error", "other"}
  Faults,      \* failures the environment may inject (see AllFaults)
  TagReuse,    \* FALSE: fewer than NTags calls start during any one call
  OutCap,      \* message parts the connection buffers towards the server
  InCap        \* requests the server takes before their replies are read

AllKinds == {"match", "error", "other"}
AllFaults == {"down", "cancel", "nomem"}

ASSUME ThreadAssumption == NoThread \notin Thread
ASSUME TagsAssumption == NTags \in Nat \ {0}
ASSUME KindsAssumption == Kinds \subseteq AllKinds
ASSUME FaultsAssumption == Faults \subseteq AllFaults
ASSUME ReuseAssumption == TagReuse \in BOOLEAN
(* Half a request alone does not fill the connection.                      *)
ASSUME CapAssumption == OutCap \in Nat \ {0, 1} /\ InCap \in Nat \ {0}

Tags == 0 .. NTags - 1

(* A reply: its tag, the thread whose request it answers (NoThread for     *)
(* bytes read out of step with the message boundaries), how it answers,    *)
(* and whether the connection was lost inside it.                          *)
Msg == [tag : Tags, of : Thread \cup {NoThread}, kind : AllKinds, cut : BOOLEAN]
ASSUME NoMsgAssumption == NoMsg \notin Msg

(* Half of a request on the outgoing stream.                               *)
Part == [of : Thread, tag : Tags, part : {"header", "body"}]

Outcome == {"none", "match", "error", "other", "short", "EIO", "ferror",
            "EINTR", "ENOMEM"}

VARIABLES
  pc,                     \* where each thread is in p9_rpc
  next_tag,
  interest_table,         \* tag -> the thread whose interest has the slot
  some_thread_is_reading, \* the token
  tag,                    \* interest->tag
  got,                    \* interest->size and ->type: the header received
  hdr,                    \* the locals of wait_for_header: the header read
  write_mutex,            \* the thread holding it
  outbuf,                 \* p9_conn_out's stdio buffer
  wire,                   \* flushed, not yet read by the server
  pending,                \* requests the server is working on
  inbox,                  \* replies not yet read from p9_conn_in
  body,                   \* the reply of which only the header has been read
  outErr, inErr,          \* ferror of the two streams; nothing clears it
  down,                   \* the server has closed the connection
  crashed,                \* an assertion has failed
  result                  \* what p9_rpc returned last

threadVars == <<pc, tag, got, hdr, result>>
tableVars  == <<next_tag, interest_table, some_thread_is_reading>>
outVars    == <<write_mutex, outbuf, outErr>>
inVars     == <<inbox, body, inErr>>
serverVars == <<wire, pending, down>>
vars == <<threadVars, tableVars, outVars, inVars, serverVars, crashed>>

(* "idle": not in p9_rpc.  "registered" .. "woken": the interest is in the *)
(* table; "wait" sleeps on interest->cond, "woken" has been signalled.     *)
(* "read" and "dispatch" are in wait_for_header with the token; "body" and *)
(* "release" are in p9_do_vrecv.                                           *)
EnRoute == {"registered", "writing", "flush", "sent", "woken"}
Waiting == EnRoute \cup {"wait"}
Registered == Waiting \cup {"read", "dispatch"}
Labels == Registered \cup {"idle", "body", "release"}

Live(k) == /\ interest_table[k] # NoThread
           /\ pc[interest_table[k]] \in Registered
           /\ tag[interest_table[k]] = k

Occupied == {k \in Tags : interest_table[k] # NoThread}

(* Thread t is at one of these labels of a process that still runs: a      *)
(* failed assertion ends it.                                               *)
At(t, labels) == ~crashed /\ pc[t] \in labels

(* pthread_cond_signal (&interest->cond) on the program counters p.        *)
SignalNobody(p, u) == p
Signal(p, u) == [p EXCEPT ![u] = IF @ = "wait" THEN "woken" ELSE @]

Init ==
  /\ pc = [t \in Thread |-> "idle"]
  /\ next_tag = NTags - 1
  /\ interest_table = [k \in Tags |-> NoThread]
  /\ some_thread_is_reading = FALSE
  /\ tag = [t \in Thread |-> 0]
  /\ got = [t \in Thread |-> NoMsg]
  /\ hdr = [t \in Thread |-> NoMsg]
  /\ write_mutex = NoThread
  /\ outbuf = <<>>
  /\ wire = <<>>
  /\ pending = {}
  /\ inbox = <<>>
  /\ body = NoMsg
  /\ outErr = FALSE /\ inErr = FALSE
  /\ down = FALSE
  /\ crashed = FALSE
  /\ result = [t \in Thread |-> "none"]

(* Return from p9_rpc: the interest, a local of p9_rpc, ceases to exist.   *)
Return(t, res) ==
  /\ pc' = [pc EXCEPT ![t] = "idle"]
  /\ tag' = [tag EXCEPT ![t] = 0]
  /\ got' = [got EXCEPT ![t] = NoMsg]
  /\ hdr' = [hdr EXCEPT ![t] = NoMsg]
  /\ result' = [result EXCEPT ![t] = res]

Goto(t, label) ==
  /\ pc' = [pc EXCEPT ![t] = label]
  /\ UNCHANGED <<tag, got, hdr, result>>

(***************************************************************************)
(* Sending.                                                                *)
(***************************************************************************)
InFlight == {tag[t] : t \in {u \in Thread : pc[u] # "idle"}}

(* next_tag++ on a uint16_t.                                               *)
NextTag(n) == (n + 1) % NTags

(* hurd_ihash_add replaces whatever the slot held.                         *)
AddInterest(t) == interest_table' = [interest_table EXCEPT ![next_tag] = t]

Register(t) ==
  /\ At(t, {"idle"})
  /\ TagReuse \/ next_tag \notin InFlight
  /\ pc' = [pc EXCEPT ![t] = "registered"]
  /\ tag' = [tag EXCEPT ![t] = next_tag]
  /\ next_tag' = NextTag(next_tag)
  /\ AddInterest(t)
  /\ result' = [result EXCEPT ![t] = "none"]
  /\ UNCHANGED <<got, hdr, some_thread_is_reading, outVars, inVars, serverVars, crashed>>

(* hurd_ihash_add could not grow the table: the tag is spent.              *)
RegisterFail(t) ==
  /\ "nomem" \in Faults
  /\ At(t, {"idle"})
  /\ next_tag' = NextTag(next_tag)
  /\ Return(t, "ENOMEM")
  /\ UNCHANGED <<interest_table, some_thread_is_reading, outVars, inVars, serverVars, crashed>>

(* stdio writes s, all it has buffered, to the connection.  It blocks while *)
(* the connection takes no more; it fails once the server has closed the   *)
(* connection, or when it is interrupted with only some of s written: the  *)
(* rest is lost, and half a request at the end would never be taken.       *)
WriteOut(s) ==
  /\ outbuf' = <<>>
  /\ \/ ~down /\ Len(wire) < OutCap /\ wire' = wire \o s /\ outErr' = outErr
     \/ down /\ wire' = wire /\ outErr' = TRUE
     \/ /\ "cancel" \in Faults
        /\ \E n \in 0 .. Len(s) - 1 :
             /\ n = 0 \/ (Len(wire) + n) % 2 = 0
             /\ wire' = wire \o SubSeq(s, 1, n)
        /\ outErr' = TRUE

(* fwrite: buffer the part, or, the buffer being full, write everything.   *)
(* Once a write has failed every request fails, and what the stream still  *)
(* carries is not tracked.                                                 *)
Put(t, part) ==
  \/ outErr /\ UNCHANGED <<outbuf, wire, outErr>>
  \/ /\ ~outErr
     /\ LET s == Append(outbuf, [of |-> t, tag |-> tag[t], part |-> part]) IN
          \/ outbuf' = s /\ UNCHANGED <<wire, outErr>>
          \/ WriteOut(s)

(* pthread_mutex_lock (&write_mutex).                                      *)
LockWriteUnguarded(t) == write_mutex' = t
LockWrite(t) == write_mutex = NoThread /\ write_mutex' = t

(* p9_vsend: lock write_mutex, write the header ...                        *)
WriteHeader(t) ==
  /\ At(t, {"registered"})
  /\ LockWrite(t)
  /\ Put(t, "header")
  /\ Goto(t, "writing")
  /\ UNCHANGED <<pending, down, tableVars, inVars, crashed>>

(* ... write the body, unlock, and give up if the stream has ever failed,  *)
(* returning from p9_rpc with the interest still in the table.             *)
WriteBody(t) ==
  /\ At(t, {"writing"})
  /\ write_mutex' = NoThread
  /\ Put(t, "body")
  /\ IF outErr' THEN Return(t, "ferror") ELSE Goto(t, "flush")
  /\ UNCHANGED <<pending, down, tableVars, inVars, crashed>>

FlushForgotten(t) ==
  /\ At(t, {"flush"})
  /\ Goto(t, "sent")
  /\ UNCHANGED <<outVars, serverVars, tableVars, inVars, crashed>>

(* fflush, outside write_mutex: it also writes what others have buffered.  *)
(* Its result is ignored.                                                  *)
Flush(t) ==
  /\ At(t, {"flush"})
  /\ \/ outbuf = <<>> /\ UNCHANGED <<outbuf, wire, outErr>>
     \/ outbuf # <<>> /\ WriteOut(outbuf)
  /\ Goto(t, "sent")
  /\ UNCHANGED <<write_mutex, pending, down, tableVars, inVars, crashed>>

(***************************************************************************)
(* wait_for_header.                                                        *)
(***************************************************************************)
(* hurd_ihash_locp_remove: by slot, whoever is in it.                      *)
RemoveNothing(t) == UNCHANGED interest_table
RemoveInterest(t) == interest_table' = [interest_table EXCEPT ![tag[t]] = NoThread]

(* Wait for the thread that reads, or read.                                *)
AlwaysRead == "read"
WaitOrRead == IF some_thread_is_reading THEN "wait" ELSE "read"

(* The code at `again': the header is here, or somebody reads and we       *)
(* sleep, or we take the token.                                            *)
WaitForHeader(t) ==
  /\ At(t, {"sent", "woken"})
  /\ IF got[t] # NoMsg
       THEN /\ RemoveInterest(t)
            /\ crashed' = (crashed \/ ~some_thread_is_reading)
            /\ Goto(t, "body")
            /\ UNCHANGED some_thread_is_reading
       ELSE /\ some_thread_is_reading' = TRUE
            /\ Goto(t, WaitOrRead)
            /\ UNCHANGED <<interest_table, crashed>>
  /\ UNCHANGED <<next_tag, outVars, inVars, serverVars>>

(* The next seven bytes of p9_conn_in: a header, or, if a body was left    *)
(* unread, bytes of that body, which may look like any header.             *)
NextHeader(m) ==
  IF body = NoMsg
    THEN inbox # <<>> /\ m = Head(inbox)
    ELSE m.of = NoThread /\ ~m.cut

ReadHeader(t) ==
  /\ At(t, {"read"})
  /\ \E m \in Msg :
       /\ NextHeader(m)
       /\ hdr' = [hdr EXCEPT ![t] = m]
       /\ IF body = NoMsg
            THEN body' = m /\ inbox' = Tail(inbox)
            ELSE UNCHANGED <<body, inbox>>
  /\ pc' = [pc EXCEPT ![t] = "dispatch"]
  /\ UNCHANGED <<got, result, tag, inErr, tableVars, outVars, serverVars, crashed>>

KeepToken == UNCHANGED some_thread_is_reading
ClearToken == some_thread_is_reading' = FALSE

(* `out:' fread met the end of the stream, or was interrupted, which sets  *)
(* its error flag.  The token is cleared; nobody is signalled and the      *)
(* interest stays in the table.                                            *)
ReadHeaderFails(t) ==
  /\ At(t, {"read"})
  /\ inbox = <<>>
  /\ \/ down /\ inErr' = inErr
     \/ "cancel" \in Faults /\ inErr' = TRUE
  /\ ClearToken
  /\ Return(t, IF inErr' THEN "ferror" ELSE "EIO")
  /\ UNCHANGED <<next_tag, interest_table, inbox, body, outVars, serverVars, crashed>>

(* "See if we read the message we wanted."                                 *)
AnyIsOurs(t) == TRUE
Ours(t) == hdr[t].tag = tag[t]

DispatchOwn(t) ==
  /\ At(t, {"dispatch"})
  /\ Ours(t)
  /\ got' = [got EXCEPT ![t] = hdr[t]]
  /\ hdr' = [hdr EXCEPT ![t] = NoMsg]
  /\ RemoveInterest(t)
  /\ pc' = [pc EXCEPT ![t] = "body"]
  /\ UNCHANGED <<result, tag, next_tag, some_thread_is_reading, outVars, inVars, serverVars, crashed>>

(* Hand the header and the token to its owner, then go to `again', where   *)
(* the token is set, so sleep.                                             *)
DispatchOther(t) ==
  /\ At(t, {"dispatch"})
  /\ ~Ours(t)
  /\ Live(hdr[t].tag)
  /\ LET u == interest_table[hdr[t].tag] IN
       /\ got' = [got EXCEPT ![u] = hdr[t]]
       /\ pc' = Signal([pc EXCEPT ![t] = "wait"], u)
  /\ hdr' = [hdr EXCEPT ![t] = NoMsg]
  /\ UNCHANGED <<result, tag, tableVars, outVars, inVars, serverVars, crashed>>

(* The slot points to the interest of a call that has returned: a dead     *)
(* stack frame is checked, written and signalled.                          *)
DispatchStale(t) ==
  /\ At(t, {"dispatch"})
  /\ ~Ours(t)
  /\ interest_table[hdr[t].tag] # NoThread
  /\ ~Live(hdr[t].tag)
  /\ crashed' \in {crashed, TRUE}
  /\ pc' = [pc EXCEPT ![t] = "wait"]
  /\ hdr' = [hdr EXCEPT ![t] = NoMsg]
  /\ UNCHANGED <<got, result, tag, tableVars, outVars, inVars, serverVars>>

(* assert_backtrace (0): a message nobody waits for.                       *)
DispatchUnknown(t) ==
  /\ At(t, {"dispatch"})
  /\ ~Ours(t)
  /\ interest_table[hdr[t].tag] = NoThread
  /\ crashed' = TRUE
  /\ UNCHANGED <<threadVars, tableVars, outVars, inVars, serverVars>>

(* pthread_hurd_cond_wait_np returned EINTR.                               *)
CancelWait(t) ==
  /\ "cancel" \in Faults
  /\ At(t, {"wait", "woken"})
  /\ Return(t, "EINTR")
  /\ UNCHANGED <<tableVars, outVars, inVars, serverVars, crashed>>

(* A condition variable may wake its waiter without a signal.              *)
SpuriousWake(t) ==
  /\ At(t, {"wait"})
  /\ Goto(t, "woken")
  /\ UNCHANGED <<tableVars, outVars, inVars, serverVars, crashed>>

(***************************************************************************)
(* p9_do_vrecv.                                                            *)
(***************************************************************************)
(* Read the body according to its type and drain what is left of it.  A    *)
(* reply of another type is only drained, and that only while ferror is    *)
(* clear.                                                                  *)
ReadBody(t) ==
  /\ At(t, {"body"})
  /\ LET m == got[t] IN
       /\ body' = IF m.of = NoThread \/ (inErr /\ m.kind = "other") THEN body ELSE NoMsg
       /\ result' = [result EXCEPT ![t] =
                       CASE m.kind = "other" -> "other"
                         [] m.kind # "other" /\ inErr -> "ferror"
                         [] m.kind # "other" /\ ~inErr -> IF m.cut THEN "short" ELSE m.kind]
  /\ pc' = [pc EXCEPT ![t] = "release"]
  /\ UNCHANGED <<got, hdr, tag, inbox, inErr, tableVars, outVars, serverVars, crashed>>

(* fread was interrupted: the rest of the body stays in the stream.        *)
ReadBodyInterrupted(t) ==
  /\ "cancel" \in Faults
  /\ At(t, {"body"})
  /\ inErr' = TRUE
  /\ result' = [result EXCEPT ![t] = "ferror"]
  /\ pc' = [pc EXCEPT ![t] = "release"]
  /\ UNCHANGED <<got, hdr, tag, inbox, body, tableVars, outVars, serverVars, crashed>>

(* Clear the token and signal the first interest the iteration meets.      *)
Release(t) ==
  /\ At(t, {"release"})
  /\ ClearToken
  /\ \/ /\ Occupied = {}
        /\ pc' = [pc EXCEPT ![t] = "idle"]
     \/ \E k \in Occupied :
          pc' = LET p == [pc EXCEPT ![t] = "idle"]
                IN  IF Live(k) THEN Signal(p, interest_table[k]) ELSE p
  /\ tag' = [tag EXCEPT ![t] = 0]
  /\ got' = [got EXCEPT ![t] = NoMsg]
  /\ UNCHANGED <<hdr, result, next_tag, interest_table, outVars, inVars, serverVars, crashed>>

(***************************************************************************)
(* The server and the network (external).                                  *)
(***************************************************************************)
(* The server takes a whole request once it has room for its reply.        *)
Accept ==
  /\ ~crashed /\ ~down
  /\ Len(wire) >= 2
  /\ Cardinality(pending) + Len(inbox) < InCap
  /\ pending' = pending \cup {[of |-> wire[1].of, tag |-> wire[1].tag]}
  /\ wire' = SubSeq(wire, 3, Len(wire))
  /\ UNCHANGED <<down, threadVars, tableVars, outVars, inVars, crashed>>

(* It answers its requests in any order.                                   *)
Reply(r, kind) ==
  /\ ~crashed /\ ~down
  /\ r \in pending
  /\ pending' = pending \ {r}
  /\ inbox' = Append(inbox, [tag |-> r.tag, of |-> r.of, kind |-> kind, cut |-> FALSE])
  /\ UNCHANGED <<wire, down, body, inErr, threadVars, tableVars, outVars, crashed>>

(* It closes the connection: replies still in transit are lost, and the    *)
(* last one that arrives may arrive cut short.                             *)
ConnDown ==
  /\ "down" \in Faults
  /\ ~crashed /\ ~down
  /\ down' = TRUE
  /\ \E n \in 0 .. Len(inbox) :
       LET arrived == SubSeq(inbox, 1, n) IN
         \/ inbox' = arrived
         \/ n > 0 /\ inbox' = [arrived EXCEPT ![n].cut = TRUE]
  /\ UNCHANGED <<wire, pending, body, inErr, threadVars, tableVars, outVars, crashed>>

Server == Accept \/ \E r \in pending, kind \in Kinds : Reply(r, kind)

Send(t) == WriteHeader(t) \/ WriteBody(t) \/ Flush(t)
Receive(t) ==
  \/ WaitForHeader(t) \/ ReadHeader(t) \/ ReadHeaderFails(t)
  \/ DispatchOwn(t) \/ DispatchOther(t) \/ DispatchStale(t) \/ DispatchUnknown(t)
  \/ ReadBody(t) \/ ReadBodyInterrupted(t) \/ Release(t)

Next ==
  \/ \E t \in Thread :
       \/ Register(t) \/ RegisterFail(t) \/ Send(t) \/ Receive(t)
       \/ CancelWait(t) \/ SpuriousWake(t)
  \/ Server
  \/ ConnDown

Spec == Init /\ [][Next]_vars

(* A thread that can run does; mutexes and the connection are granted      *)
(* without starvation (SF where another thread can win the race); the      *)
(* server reads requests it has room for and answers each of them.  No     *)
(* call need start, and no fault or spurious wakeup need happen.           *)
Answer(t) == \E r \in pending, kind \in Kinds : r.of = t /\ Reply(r, kind)

Fairness ==
  /\ \A t \in Thread :
       /\ SF_vars(Send(t))
       /\ WF_vars(Receive(t))
       /\ WF_vars(Answer(t))
  /\ WF_vars(Accept)

FairSpec == Spec /\ Fairness

(***************************************************************************)
(* Properties.                                                             *)
(***************************************************************************)
(* The values every variable may take; a thread that dispatches has read a *)
(* header, and one that reads a body has been given one.                   *)
TypeOK ==
  /\ pc \in [Thread -> Labels]
  /\ next_tag \in Tags
  /\ interest_table \in [Tags -> Thread \cup {NoThread}]
  /\ some_thread_is_reading \in BOOLEAN
  /\ tag \in [Thread -> Tags]
  /\ got \in [Thread -> Msg \cup {NoMsg}]
  /\ hdr \in [Thread -> Msg \cup {NoMsg}]
  /\ \A t \in Thread : pc[t] = "dispatch" => hdr[t] \in Msg
  /\ \A t \in Thread : pc[t] \in {"body", "release"} => got[t] \in Msg
  /\ write_mutex \in Thread \cup {NoThread}
  /\ outbuf \in Seq(Part)
  /\ wire \in Seq(Part)
  /\ pending \subseteq [of : Thread, tag : Tags]
  /\ inbox \in Seq(Msg)
  /\ body \in Msg \cup {NoMsg}
  /\ outErr \in BOOLEAN /\ inErr \in BOOLEAN
  /\ down \in BOOLEAN
  /\ crashed \in BOOLEAN
  /\ result \in [Thread -> Outcome]

HoldsToken(t) == pc[t] \in {"read", "dispatch", "body", "release"} \/ got[t] # NoMsg

(* p9_conn_in is only read by the holder of some_thread_is_reading: at any *)
(* moment at most one thread is reading it or has been handed a header     *)
(* whose body it must read, and while there is one the token is set.  A    *)
(* thread that reads a header has not been handed one of its own.          *)
StreamMutex ==
  /\ \A t, u \in Thread : HoldsToken(t) /\ HoldsToken(u) => t = u
  /\ (\E t \in Thread : HoldsToken(t)) => some_thread_is_reading
  /\ \A t \in Thread : pc[t] \in {"read", "dispatch"} => got[t] = NoMsg

(* The token is never lost: while it is set, some thread reads or has been *)
(* handed a header, and will clear the token or pass it on.                *)
TokenHasHolder == some_thread_is_reading => \E t \in Thread : HoldsToken(t)

(* interest_table holds the interests of the calls that still expect their *)
(* header, each under its own tag, and nothing else: no call returns and   *)
(* leaves a pointer to its stack frame behind, and none is overwritten.    *)
TableExact ==
  \A k \in Tags, t \in Thread :
    interest_table[k] = t <=> pc[t] \in Registered /\ tag[t] = k

(* While nobody reads and somebody sleeps, some thread is on its way to    *)
(* taking the token: clearing it never leaves only sleepers behind.        *)
NoLostWakeup ==
  ~some_thread_is_reading /\ (\E t \in Thread : pc[t] = "wait")
    => \E t \in Thread : pc[t] \in EnRoute

(* The connection is up: what holds of the streams while nothing fails.    *)
Healthy == ~outErr /\ ~inErr /\ ~down

(* A call starts with no header in its hands.                              *)
StartsClean == \A t \in Thread : pc[t] = "idle" => got[t] = NoMsg

(* The inductive invariant of an undisturbed multiplexer.                  *)
UndisturbedInv == Healthy /\ StartsClean /\ TableExact /\ TokenHasHolder /\ NoLostWakeup

(* A thread that reads a body reads the reply to its own request: the      *)
(* header it was given and the body next in the stream are that reply's.   *)
RightReply ==
  \A t \in Thread :
    /\ got[t] # NoMsg => got[t].of = t
    /\ pc[t] = "body" => body = got[t]
    /\ pc[t] \in {"read", "release"} => body = NoMsg

(* Requests leave whole until a write fails: what is buffered and in       *)
(* transit is a sequence of headers each followed by its own body, except  *)
(* that the thread in write_mutex may have written its last body part not  *)
(* yet.                                                                    *)
OutFramed ==
  LET s == wire \o outbuf IN
    ~outErr => \A i \in 1 .. Len(s) :
      /\ s[i].part = IF i % 2 = 1 THEN "header" ELSE "body"
      /\ i % 2 = 0 => s[i].of = s[i - 1].of /\ s[i].tag = s[i - 1].tag

(* A thread that waits for a reply has nothing left in the stdio buffer,   *)
(* although the flush is done after write_mutex is released.               *)
FlushedBeforeWaiting ==
  \A t \in Thread : pc[t] \in Registered \ {"registered", "writing", "flush"} =>
    \A i \in 1 .. Len(outbuf) : outbuf[i].of # t

(* Whoever sleeps in wait_for_header while nobody reads is not left there: *)
(* it is signalled, or somebody reads again.                               *)
SleepersAreWoken ==
  \A t \in Thread :
    pc[t] = "wait" /\ ~some_thread_is_reading ~> pc[t] # "wait" \/ some_thread_is_reading

(***************************************************************************)
(* The multiplexer implements RpcService.                                  *)
(***************************************************************************)
(* The replies that exist: in transit, as a header in a thread's hands, or *)
(* as a body not yet read.                                                 *)
Replies == {inbox[i] : i \in 1 .. Len(inbox)} \cup ({body} \ {NoMsg})

Service == INSTANCE RpcService WITH
  calling <- {t \in Thread : pc[t] # "idle"},
  answers <- {[of |-> m.of, kind |-> m.kind] : m \in Replies}

(* Every step of the multiplexer is a step of the service or invisible to  *)
(* its callers (one answer per call, returned to the call it answers), and *)
(* with fair scheduling every call is served and completes.                *)
ImplementsFairService == Service!FairSpec
=============================================================================
