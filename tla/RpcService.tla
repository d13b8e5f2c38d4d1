----------------------------- MODULE RpcService -----------------------------
(***************************************************************************)
(* What p9_rpc promises its callers (9p-rpc.h: "Register interest, send,   *)
(* receive"): each call is served once and returns the answer the server   *)
(* gave to that call, whatever the other threads do on the same            *)
(* connection.  Tags, streams, locks and the token do not appear.          *)
(***************************************************************************)
EXTENDS Naturals

CONSTANTS Thread, Kinds

VARIABLES
  calling,    \* the threads inside a call
  answers,    \* the answers given and not yet returned
  result      \* what each thread's last call returned

svars == <<calling, answers, result>>

Init ==
  /\ calling = {}
  /\ answers = {}
  /\ result = [t \in Thread |-> "none"]

Call(t) ==
  /\ t \notin calling
  /\ calling' = calling \cup {t}
  /\ result' = [result EXCEPT ![t] = "none"]
  /\ UNCHANGED answers

Serve(t, kind) ==
  /\ t \in calling
  /\ result[t] = "none"
  /\ \A a \in answers : a.of # t
  /\ answers' = answers \cup {[of |-> t, kind |-> kind]}
  /\ UNCHANGED <<calling, result>>

(* The caller consumes its answer ...                                      *)
Consume(t, kind) ==
  /\ [of |-> t, kind |-> kind] \in answers
  /\ answers' = answers \ {[of |-> t, kind |-> kind]}
  /\ result' = [result EXCEPT ![t] = kind]
  /\ UNCHANGED calling

(* ... and returns it.                                                     *)
Return(t) ==
  /\ t \in calling
  /\ result[t] # "none"
  /\ calling' = calling \ {t}
  /\ UNCHANGED <<answers, result>>

Next ==
  \E t \in Thread :
    \/ Call(t) \/ Return(t)
    \/ \E kind \in Kinds : Serve(t, kind) \/ Consume(t, kind)

Spec == Init /\ [][Next]_svars

FairSpec ==
  /\ Spec
  /\ \A t \in Thread : WF_svars((\E kind \in Kinds : Serve(t, kind) \/ Consume(t, kind)) \/ Return(t))
=============================================================================
