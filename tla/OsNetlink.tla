----------------------------- MODULE OsNetlink -----------------------------
(***************************************************************************)
(* Netlink jobs (subsystems/os_linux/os_system_linux.c and                 *)
(* os_routing_linux.c): requests are collected in the output buffer of a   *)
(* netlink socket, sent to the kernel in one batch, and reported to their  *)
(* owner when the kernel answers or when the feedback timer fires.         *)
(*                                                                         *)
(* Both files define a global list named _rtnetlink_feedback and are       *)
(* linked into one library, so both sockets share ONE list.  What happens  *)
(* after a NULL pointer is followed, or after a callback pointer is read   *)
(* from a job of the other kind, is undefined and ends the behaviour.      *)
(*                                                                         *)
(* The kernel handles a batch while sendmsg() runs and answers every       *)
(* request once; an answer is lost when the receive buffer is full.        *)
(***************************************************************************)
EXTENDS Integers, Sequences, FiniteSets, SequencesExt

CONSTANTS
  Routes,       \* struct os_route objects
  Addrs,        \* struct os_system_address objects
  MaxRequests,  \* bound: the requests made
  Idle, ListHead    \* no timeout is being handled; the head of the list

Jobs == Routes \cup Addrs
Socks == {"routing", "system"}
SockOf(j) == IF j \in Routes THEN "routing" ELSE "system"
Seqnos == 1..MaxRequests

ASSUME JobsAssumption ==
  /\ Routes \cap Addrs = {}
  /\ Idle \notin Jobs /\ ListHead \notin Jobs /\ Idle # ListHead
  /\ MaxRequests \in Nat

VARIABLES
  nl,         \* struct os_system_netlink: out, write event, msg_in_transit, timeout
  rcv,        \* answers waiting in the sockets
  feedback,   \* _rtnetlink_feedback
  nl_seq,     \* job->_internal.nl_seq
  seq_used,   \* _seq_used
  walk,       \* the job the timeout loop of the routing socket has reached, or Idle
  undefined,  \* whether the program has left the defined behaviour
  verdict,    \* history: what the kernel did with each request
  reported    \* history: what cb_finished() was told of each request

vars == <<nl, rcv, feedback, nl_seq, seq_used, walk, undefined, verdict, reported>>

Running == walk = Idle /\ ~undefined

-----------------------------------------------------------------------------
(* Requests *)

\* os_system_netlink_send(); the message is lost if the buffer cannot grow.
os_system_netlink_send(n, seq, oom) ==
  [out |-> IF oom THEN n.out ELSE Append(n.out, seq), write |-> TRUE,
   transit |-> n.transit, timer |-> n.timer]

\* A request of job j, which the caller follows (cb) or not.
Request(j, cb, oom) ==
  /\ seq_used < MaxRequests
  /\ seq_used' = seq_used + 1
  /\ nl' = [nl EXCEPT ![SockOf(j)] = os_system_netlink_send(@, seq_used + 1, oom)]
  /\ nl_seq' = IF cb THEN [nl_seq EXCEPT ![j] = seq_used + 1] ELSE nl_seq

\* The caller may not use an object whose last request is still pending.
NewRequest(j, cb, oom) ==
  /\ Running
  /\ ~Contains(feedback, j)
  /\ Request(j, cb, oom)
  /\ feedback' = IF cb THEN Append(feedback, j) ELSE feedback
  /\ UNCHANGED <<rcv, walk, undefined, verdict, reported>>

os_routing_set(r, cb, oom) == r \in Routes /\ NewRequest(r, cb, oom)
os_routing_query(r, oom) == r \in Routes /\ NewRequest(r, TRUE, oom)
os_system_ifaddr_set(a, cb, oom) == a \in Addrs /\ NewRequest(a, cb, oom)

-----------------------------------------------------------------------------
(* The end of a job *)

\* list_remove(): the list without a job that stands on it.
Without(j) == LET i == CHOOSE i \in DOMAIN feedback : feedback[i] = j
              IN RemoveAt(feedback, i)

\* _routing_finished() and _address_finished(): off the list, then cb_finished().
Finished(j, result) ==
  /\ feedback' = Without(j)
  /\ reported' = [reported EXCEPT ![nl_seq[j]] = result]

\* os_routing_interrupt() and os_system_ifaddr_interrupt()
interrupt(j) ==
  /\ Running
  /\ Contains(feedback, j)
  /\ Finished(j, "failed")
  /\ UNCHANGED <<nl, rcv, nl_seq, seq_used, walk, undefined, verdict>>

netlink_job_finished(n) ==
  IF n.transit > 1
  THEN [out |-> n.out, write |-> n.write, transit |-> n.transit - 1, timer |-> n.timer]
  ELSE [out |-> n.out, write |-> n.write, transit |-> 0, timer |-> FALSE]

-----------------------------------------------------------------------------
(* _netlink_handler() *)

\* sendmsg() sends the whole buffer or fails, also if there is nothing to send.
flush_netlink_buffer(n, sent) ==
  IF sent THEN [out |-> <<>>, write |-> FALSE, transit |-> n.transit + 1, timer |-> TRUE]
  ELSE [out |-> n.out, write |-> n.write, transit |-> n.transit, timer |-> TRUE]

\* External: the answers of the kernel to a batch that are not lost, in the
\* order of the batch.
Answers(out, what) ==
  LET kept == {i \in DOMAIN out : what[i] # "lost"}
  IN {[n \in DOMAIN pick |-> [seq |-> out[pick[n]], result |-> what[pick[n]]]] :
        pick \in {p \in [1..Cardinality(kept) -> kept] :
                    \A m, n \in DOMAIN p : m < n => p[m] < p[n]}}

\* event_write
HandleWrite(s, sent, what) ==
  /\ nl[s].write
  /\ sent => nl[s].out # <<>>
  /\ nl' = [nl EXCEPT ![s] = flush_netlink_buffer(@, sent)]
  /\ IF sent
     THEN /\ \E answers \in Answers(nl[s].out, what) : rcv' = [rcv EXCEPT ![s] = @ \o answers]
          /\ verdict' = [q \in Seqnos |->
               IF Contains(nl[s].out, q)
               THEN what[CHOOSE i \in DOMAIN nl[s].out : nl[s].out[i] = q]
               ELSE verdict[q]]
     ELSE UNCHANGED <<rcv, verdict>>
  /\ UNCHANGED <<feedback, nl_seq, reported>>

\* Mutants of Match: an answer finishes the oldest job of the socket, or the
\* search ends with the first job.
MatchFirst(s, seq) == {i \in DOMAIN feedback : i = 1 /\ nl_seq[feedback[i]] = seq}
MatchOldest(s, seq) == {i \in DOMAIN feedback : SockOf(feedback[i]) = s}

\* Where the callbacks for errors and ends of dumps find the job of an answer.
Match(s, seq) == {i \in DOMAIN feedback : nl_seq[feedback[i]] = seq}

\* event_read: one answer, then the job in transit is finished, whoever's it was.
HandleRead(s) ==
  /\ rcv[s] # <<>>
  /\ LET answer == rcv[s][1]
         found == Match(s, answer.seq)
     IN \/ found = {} /\ UNCHANGED <<feedback, reported>>
        \/ \E i \in found : /\ \A k \in found : i <= k
                            /\ Finished(feedback[i], answer.result)
  /\ rcv' = [rcv EXCEPT ![s] = Tail(@)]
  /\ nl' = [nl EXCEPT ![s] = netlink_job_finished(@)]
  /\ UNCHANGED <<nl_seq, verdict>>

\* A call for both events is the write, then the read.
netlink_handler(s) ==
  /\ Running
  /\ \/ \E sent \in BOOLEAN, what \in [DOMAIN nl[s].out -> {"ok", "error", "lost"}] :
          HandleWrite(s, sent, what)
     \/ HandleRead(s)
  /\ UNCHANGED <<seq_used, walk, undefined>>

-----------------------------------------------------------------------------
(* _cb_handle_netlink_timeout() *)

\* The job behind j on the list, or its head.
NextOf(j) ==
  LET i == CHOOSE i \in DOMAIN feedback : feedback[i] = j
  IN IF i = Len(feedback) THEN ListHead ELSE feedback[i + 1]

\* The one-shot timer has fired.
TimerFired(s) == Running /\ nl[s].timer

\* The handler starts without a timer and ends without a job in transit.
TimerGone(n) == [out |-> n.out, write |-> n.write, transit |-> n.transit, timer |-> FALSE]
TransitGone(n) == [out |-> n.out, write |-> n.write, transit |-> 0, timer |-> n.timer]

\* Nothing to report.
TimeoutOfNone(s) ==
  /\ TimerFired(s)
  /\ feedback = <<>>
  /\ nl' = [nl EXCEPT ![s] = TransitGone(TimerGone(@))]
  /\ UNCHANGED <<rcv, feedback, nl_seq, seq_used, walk, undefined, verdict, reported>>

\* The loop of the routing socket starts with the first job of the list.
TimeoutStarts ==
  /\ TimerFired("routing")
  /\ feedback # <<>>
  /\ nl' = [nl EXCEPT !["routing"] = TimerGone(@)]
  /\ walk' = feedback[1]
  /\ UNCHANGED <<rcv, feedback, nl_seq, seq_used, undefined, verdict, reported>>

\* cb_finished() of a job that timed out may make the request once more, which
\* puts the job at the end of the list.
Retry(j, oom) ==
  /\ Request(j, TRUE, oom)
  /\ feedback' = Append(Without(j), j)

ReportTimeout(j) ==
  /\ reported' = [reported EXCEPT ![nl_seq[j]] = "failed"]
  /\ \/ feedback' = Without(j) /\ UNCHANGED <<nl, nl_seq, seq_used>>
     \/ \E oom \in BOOLEAN : Retry(j, oom)

\* The loop has remembered the next job before it reports this one.
TimeoutReports ==
  /\ walk \in Routes /\ ~undefined
  /\ ReportTimeout(walk)
  /\ walk' = NextOf(walk)
  /\ UNCHANGED <<rcv, undefined, verdict>>

\* The job is an address: its callback is read from the wrong place.
TimeoutOfForeign ==
  /\ walk \in Addrs /\ ~undefined
  /\ undefined' = TRUE
  /\ UNCHANGED <<nl, rcv, feedback, nl_seq, seq_used, walk, verdict, reported>>

TimeoutEnds ==
  /\ walk = ListHead
  /\ nl' = [nl EXCEPT !["routing"] = TransitGone(@)]
  /\ walk' = Idle
  /\ UNCHANGED <<rcv, feedback, nl_seq, seq_used, undefined, verdict, reported>>

\* The loop of the address socket takes the next job from the one it has just
\* reported.  If the callback has put that job back, at the end of the list, the
\* loop ends; otherwise the next pointer is NULL.
AddressTimeoutRetried ==
  /\ TimerFired("system")
  /\ feedback # <<>> /\ feedback[1] \in Addrs
  /\ seq_used < MaxRequests
  /\ reported' = [reported EXCEPT ![nl_seq[feedback[1]]] = "failed"]
  /\ seq_used' = seq_used + 1
  /\ nl_seq' = [nl_seq EXCEPT ![feedback[1]] = seq_used + 1]
  /\ feedback' = Append(Without(feedback[1]), feedback[1])
  /\ \E oom \in BOOLEAN :
       nl' = [nl EXCEPT !["system"] =
                   TransitGone(os_system_netlink_send(TimerGone(@), seq_used + 1, oom))]
  /\ UNCHANGED <<rcv, walk, undefined, verdict>>

AddressTimeoutRunsOff ==
  /\ TimerFired("system")
  /\ feedback # <<>>
  /\ undefined' = TRUE
  /\ UNCHANGED <<nl, rcv, feedback, nl_seq, seq_used, walk, verdict, reported>>

cb_handle_netlink_timeout ==
  \/ \E s \in Socks : TimeoutOfNone(s)
  \/ TimeoutStarts \/ TimeoutReports \/ TimeoutOfForeign \/ TimeoutEnds
  \/ AddressTimeoutRetried \/ AddressTimeoutRunsOff

-----------------------------------------------------------------------------
Init ==
  /\ nl = [s \in Socks |-> [out |-> <<>>, write |-> FALSE, transit |-> 0, timer |-> FALSE]]
  /\ rcv = [s \in Socks |-> <<>>]
  /\ feedback = <<>>
  /\ nl_seq = [j \in Jobs |-> 0]
  /\ seq_used = 0
  /\ walk = Idle
  /\ undefined = FALSE
  /\ verdict = [q \in Seqnos |-> "none"]
  /\ reported = [q \in Seqnos |-> "none"]

Client ==
  \E j \in Jobs, cb, oom \in BOOLEAN :
     \/ os_routing_set(j, cb, oom)
     \/ os_routing_query(j, oom)
     \/ os_system_ifaddr_set(j, cb, oom)
     \/ interrupt(j)

Next == \/ Client
        \/ \E s \in Socks : netlink_handler(s)
        \/ cb_handle_netlink_timeout

\* The main loop serves a socket with waiting data, and callbacks return.
Fairness ==
  /\ \A s \in Socks : WF_vars(Running /\ HandleRead(s) /\ UNCHANGED <<seq_used, walk, undefined>>)
  /\ WF_vars(TimeoutReports \/ TimeoutOfForeign \/ TimeoutEnds)

Spec == Init /\ [][Next]_vars /\ Fairness

-----------------------------------------------------------------------------
(* Properties *)

\* The error codes of cb_finished(): 0, a number of the kernel, or -1.
Results == {"none", "ok", "error", "failed"}

TypeOK ==
  /\ nl \in [Socks -> [out : Seq(Seqnos), write : BOOLEAN, transit : Nat, timer : BOOLEAN]]
  /\ rcv \in [Socks -> Seq([seq : Seqnos, result : {"ok", "error"}])]
  /\ feedback \in Seq(Jobs)
  /\ nl_seq \in [Jobs -> 0..MaxRequests]
  /\ seq_used \in 0..MaxRequests
  /\ walk \in Jobs \cup {Idle, ListHead}
  /\ undefined \in BOOLEAN
  /\ verdict \in [Seqnos -> {"none", "ok", "error", "lost"}]
  /\ reported \in [Seqnos -> Results]

\* The list holds a job once, and exactly the requests on it are still to be
\* reported: no late answer, timeout or retry loses a job or leaves one behind.
PendingIsUnreported ==
  /\ IsInjective(feedback)
  /\ \A j \in Jobs : Contains(feedback, j) =>
       nl_seq[j] # 0 /\ reported[nl_seq[j]] = "none"
  /\ \A j \in Jobs : ~Contains(feedback, j) /\ nl_seq[j] # 0 =>
       reported[nl_seq[j]] # "none"

\* A job learns what the kernel did with its own request, never with one that
\* was given up before or that belongs to another job.
ReportedIsTrue ==
  \A q \in Seqnos : reported[q] \in {"ok", "error"} => verdict[q] = reported[q]

\* cb_finished() is called once for a request.
ReportedOnce == [][\A q \in Seqnos : reported[q] # "none" => reported'[q] = reported[q]]_vars

\* A request whose answer has arrived is reported, however many late answers,
\* retries and timeouts come first.
AnswerIsReported ==
  \A q \in Seqnos :
    verdict[q] \in {"ok", "error"} /\ (\E j \in Jobs : nl_seq[j] = q)
      ~> reported[q] # "none" \/ undefined

\* The comment of _netlink_job_finished(): the timer is stopped because all
\* outstanding jobs are finished.
StoppedWhenAllFinished ==
  [][\A s \in Socks :
       Running /\ HandleRead(s) /\ nl[s].timer /\ ~nl'[s].timer =>
         \A j \in Jobs : SockOf(j) = s /\ Contains(feedback', j)
                          => Contains(nl'[s].out, nl_seq[j])]_vars

\* The comments of _cb_rtnetlink_timeout() and _address_finished(): a timeout is
\* handled by reporting the pending addresses with an error code.
TimeoutIsHandled == ~undefined
=============================================================================
