---------------------------- MODULE ControlQueue ----------------------------
(***************************************************************************)
(* How the HTTP workers of the Windows overlay's control server hand their *)
(* requests to the Win32 message thread: the deque of tickets, the posted  *)
(* window messages, the deadline of a ticket and the end of the server     *)
(* (control_native.inc:7-26, 315-334, 371-377).                            *)
(*                                                                         *)
(* What a request does to the overlay is the matter of OverlayControl; all *)
(* that counts here is that a handler which reads an rgd include pumps the *)
(* window messages meanwhile (registry_rgd.inc:107-113), so that a second  *)
(* ticket may be handled inside the first.  A nested handler cannot read:  *)
(* handle() answers 409 while an include is being read.                    *)
(***************************************************************************)
EXTENDS Naturals, Sequences

CONSTANTS
  Worker,   \* threads of the server's pool; four in the code
  Request,  \* requests of the clients; a request is sent once
  Limit,    \* capacity of the deque; eight in the code
  None      \* no request

ASSUME QueueAssumption ==
  /\ None \notin Request
  /\ Limit \in Nat \ {0}

VARIABLES
  job,        \* per worker: the request it serves
  answer,     \* per request: the answer its client was sent
  tickets,    \* the deque, as requests
  posted,     \* Request messages in the window's queue
  unposted,   \* messages that PostMessageW failed to post, a history
  reply,      \* per ticket: how it was marked done
  expired,    \* tickets whose fifteen seconds have passed
  cancelled,  \* tickets whose worker has given up
  started,    \* tickets whose handler was entered
  outer,      \* the ticket handled from the message loop
  inner,      \* the ticket handled inside outer's read
  reading,    \* outer's handler is pumping messages
  closing,    \* the flag of that name
  server      \* "running", "joining" its workers, or "stopped"

workerVars == <<job, answer>>
ticketVars == <<reply, expired, cancelled>>
uiVars == <<started, outer, inner, reading>>
stopVars == <<closing, server>>
dequeVars == <<tickets, posted, unposted>>
vars == <<workerVars, dequeVars, ticketVars, uiVars, stopVars>>

Answer == {"none", "reply", "full", "stopping", "timeout"}

TypeOK ==
  /\ job \in [Worker -> Request \cup {None}]
  /\ answer \in [Request -> Answer]
  /\ tickets \in Seq(Request) /\ Len(tickets) <= Limit
  /\ posted \in Nat /\ unposted \in Nat
  /\ reply \in [Request -> {"none", "reply", "stopping"}]
  /\ expired \subseteq Request
  /\ cancelled \subseteq Request
  /\ started \subseteq Request
  /\ outer \in Request \cup {None}
  /\ inner \in Request \cup {None}
  /\ reading \in BOOLEAN
  /\ closing \in BOOLEAN
  /\ server \in {"running", "joining", "stopped"}

Queued == {tickets[i] : i \in 1..Len(tickets)}

Init ==
  /\ job = [w \in Worker |-> None]
  /\ answer = [r \in Request |-> "none"]
  /\ tickets = <<>>
  /\ posted = 0 /\ unposted = 0
  /\ reply = [r \in Request |-> "none"]
  /\ expired = {} /\ cancelled = {} /\ started = {}
  /\ outer = None /\ inner = None /\ reading = FALSE
  /\ closing = FALSE /\ server = "running"

-----------------------------------------------------------------------------
(* The worker's side: dispatch().                                          *)

(* A request that a worker has not taken yet. *)
New(r) == answer[r] = "none" /\ \A w \in Worker : job[w] # r

Accepts(w, r) ==
  /\ server # "stopped"
  /\ job[w] = None
  /\ New(r)

(* The first two conditions are looked at under the mutex of the deque. *)
RefuseStopping(w, r) ==
  /\ Accepts(w, r)
  /\ closing
  /\ answer' = [answer EXCEPT ![r] = "stopping"]
  /\ UNCHANGED <<job, dequeVars, ticketVars, uiVars, stopVars>>

RefuseFull(w, r) ==
  /\ Accepts(w, r)
  /\ ~closing
  /\ Len(tickets) >= Limit
  /\ answer' = [answer EXCEPT ![r] = "full"]
  /\ UNCHANGED <<job, dequeVars, ticketVars, uiVars, stopVars>>

(* Mutant: the window is only woken for the first ticket of the deque. *)
PushSilently(w, r) ==
  /\ Accepts(w, r)
  /\ ~closing
  /\ Len(tickets) < Limit
  /\ job' = [job EXCEPT ![w] = r]
  /\ tickets' = Append(tickets, r)
  /\ posted' = IF tickets = <<>> THEN posted + 1 ELSE posted
  /\ UNCHANGED <<answer, unposted, ticketVars, uiVars, stopVars>>

(* Nobody looks at the result of PostMessageW: when it fails, the ticket   *)
(* is in the deque without a message of its own.                           *)
Push(w, r) ==
  /\ Accepts(w, r)
  /\ ~closing
  /\ Len(tickets) < Limit
  /\ job' = [job EXCEPT ![w] = r]
  /\ tickets' = Append(tickets, r)
  /\ \/ posted' = posted + 1 /\ UNCHANGED unposted
     \/ unposted' = unposted + 1 /\ UNCHANGED posted
  /\ UNCHANGED <<answer, ticketVars, uiVars, stopVars>>

(* The worker sees the ticket done, in time or at the last look that       *)
(* wait_until takes after the deadline.                                    *)
Wake(w) ==
  /\ job[w] # None
  /\ reply[job[w]] # "none"
  /\ answer' = [answer EXCEPT ![job[w]] = reply[job[w]]]
  /\ job' = [job EXCEPT ![w] = None]
  /\ UNCHANGED <<dequeVars, ticketVars, uiVars, stopVars>>

(* Mutant: the worker waits without a deadline. *)
NoTimeOut(w) == FALSE /\ UNCHANGED vars

TimeOut(w) ==
  /\ job[w] # None
  /\ job[w] \in expired
  /\ reply[job[w]] = "none"
  /\ cancelled' = cancelled \cup {job[w]}
  /\ answer' = [answer EXCEPT ![job[w]] = "timeout"]
  /\ job' = [job EXCEPT ![w] = None]
  /\ UNCHANGED <<dequeVars, reply, expired, uiVars, stopVars>>

(* Fifteen seconds pass for the ticket a worker waits on. *)
Expire(w) ==
  /\ job[w] # None
  /\ job[w] \notin expired
  /\ expired' = expired \cup {job[w]}
  /\ UNCHANGED <<workerVars, dequeVars, reply, cancelled, uiVars, stopVars>>

-----------------------------------------------------------------------------
(* The message thread: procedure().                                        *)

Pumping == outer = None \/ (reading /\ inner = None)

(* Mutant: the ticket's worker is not asked whether it still waits. *)
DeadNever(t) == FALSE

(* Looked at under the ticket's mutex, which TimeOut holds as well. *)
Dead(t) == t \in cancelled \/ t \in expired

Begin(t) ==
  IF outer = None THEN outer' = t /\ UNCHANGED inner
                  ELSE inner' = t /\ UNCHANGED outer

(* Mutant: the ticket stays in the deque while it is handled. *)
ReceivePeeks ==
  /\ server = "running" /\ Pumping /\ posted > 0
  /\ posted' = posted - 1
  /\ tickets # <<>>
  /\ ~Dead(Head(tickets))
  /\ started' = started \cup {Head(tickets)}
  /\ Begin(Head(tickets))
  /\ UNCHANGED <<tickets, unposted, workerVars, ticketVars, reading, stopVars>>

Receive ==
  /\ server = "running" /\ Pumping /\ posted > 0
  /\ posted' = posted - 1
  /\ tickets # <<>>
  /\ tickets' = Tail(tickets)
  /\ ~Dead(Head(tickets))
  /\ started' = started \cup {Head(tickets)}
  /\ Begin(Head(tickets))
  /\ UNCHANGED <<workerVars, unposted, ticketVars, reading, stopVars>>

(* A dead ticket is dropped without a reply: its worker ends by itself. *)
Drop ==
  /\ server = "running" /\ Pumping /\ posted > 0
  /\ posted' = posted - 1
  /\ tickets # <<>>
  /\ tickets' = Tail(tickets)
  /\ Dead(Head(tickets))
  /\ UNCHANGED <<workerVars, unposted, ticketVars, uiVars, stopVars>>

BeginRead ==
  /\ outer # None /\ inner = None /\ ~reading
  /\ reading' = TRUE
  /\ UNCHANGED <<workerVars, dequeVars, ticketVars, started, outer, inner, stopVars>>

EndRead ==
  /\ reading /\ inner = None
  /\ reading' = FALSE
  /\ UNCHANGED <<workerVars, dequeVars, ticketVars, started, outer, inner, stopVars>>

(* handle() returns or throws; either way the ticket has its reply. *)
ReplyOuter ==
  /\ outer # None /\ ~reading
  /\ reply' = [reply EXCEPT ![outer] = "reply"]
  /\ outer' = None
  /\ UNCHANGED <<workerVars, dequeVars, expired, cancelled, started, inner, reading, stopVars>>

ReplyInner ==
  /\ inner # None
  /\ reply' = [reply EXCEPT ![inner] = "reply"]
  /\ inner' = None
  /\ UNCHANGED <<workerVars, dequeVars, expired, cancelled, started, outer, reading, stopVars>>

-----------------------------------------------------------------------------
(* StopControlServer, after the message loop.                              *)

Stop ==
  /\ server = "running" /\ outer = None
  /\ closing' = TRUE
  /\ reply' = [r \in Request |-> IF r \in Queued THEN "stopping" ELSE reply[r]]
  /\ tickets' = <<>>
  /\ server' = "joining"
  /\ UNCHANGED <<workerVars, posted, unposted, expired, cancelled, uiVars>>

(* server.reset() returns once the pool is idle; the window goes with its  *)
(* messages.                                                               *)
Joined ==
  /\ server = "joining"
  /\ \A w \in Worker : job[w] = None
  /\ server' = "stopped"
  /\ posted' = 0
  /\ UNCHANGED <<workerVars, tickets, unposted, ticketVars, uiVars, closing>>

-----------------------------------------------------------------------------

WorkerEnds(w) == Wake(w) \/ TimeOut(w)

Next ==
  \/ \E w \in Worker, r \in Request :
       RefuseStopping(w, r) \/ RefuseFull(w, r) \/ Push(w, r)
  \/ \E w \in Worker : Wake(w) \/ TimeOut(w) \/ Expire(w)
  \/ Receive \/ Drop
  \/ BeginRead \/ EndRead \/ ReplyOuter \/ ReplyInner
  \/ Stop \/ Joined

Spec == Init /\ [][Next]_vars

(* Nothing is assumed of the message thread: it may be busy, or stuck in a *)
(* handler, for ever.  Time passes, and a worker that can go on does.      *)
FairSpec ==
  /\ Spec
  /\ \A w \in Worker : WF_vars(Expire(w)) /\ WF_vars(WorkerEnds(w))
  /\ WF_vars(Joined)

-----------------------------------------------------------------------------
(* Safety.                                                                 *)

(* No ticket is stranded while messages can be posted: for each ticket in  *)
(* the deque there is a message that will make the window look at it,      *)
(* although a message pops whatever is first and the dead tickets use up   *)
(* messages too.  Each message that could not be posted strands one ticket *)
(* at most, the last of the deque.                                         *)
TicketsHaveMessages == server = "running" => posted + unposted >= Len(tickets)

(* A client that was told 429 or 503 may send its request again: it had no *)
(* effect.                                                                 *)
RefusedNeverRan ==
  \A r \in Request : answer[r] \in {"full", "stopping"} => r \notin started

(* A request whose client was answered before it was started is never      *)
(* started: 504 comes with no effect, or with one that has begun already   *)
(* ("inspect state before retrying").                                      *)
LateNeverStarts ==
  [][\A r \in Request : answer[r] # "none" /\ r \notin started => r \notin started']_vars

(* A ticket is handled once.  An ended handler is never entered again, and *)
(* never twice at a time.                                                  *)
HandledOnce ==
  /\ outer # None => outer # inner /\ reply[outer] = "none"
  /\ inner # None => reply[inner] = "none"

(* Once the server joins its workers none of them waits for the message    *)
(* thread, which is the one that joins: a ticket is done, or its deadline  *)
(* has passed.                                                             *)
StopWaitsForNone ==
  server = "joining" =>
    \A w \in Worker : job[w] # None => reply[job[w]] # "none" \/ job[w] \in expired

(* The deque, the posted messages and the waiting workers agree: every     *)
(* ticket will be looked at, but for one per failed post, or its worker is *)
(* free to go; and what was refused was not handled.                       *)
Coherent ==
  /\ TypeOK
  /\ TicketsHaveMessages
  /\ StopWaitsForNone
  /\ RefusedNeverRan

-----------------------------------------------------------------------------
(* Liveness.                                                               *)

(* Every request a worker takes is answered, whatever the message thread   *)
(* does.                                                                   *)
RequestsAreAnswered ==
  \A r \in Request : (\E w \in Worker : job[w] = r) ~> answer[r] # "none"

(* Closing the overlay ends: no worker keeps the server from joining. *)
StopCompletes == closing ~> server = "stopped"

=============================================================================
