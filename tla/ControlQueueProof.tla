--------------------------- MODULE ControlQueueProof --------------------------
(***************************************************************************)
(* Proofs about the control queue for any number of workers and requests   *)
(* and any capacity.  All of them follow from one inductive invariant,     *)
(* Consistent: it says where a request may be (not taken, in the deque, in *)
(* a handler, done) and which of its flags go with each place.             *)
(***************************************************************************)
EXTENDS ControlQueue, TLAPS

(* The life of the server. *)
Server ==
  /\ server = "running" => ~closing /\ posted + unposted = Len(tickets)
  /\ server # "running" => closing /\ tickets = <<>> /\ outer = None

Distinct == \A i, j \in 1..Len(tickets) : tickets[i] = tickets[j] => i = j

(* A worker has, or had, the request. *)
Taken(r) == answer[r] # "none" \/ \E w \in Worker : job[w] = r

Jobs ==
  /\ \A w \in Worker : job[w] # None => answer[job[w]] = "none"
  /\ \A w, v \in Worker : job[w] # None /\ job[w] = job[v] => w = v

Untaken ==
  \A r \in Request : ~Taken(r) => r \notin started /\ r \notin Queued /\ reply[r] = "none"

(* Requests in the deque. *)
Waiting ==
  \A r \in Queued : r \notin started /\ reply[r] = "none" /\ answer[r] \in {"none", "timeout"}

(* A worker waits for a ticket that is somewhere. *)
Somewhere ==
  \A w \in Worker :
    job[w] # None => job[w] \in Queued \cup started \cup expired \/ reply[job[w]] # "none"

(* Requests in handlers. *)
Handlers ==
  /\ outer # None => outer \in started /\ reply[outer] = "none"
  /\ inner # None => /\ inner \in started /\ reply[inner] = "none"
                     /\ reading /\ inner # outer
  /\ reading => outer # None
  /\ \A r \in started : r \notin {outer, inner} => reply[r] = "reply"

(* What the answers and replies of a request say of it. *)
Ended ==
  \A r \in Request :
    /\ reply[r] = "stopping" => r \notin started
    /\ answer[r] \in {"full", "stopping"} => r \notin started
    /\ answer[r] = "timeout" => r \in cancelled
    /\ r \in cancelled => r \in expired

Consistent ==
  /\ TypeOK /\ Server /\ Distinct /\ Jobs /\ Untaken
  /\ Waiting /\ Somewhere /\ Handlers /\ Ended

USE QueueAssumption
DEF workerVars, dequeVars, ticketVars, uiVars, stopVars, Answer

-----------------------------------------------------------------------------
(* The deque *)

(* What the deque holds after a ticket was pushed. *)
LEMMA Pushed ==
  ASSUME NEW S, NEW s \in Seq(S), NEW r \in S
  PROVE  /\ Append(s, r) \in Seq(S)
         /\ Len(Append(s, r)) = Len(s) + 1
         /\ \A i \in 1..Len(s) : Append(s, r)[i] = s[i]
         /\ Append(s, r)[Len(s) + 1] = r
OBVIOUS

(* The first ticket, and what the deque holds after it was popped. *)
LEMMA Popped ==
  ASSUME NEW S, NEW s \in Seq(S), s # <<>>
  PROVE  /\ Len(s) \in Nat /\ Len(s) > 0
         /\ Head(s) = s[1] /\ Head(s) \in S
         /\ Tail(s) \in Seq(S)
         /\ Len(Tail(s)) = Len(s) - 1
         /\ \A i \in 1..Len(Tail(s)) : Tail(s)[i] = s[i + 1]
OBVIOUS

(* After a pop the first ticket is in the deque no more. *)
LEMMA PoppedDeque ==
  ASSUME TypeOK, Distinct, tickets # <<>>, tickets' = Tail(tickets)
  PROVE  /\ Head(tickets) \in Queued
         /\ Queued' = Queued \ {Head(tickets)}
         /\ Distinct'
         /\ tickets' \in Seq(Request) /\ Len(tickets') = Len(tickets) - 1
         /\ Len(tickets) \in Nat
<1> tickets \in Seq(Request)
  BY DEF TypeOK
<1>1. /\ Len(tickets) \in Nat /\ Len(tickets) > 0
      /\ Head(tickets) = tickets[1]
      /\ tickets' \in Seq(Request)
      /\ Len(tickets') = Len(tickets) - 1
      /\ \A i \in 1..Len(tickets') : tickets'[i] = tickets[i + 1]
  BY Popped
<1>2. Head(tickets) \in Queued
  BY <1>1 DEF Queued
<1>3. Distinct'
  <2> SUFFICES ASSUME NEW i \in 1..Len(tickets'), NEW j \in 1..Len(tickets'),
                      tickets'[i] = tickets'[j]
               PROVE  i = j
    BY DEF Distinct
  <2>1. i + 1 \in 1..Len(tickets) /\ j + 1 \in 1..Len(tickets)
    BY <1>1
  <2>2. tickets[i + 1] = tickets[j + 1]
    BY <1>1
  <2>3. i + 1 = j + 1
    BY <2>1, <2>2 DEF Distinct
  <2> QED
    BY <2>3
<1>4. ASSUME NEW r \in Queued' PROVE r \in Queued \ {Head(tickets)}
  <2>1. PICK i \in 1..Len(tickets') : r = tickets'[i]
    BY <1>4 DEF Queued
  <2>2. i + 1 \in 1..Len(tickets) /\ 1 \in 1..Len(tickets) /\ i + 1 # 1
    BY <1>1
  <2>3. r = tickets[i + 1]
    BY <1>1, <2>1
  <2> QED
    BY <1>1, <2>2, <2>3 DEF Distinct, Queued
<1>5. ASSUME NEW r \in Queued \ {Head(tickets)} PROVE r \in Queued'
  <2>1. PICK i \in 1..Len(tickets) : r = tickets[i]
    BY <1>5 DEF Queued
  <2>2. i - 1 \in 1..Len(tickets')
    BY <1>1, <1>5, <2>1
  <2>3. tickets'[i - 1] = tickets[i]
    BY <1>1, <2>2
  <2> QED
    BY <2>1, <2>2, <2>3 DEF Queued
<1> QED
  BY <1>1, <1>2, <1>3, <1>4, <1>5

(* After a push the ticket is in the deque, and nothing else is new. *)
LEMMA PushedDeque ==
  ASSUME TypeOK, Distinct, NEW r \in Request, r \notin Queued,
         tickets' = Append(tickets, r)
  PROVE  /\ Queued' = Queued \cup {r}
         /\ Distinct'
         /\ tickets' \in Seq(Request) /\ Len(tickets') = Len(tickets) + 1
         /\ Len(tickets) \in Nat
<1> tickets \in Seq(Request)
  BY DEF TypeOK
<1>1. /\ Len(tickets) \in Nat
      /\ tickets' \in Seq(Request)
      /\ Len(tickets') = Len(tickets) + 1
      /\ \A i \in 1..Len(tickets) : tickets'[i] = tickets[i]
      /\ tickets'[Len(tickets) + 1] = r
  BY Pushed
<1>2. \A i \in 1..Len(tickets') : i \in 1..Len(tickets) \/ i = Len(tickets) + 1
  BY <1>1
<1>3. \A i \in 1..Len(tickets) : i \in 1..Len(tickets') /\ tickets[i] # r
  BY <1>1 DEF Queued
<1>4. Distinct'
  BY <1>1, <1>2, <1>3 DEF Distinct
<1>5. Queued' = Queued \cup {r}
  BY <1>1, <1>2, <1>3 DEF Queued
<1> QED
  BY <1>1, <1>4, <1>5

(* The deque is as it was. *)
LEMMA SameDeque ==
  ASSUME Distinct, UNCHANGED tickets
  PROVE  Queued' = Queued /\ Distinct'
BY DEF Queued, Distinct

-----------------------------------------------------------------------------
(* One lemma per action: it preserves Consistent *)

LEMMA RefuseStoppingKeeps ==
  ASSUME NEW w \in Worker, NEW r \in Request, Consistent, RefuseStopping(w, r)
  PROVE  Consistent'
<1> USE DEF Consistent, RefuseStopping, Accepts, New
<1>1. Queued' = Queued /\ Distinct'
  BY SameDeque
<1>2. TypeOK'
  BY <1>1 DEF TypeOK
<1>3. Server'
  BY <1>1 DEF Server
<1>4. Jobs'
  BY <1>1 DEF Jobs
<1>5. Untaken'
  BY <1>1 DEF Untaken, Taken
<1>6. Waiting'
  BY <1>1 DEF Waiting, Untaken, Taken
<1>7. Somewhere'
  BY <1>1 DEF Somewhere
<1>8. Handlers'
  BY <1>1 DEF Handlers
<1>9. Ended'
  BY <1>1 DEF Ended, Untaken, Taken
<1> QED
  BY <1>1, <1>2, <1>3, <1>4, <1>5, <1>6, <1>7, <1>8, <1>9

LEMMA RefuseFullKeeps ==
  ASSUME NEW w \in Worker, NEW r \in Request, Consistent, RefuseFull(w, r)
  PROVE  Consistent'
<1> USE DEF Consistent, RefuseFull, Accepts, New
<1>1. Queued' = Queued /\ Distinct'
  BY SameDeque
<1>2. TypeOK'
  BY <1>1 DEF TypeOK
<1>3. Server'
  BY <1>1 DEF Server
<1>4. Jobs'
  BY <1>1 DEF Jobs
<1>5. Untaken'
  BY <1>1 DEF Untaken, Taken
<1>6. Waiting'
  BY <1>1 DEF Waiting, Untaken, Taken
<1>7. Somewhere'
  BY <1>1 DEF Somewhere
<1>8. Handlers'
  BY <1>1 DEF Handlers
<1>9. Ended'
  BY <1>1 DEF Ended, Untaken, Taken
<1> QED
  BY <1>1, <1>2, <1>3, <1>4, <1>5, <1>6, <1>7, <1>8, <1>9

LEMMA PushKeeps ==
  ASSUME NEW w \in Worker, NEW r \in Request, Consistent, Push(w, r)
  PROVE  Consistent'
<1> USE DEF Consistent, Push, Accepts, New
<1>1. /\ Queued' = Queued \cup {r}
      /\ Distinct'
      /\ tickets' \in Seq(Request) /\ Len(tickets') = Len(tickets) + 1
      /\ Len(tickets) \in Nat
  BY PushedDeque DEF Untaken, Taken
<1>2. TypeOK'
  BY <1>1 DEF TypeOK
<1>3. Server'
  BY <1>1 DEF TypeOK, Server
<1>4. Jobs'
  BY <1>1 DEF Jobs
<1>5. Untaken'
  BY <1>1 DEF TypeOK, Untaken, Taken
<1>6. Waiting'
  BY <1>1 DEF Waiting, Untaken, Taken
<1>7. Somewhere'
  BY <1>1 DEF Somewhere
<1>8. Handlers'
  BY <1>1 DEF Handlers
<1>9. Ended'
  BY <1>1 DEF Ended
<1> QED
  BY <1>1, <1>2, <1>3, <1>4, <1>5, <1>6, <1>7, <1>8, <1>9

LEMMA WakeKeeps ==
  ASSUME NEW w \in Worker, Consistent, Wake(w)
  PROVE  Consistent'
<1> USE DEF Consistent, Wake
<1>1. Queued' = Queued /\ Distinct'
  BY SameDeque
<1>2. TypeOK'
  BY <1>1 DEF TypeOK
<1>3. Server'
  BY <1>1 DEF Server
<1>4. Jobs'
  BY <1>1 DEF TypeOK, Jobs
<1>5. Untaken'
  BY <1>1 DEF TypeOK, Untaken, Taken
<1>6. Waiting'
  BY <1>1 DEF Waiting
<1>7. Somewhere'
  BY <1>1 DEF Somewhere
<1>8. Handlers'
  BY <1>1 DEF Handlers
<1>9. Ended'
  BY <1>1 DEF TypeOK, Ended
<1> QED
  BY <1>1, <1>2, <1>3, <1>4, <1>5, <1>6, <1>7, <1>8, <1>9

LEMMA TimeOutKeeps ==
  ASSUME NEW w \in Worker, Consistent, TimeOut(w)
  PROVE  Consistent'
<1> USE DEF Consistent, TimeOut
<1>1. Queued' = Queued /\ Distinct'
  BY SameDeque
<1>2. TypeOK'
  BY <1>1 DEF TypeOK
<1>3. Server'
  BY <1>1 DEF Server
<1>4. Jobs'
  BY <1>1 DEF TypeOK, Jobs
<1>5. Untaken'
  BY <1>1 DEF TypeOK, Untaken, Taken
<1>6. Waiting'
  BY <1>1 DEF Waiting
<1>7. Somewhere'
  BY <1>1 DEF Somewhere
<1>8. Handlers'
  BY <1>1 DEF Handlers
<1>9. Ended'
  BY <1>1 DEF Ended
<1> QED
  BY <1>1, <1>2, <1>3, <1>4, <1>5, <1>6, <1>7, <1>8, <1>9

LEMMA ExpireKeeps ==
  ASSUME NEW w \in Worker, Consistent, Expire(w)
  PROVE  Consistent'
<1> USE DEF Consistent, Expire
<1>1. Queued' = Queued /\ Distinct'
  BY SameDeque
<1>2. TypeOK'
  BY <1>1 DEF TypeOK
<1>3. Server'
  BY <1>1 DEF Server
<1>4. Jobs'
  BY <1>1 DEF Jobs
<1>5. Untaken'
  BY <1>1 DEF Untaken, Taken
<1>6. Waiting'
  BY <1>1 DEF Waiting
<1>7. Somewhere'
  BY <1>1 DEF Somewhere
<1>8. Handlers'
  BY <1>1 DEF Handlers
<1>9. Ended'
  BY <1>1 DEF Ended
<1> QED
  BY <1>1, <1>2, <1>3, <1>4, <1>5, <1>6, <1>7, <1>8, <1>9

LEMMA ReceiveKeeps ==
  ASSUME Consistent, Receive
  PROVE  Consistent'
<1> USE DEF Consistent, Receive, Begin, Dead
<1>1. /\ Head(tickets) \in Queued
      /\ Queued' = Queued \ {Head(tickets)}
      /\ Distinct'
      /\ tickets' \in Seq(Request) /\ Len(tickets') = Len(tickets) - 1
      /\ Len(tickets) \in Nat
  BY PoppedDeque
<1>2. TypeOK'
  BY <1>1 DEF TypeOK
<1>3. Server'
  BY <1>1 DEF TypeOK, Server
<1>4. Jobs'
  BY <1>1 DEF Jobs
<1>5. Untaken'
  BY <1>1 DEF Untaken, Taken
<1>6. Waiting'
  BY <1>1 DEF Waiting
<1>7. Somewhere'
  BY <1>1 DEF Somewhere
<1>8. Handlers'
  <2> DEFINE t == Head(tickets)
  <2>1. t \in Request /\ t \notin started /\ reply[t] = "none" /\ t # None
    BY <1>1 DEF Waiting
  <2>2. outer = None => inner = None /\ ~reading
    BY DEF Handlers
  <2>3. outer # None => outer # t /\ inner # t
    BY <2>1 DEF Handlers
  <2> HIDE DEF t
  <2>4. started' = started \cup {t} /\ reply' = reply /\ reading' = reading
    BY DEF t
  <2>5. CASE outer = None
    <3>1. outer' = t /\ inner' = None
      BY <2>2, <2>5 DEF t
    <3> QED
      BY <2>1, <2>2, <2>4, <2>5, <3>1 DEF Handlers
  <2>6. CASE outer # None
    <3>1. outer' = outer /\ inner' = t /\ reading /\ inner = None
      BY <2>6 DEF t, Pumping
    <3> QED
      BY <2>1, <2>3, <2>4, <2>6, <3>1 DEF Handlers, TypeOK
  <2> QED
    BY <2>5, <2>6
<1>9. Ended'
  BY <1>1 DEF Ended, Waiting
<1> QED
  BY <1>1, <1>2, <1>3, <1>4, <1>5, <1>6, <1>7, <1>8, <1>9

LEMMA DropKeeps ==
  ASSUME Consistent, Drop
  PROVE  Consistent'
<1> USE DEF Consistent, Drop, Begin, Dead
<1>1. /\ Head(tickets) \in Queued
      /\ Queued' = Queued \ {Head(tickets)}
      /\ Distinct'
      /\ tickets' \in Seq(Request) /\ Len(tickets') = Len(tickets) - 1
      /\ Len(tickets) \in Nat
  BY PoppedDeque
<1>2. TypeOK'
  BY <1>1 DEF TypeOK
<1>3. Server'
  BY <1>1 DEF TypeOK, Server
<1>4. Jobs'
  BY <1>1 DEF Jobs
<1>5. Untaken'
  BY <1>1 DEF Untaken, Taken
<1>6. Waiting'
  BY <1>1 DEF Waiting
<1>7. Somewhere'
  BY <1>1 DEF Somewhere, Ended
<1>8. Handlers'
  BY <1>1 DEF Handlers
<1>9. Ended'
  BY <1>1 DEF Ended
<1> QED
  BY <1>1, <1>2, <1>3, <1>4, <1>5, <1>6, <1>7, <1>8, <1>9

LEMMA BeginReadKeeps ==
  ASSUME Consistent, BeginRead
  PROVE  Consistent'
<1> USE DEF Consistent, BeginRead
<1>1. Queued' = Queued /\ Distinct'
  BY SameDeque
<1>2. TypeOK'
  BY <1>1 DEF TypeOK
<1>3. Server'
  BY <1>1 DEF Server
<1>4. Jobs'
  BY <1>1 DEF Jobs
<1>5. Untaken'
  BY <1>1 DEF Untaken, Taken
<1>6. Waiting'
  BY <1>1 DEF Waiting
<1>7. Somewhere'
  BY <1>1 DEF Somewhere
<1>8. Handlers'
  BY <1>1 DEF Handlers
<1>9. Ended'
  BY <1>1 DEF Ended
<1> QED
  BY <1>1, <1>2, <1>3, <1>4, <1>5, <1>6, <1>7, <1>8, <1>9

LEMMA EndReadKeeps ==
  ASSUME Consistent, EndRead
  PROVE  Consistent'
<1> USE DEF Consistent, EndRead
<1>1. Queued' = Queued /\ Distinct'
  BY SameDeque
<1>2. TypeOK'
  BY <1>1 DEF TypeOK
<1>3. Server'
  BY <1>1 DEF Server
<1>4. Jobs'
  BY <1>1 DEF Jobs
<1>5. Untaken'
  BY <1>1 DEF Untaken, Taken
<1>6. Waiting'
  BY <1>1 DEF Waiting
<1>7. Somewhere'
  BY <1>1 DEF Somewhere
<1>8. Handlers'
  BY <1>1 DEF Handlers
<1>9. Ended'
  BY <1>1 DEF Ended
<1> QED
  BY <1>1, <1>2, <1>3, <1>4, <1>5, <1>6, <1>7, <1>8, <1>9

LEMMA ReplyOuterKeeps ==
  ASSUME Consistent, ReplyOuter
  PROVE  Consistent'
<1> USE DEF Consistent, ReplyOuter
<1>1. Queued' = Queued /\ Distinct'
  BY SameDeque
<1>2. TypeOK'
  BY <1>1 DEF TypeOK
<1>3. Server'
  BY <1>1 DEF Server
<1>4. Jobs'
  BY <1>1 DEF Jobs
<1>5. Untaken'
  BY <1>1 DEF Untaken, Taken, Handlers
<1>6. Waiting'
  BY <1>1 DEF Waiting, Handlers
<1>7. Somewhere'
  BY <1>1 DEF Somewhere
<1>8. Handlers'
  BY <1>1 DEF TypeOK, Handlers
<1>9. Ended'
  BY <1>1 DEF Ended
<1> QED
  BY <1>1, <1>2, <1>3, <1>4, <1>5, <1>6, <1>7, <1>8, <1>9

LEMMA ReplyInnerKeeps ==
  ASSUME Consistent, ReplyInner
  PROVE  Consistent'
<1> USE DEF Consistent, ReplyInner
<1>1. Queued' = Queued /\ Distinct'
  BY SameDeque
<1>2. TypeOK'
  BY <1>1 DEF TypeOK
<1>3. Server'
  BY <1>1 DEF Server
<1>4. Jobs'
  BY <1>1 DEF Jobs
<1>5. Untaken'
  BY <1>1 DEF Untaken, Taken, Handlers
<1>6. Waiting'
  BY <1>1 DEF Waiting, Handlers
<1>7. Somewhere'
  BY <1>1 DEF Somewhere
<1>8. Handlers'
  BY <1>1 DEF TypeOK, Handlers
<1>9. Ended'
  BY <1>1 DEF Ended
<1> QED
  BY <1>1, <1>2, <1>3, <1>4, <1>5, <1>6, <1>7, <1>8, <1>9

LEMMA StopKeeps ==
  ASSUME Consistent, Stop
  PROVE  Consistent'
<1> USE DEF Consistent, Stop
<1>1. Queued' = {} /\ Distinct' /\ tickets' \in Seq(Request) /\ Len(tickets') = 0
  BY DEF Queued, Distinct
<1>2. TypeOK'
  BY <1>1 DEF TypeOK
<1>3. Server'
  BY <1>1 DEF Server
<1>4. Jobs'
  BY <1>1 DEF Jobs
<1>5. Untaken'
  BY <1>1 DEF Untaken, Taken
<1>6. Waiting'
  BY <1>1 DEF Waiting
<1>7. Somewhere'
  BY <1>1 DEF TypeOK, Somewhere
<1>8. Handlers'
  BY <1>1 DEF TypeOK, Handlers, Waiting
<1>9. Ended'
  BY <1>1 DEF Ended, Waiting
<1> QED
  BY <1>1, <1>2, <1>3, <1>4, <1>5, <1>6, <1>7, <1>8, <1>9

LEMMA JoinedKeeps ==
  ASSUME Consistent, Joined
  PROVE  Consistent'
<1> USE DEF Consistent, Joined
<1>1. Queued' = Queued /\ Distinct'
  BY SameDeque
<1>2. TypeOK'
  BY <1>1 DEF TypeOK
<1>3. Server'
  BY <1>1 DEF Server
<1>4. Jobs'
  BY <1>1 DEF Jobs
<1>5. Untaken'
  BY <1>1 DEF Untaken, Taken
<1>6. Waiting'
  BY <1>1 DEF Waiting
<1>7. Somewhere'
  BY <1>1 DEF Somewhere
<1>8. Handlers'
  BY <1>1 DEF Handlers
<1>9. Ended'
  BY <1>1 DEF Ended
<1> QED
  BY <1>1, <1>2, <1>3, <1>4, <1>5, <1>6, <1>7, <1>8, <1>9

-----------------------------------------------------------------------------
(* Every step keeps Consistent *)

LEMMA InitIsConsistent == Init => Consistent
<1> SUFFICES ASSUME Init PROVE Consistent
  OBVIOUS
<1>1. Queued = {} /\ tickets \in Seq(Request) /\ Len(tickets) = 0
  BY DEF Init, Queued
<1>2. TypeOK
  <2>1. Len(tickets) <= Limit /\ posted \in Nat
    BY <1>1 DEF Init
  <2>6. unposted \in Nat
    BY DEF Init
  <2>2. job \in [Worker -> Request \cup {None}] /\ answer \in [Request -> Answer]
    BY DEF Init
  <2>3. reply \in [Request -> {"none", "reply", "stopping"}]
    BY DEF Init
  <2>4. outer = None /\ inner = None /\ reading = FALSE /\ closing = FALSE
    BY DEF Init
  <2>5. expired = {} /\ cancelled = {} /\ started = {} /\ server = "running"
    BY DEF Init
  <2> QED
    BY <1>1, <2>1, <2>2, <2>3, <2>4, <2>5, <2>6 DEF TypeOK
<1>3. Server /\ Distinct
  BY <1>1 DEF Init, Server, Distinct
<1>4. Jobs /\ Untaken /\ Waiting /\ Somewhere
  BY <1>1 DEF Init, Jobs, Untaken, Waiting, Somewhere
<1>5. Handlers /\ Ended
  BY DEF Init, Handlers, Ended
<1> QED
  BY <1>2, <1>3, <1>4, <1>5 DEF Consistent

LEMMA StutterKeeps ==
  ASSUME Consistent, UNCHANGED vars
  PROVE  Consistent'
<1>1. Queued' = Queued /\ Distinct'
  BY SameDeque DEF vars, Consistent
<1> QED
  BY <1>1 DEF vars, Consistent, TypeOK, Server, Jobs, Untaken, Taken, Waiting,
    Somewhere, Handlers, Ended

LEMMA StepKeepsConsistent ==
  ASSUME Consistent, [Next]_vars
  PROVE  Consistent'
<1>1. ASSUME NEW w \in Worker, NEW r \in Request,
             RefuseStopping(w, r) \/ RefuseFull(w, r) \/ Push(w, r)
      PROVE  Consistent'
  BY <1>1, RefuseStoppingKeeps, RefuseFullKeeps, PushKeeps
<1>2. ASSUME NEW w \in Worker, Wake(w) \/ TimeOut(w) \/ Expire(w)
      PROVE  Consistent'
  BY <1>2, WakeKeeps, TimeOutKeeps, ExpireKeeps
<1>3. CASE Receive \/ Drop
  BY <1>3, ReceiveKeeps, DropKeeps
<1>4. CASE BeginRead \/ EndRead \/ ReplyOuter \/ ReplyInner
  BY <1>4, BeginReadKeeps, EndReadKeeps, ReplyOuterKeeps, ReplyInnerKeeps
<1>5. CASE Stop \/ Joined
  BY <1>5, StopKeeps, JoinedKeeps
<1>6. CASE UNCHANGED vars
  BY <1>6, StutterKeeps
<1> QED
  BY <1>1, <1>2, <1>3, <1>4, <1>5, <1>6 DEF Next

-----------------------------------------------------------------------------
(* Theorems *)

(* The inductive invariant of the queue holds in every reachable state. *)
THEOREM QueueIsConsistent == Spec => []Consistent
<1>1. Init => Consistent
  BY InitIsConsistent
<1>2. Consistent /\ [Next]_vars => Consistent'
  BY StepKeepsConsistent
<1> QED
  BY <1>1, <1>2, PTL DEF Spec

(* The queue never holds more than its capacity, and every variable keeps  *)
(* its type.                                                               *)
THEOREM QueueIsBounded == Spec => []TypeOK
<1>1. Consistent => TypeOK
  BY DEF Consistent
<1> QED
  BY <1>1, QueueIsConsistent, PTL

(* No ticket is stranded but by a message that could not be posted.        *)
THEOREM NoTicketStranded == Spec => []TicketsHaveMessages
<1>1. Consistent => TicketsHaveMessages
  BY DEF Consistent, TypeOK, Server, TicketsHaveMessages
<1> QED
  BY <1>1, QueueIsConsistent, PTL

(* A request that was answered 429 or 503 has had no effect. *)
THEOREM RefusalsAreClean == Spec => []RefusedNeverRan
<1>1. Consistent => RefusedNeverRan
  BY DEF Consistent, Ended, RefusedNeverRan
<1> QED
  BY <1>1, QueueIsConsistent, PTL

(* A ticket is in one handler at most, and in none that has replied. *)
THEOREM OneHandlerPerTicket == Spec => []HandledOnce
<1>1. Consistent => HandledOnce
  BY DEF Consistent, Handlers, HandledOnce
<1> QED
  BY <1>1, QueueIsConsistent, PTL

(* The message thread may join the workers: none of them waits for it. *)
THEOREM StopNeedsNoHandler == Spec => []StopWaitsForNone
<1>1. Consistent => StopWaitsForNone
  BY DEF Consistent, TypeOK, Server, Queued, Somewhere, Handlers, Jobs, Untaken,
    Taken, StopWaitsForNone
<1> QED
  BY <1>1, QueueIsConsistent, PTL

(* The deque, the window messages and the waiting workers agree in every   *)
(* reachable state.                                                        *)
THEOREM QueueIsCoherent == Spec => []Coherent
BY QueueIsBounded, NoTicketStranded, StopNeedsNoHandler, RefusalsAreClean, PTL DEF Coherent

LEMMA StepStartsNoneLate ==
  ASSUME Consistent, [Next]_vars, NEW r \in Request,
         answer[r] # "none", r \notin started
  PROVE  r \notin started'
<1>1. CASE Receive
  <2>1. tickets \in Seq(Request) /\ tickets # <<>> /\ Distinct
    BY <1>1 DEF Consistent, TypeOK, Receive
  <2>2. Head(tickets) \in Queued
    BY <1>1, PoppedDeque DEF Consistent, Receive
  <2>3. Head(tickets) # r
    BY <1>1, <2>2 DEF Consistent, Waiting, Ended, Receive, Dead, TypeOK
  <2> QED
    BY <1>1, <2>3 DEF Receive
<1>2. CASE ~Receive
  BY <1>2 DEF Next, vars, RefuseStopping, RefuseFull, Push, Wake, TimeOut, Expire,
    Drop, BeginRead, EndRead, ReplyOuter, ReplyInner, Stop, Joined
<1> QED
  BY <1>1, <1>2

(* A request whose client was answered before it was started never starts: *)
(* 504 leaves nothing behind that may still happen.                        *)
THEOREM NothingStartsLate == Spec => LateNeverStarts
<1>1. Consistent /\ [Next]_vars =>
        [\A r \in Request : answer[r] # "none" /\ r \notin started => r \notin started']_vars
  BY StepStartsNoneLate
<1> QED
  BY <1>1, QueueIsConsistent, PTL DEF Spec, LateNeverStarts

=============================================================================
