------------------------- MODULE OverlayControlProof --------------------------
(***************************************************************************)
(* Proofs about the Registry Hub's sequences and about the runs of the     *)
(* control API that are composed with them, for every script and text and  *)
(* every number of tasks and plays.                                        *)
(*                                                                         *)
(* First, the sequences by themselves.  The properties are not inductive:  *)
(* that a sequence has one task at a time rests on what an answer that     *)
(* will be believed is about (PollFitsTask), and that on the sequence's    *)
(* code running only while it waits for nothing (CodeFitsSequence).  That  *)
(* it shows n/n at its end rests on the waits that are still ahead         *)
(* (TotalIsCounted), and that its tasks follow the script on where the one *)
(* being compiled stands (DocFollowsScript).  That the compiler finds the  *)
(* frames it closes, and that includes come to an end, rests on what is    *)
(* left of the text (TextIsStructured): Frames, which a text passes before *)
(* it is compiled, is a recursion, and what it says of every text is       *)
(* proved by least exceptions (LeastNumber).  The steps are those of       *)
(* RegistryDispatch and those of a task that some other part of the        *)
(* overlay schedules meanwhile, so that what is proved of them can be used *)
(* for the runs.                                                           *)
(*                                                                         *)
(* Then, the runs.  Every step of a run is one of the sequence's steps or  *)
(* one it does not notice (ControlSteps), so that what is proved of the    *)
(* sequences holds among the runs too.  The runs' own properties need more *)
(* than that: that a run waits for whatever is at work for it (FlowsInv)   *)
(* rests on where the callers of the Registry Hub's code are when messages *)
(* are handled below them (CallerInv) and on what answers say that are     *)
(* still to be looked at (PollsInv); that overrides are put back rests on  *)
(* where the script came from that is compiled (EnvironmentInv).           *)
(*                                                                         *)
(* Two things are assumed where they are needed.  ~MayRestart: a task is   *)
(* known by its number, and a daemon that is restarted gives its numbers   *)
(* again.  ~ActsWhileReading: if the user closes a dialog that waits for   *)
(* an include, overrides do get saved.                                     *)
(***************************************************************************)
EXTENDS OverlayControl, FiniteSetTheorems, SequenceTheorems, WellFoundedInduction, TLAPS

Doc == Seq([at : Nat, kind : {"act", "wait"}])

(* The sequence's code runs for a sequence that is active and waits for no *)
(* task; an include that is read for one that was stopped will be thrown   *)
(* away.  A stopped sequence is shown as such.                             *)
CodeFitsSequence ==
  /\ ui \in {"compile", "submit"} => active /\ task = 0
  /\ ui = "read" => (active \/ cancelled) /\ task = 0 /\ at > 0
  /\ active => plays > 0 /\ plays \notin stopped /\ sequence \in {"idle", "running"}
  /\ ~active => task = 0
  /\ plays \in stopped => sequence = "stopped"
  /\ stopped \subseteq 1..plays

(* A task of the sequence that is played is at work. *)
Busy(id) == work[id].state = "active" /\ work[id].play = plays

(* Only the task the sequence waits for may be at work. *)
OnlyTaskIsBusy ==
  /\ \A id \in TaskId : work[id].play <= plays
  /\ active => \A id \in TaskId : Busy(id) => id = task

(* An answer that will be believed is about the task the sequence waits    *)
(* for, and if it says that this has ended, it has.                        *)
PollFitsTask ==
  poll # NoPoll =>
    /\ poll.generation <= generation
    /\ active /\ poll.generation = generation =>
         /\ task # 0 /\ poll.task = task
         /\ poll.reply \in {"finished", "failed", "stopped"} => ~Busy(task)

FlowInv == CodeFitsSequence /\ OneTaskAtATime /\ OnlyTaskIsBusy /\ PollFitsTask

(* The waits that are still to come. *)
WaitsIn(s, from) == {i \in (from + 1)..Len(s) : IsWait(s[i])}
Ahead == WaitsIn(tokens, at)

Expects == at < Len(tokens) /\ IsWait(Here) /\ Live

(* The tasks to come are counted right: one for each wait ahead, but for   *)
(* the one the task being compiled begins with.                            *)
TotalIsCounted ==
  /\ index > 0
  /\ active /\ ~leading => total = index + Cardinality(Ahead)
  /\ active /\ leading => total = index + Cardinality(Ahead) - 1
  /\ active /\ leading => ui = "compile" /\ doc = <<>> /\ Expects
  /\ active /\ leadingWait => ui \in {"submit", "idle"} /\ Expects
  /\ active /\ ui \in {"submit", "idle"} => at = Len(tokens) \/ leadingWait
  /\ sequence = "finished" => ~active /\ index = total /\ at = Len(tokens)

(* The actions of a task stand for tokens up to the n-th, in their order.  *)
Behind(d, n) == \A i \in DOMAIN d : d[i].at <= n
InOrder(d) == \A i, j \in DOMAIN d : i < j => d[i].at < d[j].at

(* What is compiled so far of the task being compiled: the wait it begins  *)
(* with, unless it is the first, and no other.                             *)
SplitSoFar ==
  /\ index > 1 => leading \/ (doc # <<>> /\ doc[1].kind = "wait")
  /\ index = 1 => ~leading /\ \A i \in DOMAIN doc : doc[i].kind = "act"
  /\ \A i \in 2..Len(doc) : doc[i].kind # "wait"

(* The task being compiled is a piece of the script that follows those sent. *)
DocFollowsScript ==
  /\ Behind(doc, at) /\ InOrder(doc)
  /\ \A id \in Own : work[id].play = plays => Behind(work[id].doc, at)
  /\ active => \A id \in Own : work[id].play = plays => work[id].index <= index
  /\ active /\ ui # "idle" => \A id \in Own : work[id].play = plays =>
       work[id].index < index /\ Follows(work[id].doc, doc)
  /\ active /\ ui # "idle" => SplitSoFar

(* What a token of a kind does to the number x of open conditions. *)
Changes(x, kind, y) ==
  /\ kind = "if" => y = x + 1
  /\ kind = "else" => x > 0
  /\ kind = "endif" => x > 0 /\ y = x - 1
  /\ kind \notin {"if", "endif"} => y = x

(* Behind the first n tokens of s, where d conditions are open, every      *)
(* {else} and {endif} has its {if}, and at the end none is open.           *)
Nested(s, n, d) ==
  \E h \in [n..Len(s) -> Nat] :
    /\ h[n] = d /\ h[Len(s)] = 0
    /\ \A i \in (n + 1)..Len(s) : Changes(h[i - 1], s[i].kind, h[i])

(* The tokens behind the first n and r others are within TokenBound,       *)
(* whatever is included for them.                                          *)
Fits(s, n, r) ==
  \E p \in [n..Len(s) -> Nat] :
    /\ p[n] >= n + r /\ p[Len(s)] <= TokenBound
    /\ \A i \in (n + 1)..Len(s) : p[i] >= p[i - 1] + Weight[s[i]]

(* The room that is kept for an include that is being read. *)
Room == IF ui = "read" THEN Weight[tokens[at]] - 1 ELSE 0

(* What is left of the script closes the conditions that are open, and     *)
(* keeps to the bound with all it may include.                             *)
TextIsStructured ==
  /\ active => Nested(tokens, at, Len(branches)) /\ Fits(tokens, at, Room)
  /\ ui = "read" => tokens[at].kind = "rgd" /\ Nests(tokens[at])
  /\ Len(tokens) <= TokenBound
  /\ sequence = "finished" => branches = <<>>

IInv ==
  /\ TypeOK /\ FlowInv /\ TotalIsCounted /\ TextIsStructured
  /\ DocFollowsScript /\ TasksFollowTheScript

-----------------------------------------------------------------------------
(* What is inserted behind the first n tokens of s.                        *)
Spliced(s, n, mid) == SubSeq(s, 1, n) \o mid \o SubSeq(s, n + 1, Len(s))

(* The tokens before and behind what is inserted stay as they were.        *)
LEMMA Splice ==
  ASSUME NEW S, NEW s \in Seq(S), NEW mid \in Seq(S), NEW n \in 0..Len(s)
  PROVE  /\ Spliced(s, n, mid) \in Seq(S)
         /\ Len(Spliced(s, n, mid)) = Len(s) + Len(mid)
         /\ \A i \in 1..n : Spliced(s, n, mid)[i] = s[i]
         /\ \A i \in 1..Len(mid) : Spliced(s, n, mid)[n + i] = mid[i]
         /\ \A i \in (n + 1)..Len(s) : Spliced(s, n, mid)[i + Len(mid)] = s[i]
<1> DEFINE a == SubSeq(s, 1, n)
           b == SubSeq(s, n + 1, Len(s))
           c == a \o mid
<1>1. a \in Seq(S) /\ Len(a) = n /\ \A i \in 1..n : a[i] = s[i]
  OBVIOUS
<1>2. b \in Seq(S) /\ Len(b) = Len(s) - n /\ \A i \in 1..(Len(s) - n) : b[i] = s[n + i]
  OBVIOUS
<1> HIDE DEF a, b
<1>3. /\ c \in Seq(S) /\ Len(c) = n + Len(mid)
      /\ \A i \in 1..(n + Len(mid)) : c[i] = IF i <= n THEN a[i] ELSE mid[i - n]
  BY <1>1, ConcatProperties
<1> HIDE DEF c
<1>4. /\ c \o b \in Seq(S) /\ Len(c \o b) = Len(c) + Len(b)
      /\ \A i \in 1..(Len(c) + Len(b)) : (c \o b)[i] = IF i <= Len(c) THEN c[i] ELSE b[i - Len(c)]
  BY <1>2, <1>3, ConcatProperties
<1>5. Spliced(s, n, mid) = c \o b
  BY DEF Spliced, a, b, c
<1>6. \A i \in 1..n : (c \o b)[i] = s[i]
  BY <1>1, <1>2, <1>3, <1>4
<1>7. \A i \in 1..Len(mid) : (c \o b)[n + i] = mid[i]
  <2> TAKE i \in 1..Len(mid)
  <2>1. n + i \in 1..(n + Len(mid)) /\ ~(n + i <= n) /\ (n + i) - n = i
    OBVIOUS
  <2>2. c[n + i] = mid[i]
    BY <1>3, <2>1
  <2> QED
    BY <1>2, <1>3, <1>4, <2>1, <2>2
<1>8. \A i \in (n + 1)..Len(s) : (c \o b)[i + Len(mid)] = s[i]
  <2> TAKE i \in (n + 1)..Len(s)
  <2>1. /\ i - n \in 1..(Len(s) - n) /\ (i + Len(mid)) - Len(c) = i - n /\ n + (i - n) = i
        /\ i + Len(mid) \in 1..(Len(c) + Len(b)) /\ ~(i + Len(mid) <= Len(c))
    BY <1>2, <1>3
  <2>2. (c \o b)[i + Len(mid)] = b[i - n]
    BY <1>4, <2>1
  <2> QED
    BY <1>2, <2>1, <2>2
<1>9. Len(c) + Len(b) = Len(s) + Len(mid)
  BY <1>2, <1>3
<1> QED
  BY <1>4, <1>5, <1>6, <1>7, <1>8, <1>9

(* There are finitely many waits to count.                                 *)
LEMMA WaitsInAreFinite ==
  ASSUME NEW s \in Seq(Token), NEW n \in 0..Len(s)
  PROVE  IsFiniteSet(WaitsIn(s, n)) /\ Cardinality(WaitsIn(s, n)) \in Nat
<1>1. IsFiniteSet((n + 1)..Len(s))
  BY FS_Interval
<1> QED
  BY <1>1, FS_Subset, FS_CardinalityType DEF WaitsIn

(* Consuming a wait leaves one fewer ahead, and any other token none.      *)
LEMMA WaitsConsumed ==
  ASSUME NEW s \in Seq(Token), NEW n \in 0..(Len(s) - 1)
  PROVE  /\ IsWait(s[n + 1]) => /\ Cardinality(WaitsIn(s, n)) > 0
                               /\ Cardinality(WaitsIn(s, n + 1)) = Cardinality(WaitsIn(s, n)) - 1
         /\ ~IsWait(s[n + 1]) => WaitsIn(s, n + 1) = WaitsIn(s, n)
<1>1. CASE IsWait(s[n + 1])
  <2>1. n + 1 \in WaitsIn(s, n) /\ WaitsIn(s, n + 1) = WaitsIn(s, n) \ {n + 1}
    BY <1>1 DEF WaitsIn
  <2>2. Cardinality(WaitsIn(s, n + 1)) = Cardinality(WaitsIn(s, n)) - 1
    BY <2>1, WaitsInAreFinite, FS_RemoveElement
  <2>3. n + 1 \in 0..Len(s) /\ n \in 0..Len(s)
    OBVIOUS
  <2> QED
    BY <1>1, <2>2, <2>3, WaitsInAreFinite
<1>2. CASE ~IsWait(s[n + 1])
  BY <1>2 DEF WaitsIn
<1> QED
  BY <1>1, <1>2

(* Behind the end there are none.                                          *)
LEMMA NoneAhead ==
  ASSUME NEW s \in Seq(Token)
  PROVE  Cardinality(WaitsIn(s, Len(s))) = 0
<1>1. WaitsIn(s, Len(s)) = {}
  BY DEF WaitsIn
<1> QED
  BY <1>1, FS_EmptySet

(* A shift changes no cardinality.                                         *)
LEMMA Shifted ==
  ASSUME NEW S \in SUBSET Int, IsFiniteSet(S), NEW k \in Int
  PROVE  IsFiniteSet({i + k : i \in S}) /\ Cardinality({i + k : i \in S}) = Cardinality(S)
<1> DEFINE f == [i \in S |-> i + k]
           T == {i + k : i \in S}
<1>1. f \in Bijection(S, T)
  <2>1. f \in [S -> T]
    OBVIOUS
  <2>2. f \in Injection(S, T)
    BY <2>1 DEF Injection, IsInjective
  <2>3. f \in Surjection(S, T)
    BY <2>1 DEF Surjection
  <2> QED
    BY <2>2, <2>3 DEF Bijection
<1>2. ExistsBijection(S, T)
  BY <1>1 DEF ExistsBijection
<1>3. IsFiniteSet(T) /\ Cardinality(T) = Cardinality(S)
  <2> HIDE DEF T
  <2> QED
    BY <1>2, FS_Bijection
<1> QED
  BY <1>3

(* An insertion adds its own waits to those ahead.                         *)
LEMMA WaitsInserted ==
  ASSUME NEW s \in Seq(Token), NEW mid \in Seq(Token), NEW n \in 0..Len(s)
  PROVE  Cardinality(WaitsIn(Spliced(s, n, mid), n)) = Cardinality(WaitsIn(s, n)) + Cardinality(WaitsIn(mid, 0))
<1> DEFINE t == Spliced(s, n, mid)
           A == {i + n : i \in WaitsIn(mid, 0)}
           B == {i + Len(mid) : i \in WaitsIn(s, n)}
<1>1. WaitsIn(t, n) = A \cup B
  <2>1. Len(t) = Len(s) + Len(mid)
    BY Splice
  <2>2. ASSUME NEW i \in (n + 1)..(n + Len(mid)) PROVE i \in WaitsIn(t, n) <=> i \in A
    <3>1. i - n \in 1..Len(mid) /\ n + (i - n) = i /\ (i - n) + n = i
      OBVIOUS
    <3>2. t[n + (i - n)] = mid[i - n]
      <4>1. \A j \in 1..Len(mid) : t[n + j] = mid[j]
        BY Splice
      <4> HIDE DEF t
      <4> QED
        BY <3>1, <4>1
    <3>3. t[i] = mid[i - n]
      BY <3>1, <3>2
    <3>4. i \in WaitsIn(t, n) <=> i - n \in WaitsIn(mid, 0)
      BY <2>1, <3>1, <3>3 DEF WaitsIn
    <3> QED
      BY <3>1, <3>4 DEF WaitsIn
  <2>3. ASSUME NEW i \in (n + Len(mid) + 1)..Len(t) PROVE i \in WaitsIn(t, n) <=> i \in B
    <3>1. i - Len(mid) \in (n + 1)..Len(s) /\ (i - Len(mid)) + Len(mid) = i
      BY <2>1
    <3>2. t[(i - Len(mid)) + Len(mid)] = s[i - Len(mid)]
      BY <3>1, Splice
    <3>3. t[i] = s[i - Len(mid)]
      BY <3>1, <3>2
    <3>4. i \in WaitsIn(t, n) <=> i - Len(mid) \in WaitsIn(s, n)
      BY <2>1, <3>1, <3>3 DEF WaitsIn
    <3> QED
      BY <3>1, <3>4 DEF WaitsIn
  <2>4. A \subseteq (n + 1)..(n + Len(mid))
    BY DEF WaitsIn
  <2>5. B \subseteq (n + Len(mid) + 1)..Len(t)
    BY <2>1 DEF WaitsIn
  <2>6. WaitsIn(t, n) \subseteq (n + 1)..Len(t)
    BY DEF WaitsIn
  <2>7. (n + 1)..Len(t) = ((n + 1)..(n + Len(mid))) \cup ((n + Len(mid) + 1)..Len(t))
    BY <2>1
  <2> QED
    BY <2>2, <2>3, <2>4, <2>5, <2>6, <2>7
<1>2. A \cap B = {}
  BY DEF WaitsIn
<1>3. 0 \in 0..Len(mid)
  OBVIOUS
<1>4. WaitsIn(mid, 0) \in SUBSET Int /\ WaitsIn(s, n) \in SUBSET Int
  BY DEF WaitsIn
<1>5. IsFiniteSet(A) /\ Cardinality(A) = Cardinality(WaitsIn(mid, 0))
  <2>1. IsFiniteSet(WaitsIn(mid, 0)) /\ n \in Int
    BY <1>3, WaitsInAreFinite
  <2> QED
    BY <1>4, <2>1, Shifted
<1>6. IsFiniteSet(B) /\ Cardinality(B) = Cardinality(WaitsIn(s, n))
  <2>1. IsFiniteSet(WaitsIn(s, n)) /\ Len(mid) \in Int
    BY WaitsInAreFinite
  <2> QED
    BY <1>4, <2>1, Shifted
<1>7. Cardinality(A \cup B) = Cardinality(A) + Cardinality(B) - Cardinality(A \cap B)
  BY <1>5, <1>6, FS_Union
<1>8. Cardinality(A \cap B) = 0
  BY <1>2, FS_EmptySet
<1> HIDE DEF A, B
<1>9. Cardinality(WaitsIn(mid, 0)) \in Nat /\ Cardinality(WaitsIn(s, n)) \in Nat
  BY <1>3, WaitsInAreFinite
<1> QED
  BY <1>1, <1>5, <1>6, <1>7, <1>8, <1>9

(* The waits of a text are those of the tokens it becomes.                 *)
LEMMA WaitsWithin ==
  ASSUME NEW s \in Seq([kind : Kind, key : DOMAIN Texts]), NEW within \in SUBSET DOMAIN Texts
  PROVE  /\ Within(s, within) \in Seq(Token) /\ Len(Within(s, within)) = Len(s)
         /\ Waits(s) = Cardinality(WaitsIn(Within(s, within), 0))
         /\ \A i \in 1..Len(s) : Within(s, within)[i].kind = s[i].kind
<1> DEFINE Read == [kind : Kind, key : DOMAIN Texts]
<1> HIDE DEF Read
<1>1. DOMAIN s = 1..Len(s) /\ Len(s) \in Nat /\ \A i \in 1..Len(s) : s[i] \in Read
  <2>1. s \in Seq(Read)
    BY DEF Read
  <2> QED
    BY <2>1
<1> USE DEF Read
<1>2. Within(s, within) \in [1..Len(s) -> Token]
  BY <1>1 DEF Within, Token
<1>3. Within(s, within) \in Seq(Token) /\ Len(Within(s, within)) = Len(s)
  BY <1>1, <1>2
<1>4. \A i \in 1..Len(s) : Within(s, within)[i].kind = s[i].kind
  BY <1>1 DEF Within
<1>5. {i \in DOMAIN s : IsWait(s[i])} = WaitsIn(Within(s, within), 0)
  BY <1>1, <1>3, <1>4 DEF WaitsIn, IsWait
<1> QED
  BY <1>3, <1>4, <1>5 DEF Waits
-----------------------------------------------------------------------------
(* The structure and the size of texts.                                    *)

(* A set of numbers has a least one: what is proved of every number below *)
(* is proved by way of the least exception.                               *)
LEMMA LeastNumber ==
  ASSUME NEW T \in SUBSET Nat, T # {}
  PROVE  \E n \in T : \A m \in T : n <= m
<1> DEFINE R == {ss \in Nat \X Nat : ss[1] < ss[2]}
<1>1. IsWellFoundedOn(R, Nat)
  BY NatLessThanWellFounded DEF OpToRel
<1>2. \E n \in T : \A m \in T : <<m, n>> \notin R
  <2> HIDE DEF R
  <2> QED
    BY <1>1, WFMin
<1>3. \A m, n \in T : <<m, n>> \notin R => n <= m
  OBVIOUS
<1> HIDE DEF R
<1> QED
  BY <1>2, <1>3

(* f goes from base by n steps. *)
Iterates(f, base, step, n) == f[0] = base /\ \A i \in 1..n : f[i] = step[<<f[i - 1], i>>]

(* There is such a function: what is defined by recursion on numbers up to *)
(* N is defined.                                                           *)
LEMMA Iteration ==
  ASSUME NEW S, NEW base \in S, NEW N \in Nat, NEW step \in [S \X (1..N) -> S]
  PROVE  \E f \in [0..N -> S] : Iterates(f, base, step, N)
<1> USE DEF Iterates
<1> DEFINE Is(f, n) == Iterates(f, base, step, n)
           T == {n \in 0..N : ~ \E f \in [0..n -> S] : Is(f, n)}
<1>1. SUFFICES ASSUME T # {} PROVE FALSE
  <2>1. N \in 0..N
    OBVIOUS
  <2> QED
    BY <2>1
<1>2. PICK n \in T : \A m \in T : n <= m
  <2>1. T \in SUBSET Nat
    OBVIOUS
  <2> HIDE DEF T
  <2> QED
    BY <1>1, <2>1, LeastNumber
<1>3. n \in 0..N /\ ~ \E f \in [0..n -> S] : Is(f, n)
  OBVIOUS
<1>4. n # 0
  <2> SUFFICES ASSUME n = 0 PROVE FALSE
    OBVIOUS
  <2> DEFINE f == [i \in 0..0 |-> base]
  <2>1. f \in [0..n -> S] /\ f[0] = base
    OBVIOUS
  <2>2. 1..n = {}
    OBVIOUS
  <2>3. Is(f, n)
    BY <2>1, <2>2
  <2> QED
    BY <1>3, <2>1, <2>3
<1>5. n - 1 \in 0..N /\ n \in 1..N /\ ~(n <= n - 1)
  BY <1>3, <1>4
<1>6. n - 1 \notin T
  BY <1>2, <1>5
<1>7. PICK g \in [0..(n - 1) -> S] : Is(g, n - 1)
  BY <1>5, <1>6
<1> DEFINE f == [i \in 0..n |-> IF i = n THEN step[<<g[n - 1], n>>] ELSE g[i]]
<1>8. g[n - 1] \in S /\ step[<<g[n - 1], n>>] \in S
  BY <1>5, <1>7
<1>9. f \in [0..n -> S]
  BY <1>5, <1>8
<1>10. f[0] = base
  BY <1>5, <1>7
<1>11. ASSUME NEW i \in 1..n PROVE f[i] = step[<<f[i - 1], i>>]
  <2>1. i \in 0..n /\ i - 1 \in 0..n /\ i - 1 # n /\ f[i - 1] = g[i - 1]
    BY <1>5
  <2>2. CASE i = n
    BY <2>1, <2>2
  <2>3. CASE i # n
    <3>1. i \in 1..(n - 1) /\ f[i] = g[i]
      BY <2>1, <2>3, <1>5
    <3>2. g[i] = step[<<g[i - 1], i>>]
      BY <1>7, <3>1
    <3> QED
      BY <2>1, <3>1, <3>2
  <2> QED
    BY <2>2, <2>3
<1> HIDE DEF f
<1>12. Is(f, n)
  BY <1>10, <1>11
<1> QED
  BY <1>3, <1>9, <1>12

(* A function on 0..n, and one that goes on as another does. *)
OnInterval(f, n) == f = [i \in 0..n |-> f[i]]
Follow(f, g, n) == f[0] = g[0] /\ \A i \in 1..n : f[i - 1] = g[i - 1] => f[i] = g[i]

(* Two functions that begin alike and go on alike are equal. *)
LEMMA Agreement ==
  ASSUME NEW N \in Nat, NEW f, NEW g, OnInterval(f, N), OnInterval(g, N), Follow(f, g, N)
  PROVE  f = g
<1> USE DEF OnInterval, Follow
<1> DEFINE T == {n \in 0..N : f[n] # g[n]}
<1>1. T = {}
  <2> SUFFICES ASSUME T # {} PROVE FALSE
    OBVIOUS
  <2>1. PICK n \in T : \A m \in T : n <= m
    <3>1. T \in SUBSET Nat
      OBVIOUS
    <3> HIDE DEF T
    <3> QED
      BY <3>1, LeastNumber
  <2>2. n \in 1..N /\ n - 1 \in 0..N /\ ~(n <= n - 1)
    OBVIOUS
  <2>3. n - 1 \notin T
    BY <2>1, <2>2
  <2> QED
    BY <2>2, <2>3
<1>2. \A n \in 0..N : f[n] = g[n]
  BY <1>1
<1> QED
  BY <1>2

(* What grows at each step grows with their number. *)
LEMMA Climbs ==
  ASSUME NEW a \in Nat, NEW b \in Nat, NEW p \in [a..b -> Nat],
         \A i \in (a + 1)..b : p[i] >= p[i - 1] + 1
  PROVE  \A i \in a..b : p[i] >= p[a] + (i - a)
<1> DEFINE T == {i \in a..b : ~(p[i] >= p[a] + (i - a))}
<1>1. T = {}
  <2> SUFFICES ASSUME T # {} PROVE FALSE
    OBVIOUS
  <2>1. PICK n \in T : \A m \in T : n <= m
    <3>1. T \in SUBSET Nat
      OBVIOUS
    <3> HIDE DEF T
    <3> QED
      BY <3>1, LeastNumber
  <2>2. n \in a..b /\ ~(p[n] >= p[a] + (n - a))
    OBVIOUS
  <2>3. n # a
    BY <2>2
  <2>4. n \in (a + 1)..b /\ n - 1 \in a..b /\ ~(n <= n - 1)
    BY <2>2, <2>3
  <2>5. n - 1 \notin T
    BY <2>1, <2>4
  <2>6. p[n - 1] >= p[a] + ((n - 1) - a)
    BY <2>4, <2>5
  <2>7. p[n] >= p[n - 1] + 1 /\ p[n] \in Nat /\ p[n - 1] \in Nat /\ p[a] \in Nat
    BY <2>4
  <2> QED
    BY <2>2, <2>6, <2>7
<1> QED
  BY <1>1

(* The frames of a text.                                                   *)
Frame0 == [ok |-> TRUE, open |-> <<>>]
FrameState == [ok : BOOLEAN, open : Seq(BOOLEAN)]
Reads == Seq([kind : Kind, key : DOMAIN Texts])

(* What a token leaves open is again a sequence of frames. *)
LEMMA AfterTokenTyped ==
  ASSUME NEW was \in FrameState, NEW t
  PROVE  AfterToken(was, t) \in FrameState
<1>1. was.ok \in BOOLEAN /\ was.open \in Seq(BOOLEAN) /\ Len(was.open) \in Nat
  BY DEF FrameState
<1>2. CASE t.kind = "if"
  <2>1. AfterToken(was, t) = [ok |-> was.ok /\ Len(was.open) < MaxDepth, open |-> Append(was.open, FALSE)]
    BY <1>2 DEF AfterToken
  <2>2. Append(was.open, FALSE) \in Seq(BOOLEAN)
    BY <1>1
  <2> QED
    BY <2>1, <2>2 DEF FrameState
<1>3. CASE t.kind = "else" /\ Len(was.open) > 0
  <2>1. AfterToken(was, t) = [ok |-> was.ok /\ ~was.open[Len(was.open)],
                              open |-> [was.open EXCEPT ![Len(was.open)] = TRUE]]
    BY <1>3 DEF AfterToken
  <2>2. [was.open EXCEPT ![Len(was.open)] = TRUE] \in Seq(BOOLEAN)
    BY <1>1, <1>3
  <2> QED
    BY <2>1, <2>2 DEF FrameState
<1>4. CASE t.kind = "endif" /\ Len(was.open) > 0
  <2>1. AfterToken(was, t) = [was EXCEPT !.open = SubSeq(was.open, 1, Len(was.open) - 1)]
    BY <1>4 DEF AfterToken
  <2>2. SubSeq(was.open, 1, Len(was.open) - 1) \in Seq(BOOLEAN)
    BY <1>1, <1>4
  <2> QED
    BY <2>1, <2>2 DEF FrameState
<1>5. CASE t.kind \in {"else", "endif"} /\ Len(was.open) = 0
  <2>1. AfterToken(was, t) = [was EXCEPT !.ok = FALSE]
    BY <1>5 DEF AfterToken
  <2> QED
    BY <2>1 DEF FrameState
<1>6. CASE t.kind \notin {"if", "else", "endif"}
  BY <1>6 DEF AfterToken
<1> QED
  BY <1>1, <1>2, <1>3, <1>4, <1>5, <1>6

(* The frames of a text are found token by token, from none. *)
LEMMA FramesRecur ==
  ASSUME NEW s \in Reads
  PROVE  \E f \in [0..Len(s) -> FrameState] :
           /\ f[0] = Frame0 /\ Frames(s) = f[Len(s)]
           /\ \A n \in 1..Len(s) : f[n] = AfterToken(f[n - 1], s[n])
<1> DEFINE N == Len(s)
           step == [p \in FrameState \X (1..N) |-> AfterToken(p[1], s[p[2]])]
           Eq(f) == f = [n \in 0..N |-> IF n = 0 THEN Frame0 ELSE AfterToken(f[n - 1], s[n])]
<1>1. N \in Nat /\ Frame0 \in FrameState
  BY DEF Reads, Frame0, FrameState
<1>2. step \in [FrameState \X (1..N) -> FrameState]
  BY AfterTokenTyped
<1> HIDE DEF N
<1>3. PICK f \in [0..N -> FrameState] : Iterates(f, Frame0, step, N)
  <2> HIDE DEF step
  <2> QED
    BY <1>1, <1>2, Iteration
<1>4. \A n \in 1..N : f[n] = AfterToken(f[n - 1], s[n])
  <2> TAKE n \in 1..N
  <2>1. n - 1 \in 0..N
    BY <1>1
  <2>2. f[n - 1] \in FrameState
    BY <2>1
  <2> QED
    BY <1>3, <2>2 DEF Iterates
<1>5. Eq(f)
  <2> DEFINE g == [n \in 0..N |-> IF n = 0 THEN Frame0 ELSE AfterToken(f[n - 1], s[n])]
  <2>1. \A n \in 0..N : f[n] = g[n]
    BY <1>1, <1>3, <1>4 DEF Iterates
  <2> QED
    BY <2>1
<1> DEFINE c == CHOOSE g : Eq(g)
<1>6. Eq(c)
  <2> HIDE DEF Eq
  <2> QED
    BY <1>5
<1>7. Frames(s) = c[N]
  BY DEF Frames, N, Frame0
<1> HIDE DEF c, Eq
<1>8. c = f
  <2>1. f = [n \in 0..N |-> IF n = 0 THEN Frame0 ELSE AfterToken(f[n - 1], s[n])]
    BY <1>5 DEF Eq
  <2>2. c = [n \in 0..N |-> IF n = 0 THEN Frame0 ELSE AfterToken(c[n - 1], s[n])]
    BY <1>6 DEF Eq
  <2>3. OnInterval(f, N) /\ OnInterval(c, N)
    BY <1>1, <2>1, <2>2 DEF OnInterval
  <2>4. Follow(f, c, N)
    BY <1>1, <2>1, <2>2 DEF Follow
  <2> QED
    BY <1>1, <2>3, <2>4, Agreement
<1> QED
  BY <1>3, <1>4, <1>7, <1>8 DEF N, Iterates

(* A text of good structure is nested, in whatever include it is read.     *)
LEMMA GoodTextsAreNested ==
  ASSUME NEW s \in Reads, ValidateRegistryStructure(s), NEW within \in SUBSET DOMAIN Texts
  PROVE  Nested(Within(s, within), 0, 0)
<1> DEFINE N == Len(s)
           w == Within(s, within)
<1>1. N \in Nat /\ Len(w) = N /\ \A i \in 1..N : w[i].kind = s[i].kind
  <2>1. s \in Seq([kind : Kind, key : DOMAIN Texts])
    BY DEF Reads
  <2>2. Len(s) \in Nat
    BY <2>1, LenProperties
  <2>3. /\ Len(Within(s, within)) = Len(s)
        /\ \A i \in 1..Len(s) : Within(s, within)[i].kind = s[i].kind
    BY <2>1, WaitsWithin
  <2> QED
    BY <2>2, <2>3
<1>2. PICK f \in [0..N -> FrameState] :
        /\ f[0] = Frame0 /\ Frames(s) = f[N]
        /\ \A n \in 1..N : f[n] = AfterToken(f[n - 1], s[n])
  BY FramesRecur
<1>3. f[N].ok /\ f[N].open = <<>>
  BY <1>2 DEF ValidateRegistryStructure
<1> HIDE DEF N, w
<1> DEFINE h == [n \in 0..N |-> Len(f[n].open)]
<1>4. \A n \in 0..N : f[n].ok \in BOOLEAN /\ f[n].open \in Seq(BOOLEAN) /\ Len(f[n].open) \in Nat
  <2> TAKE n \in 0..N
  <2>1. f[n] \in FrameState
    OBVIOUS
  <2> QED
    BY <2>1 DEF FrameState
<1>5. \A n \in 1..N : f[n].ok => f[n - 1].ok
  <2> TAKE n \in 1..N
  <2>1. f[n] = AfterToken(f[n - 1], s[n]) /\ f[n - 1].ok \in BOOLEAN /\ f[n - 1] \in FrameState
    BY <1>1, <1>2, <1>4
  <2> QED
    BY <2>1 DEF AfterToken, FrameState
<1>6. \A n \in 0..N : f[n].ok
  <2> DEFINE T == {k \in 0..N : ~f[N - k].ok}
  <2> SUFFICES ASSUME T # {} PROVE FALSE
    <3>1. ASSUME T = {}, NEW n \in 0..N PROVE f[n].ok
      <4>1. N - n \in 0..N /\ N - (N - n) = n
        BY <1>1
      <4> QED
        BY <3>1, <4>1
    <3> QED
      BY <3>1
  <2>1. PICK k \in T : \A m \in T : k <= m
    <3>1. T \in SUBSET Nat
      BY <1>1
    <3> HIDE DEF T
    <3> QED
      BY <3>1, LeastNumber
  <2>2. k \in 0..N /\ ~f[N - k].ok
    OBVIOUS
  <2>3. k # 0
    BY <1>1, <1>3, <2>2
  <2>4. k - 1 \in 0..N /\ ~(k <= k - 1) /\ N - (k - 1) \in 1..N /\ (N - (k - 1)) - 1 = N - k
    BY <1>1, <2>2, <2>3
  <2>5. f[N - (k - 1)].ok
    BY <2>1, <2>4
  <2> QED
    BY <1>5, <2>2, <2>4, <2>5
<1>7. ASSUME NEW n \in 1..N PROVE Changes(h[n - 1], s[n].kind, h[n])
  <2>1. n - 1 \in 0..N /\ n \in 0..N /\ f[n] = AfterToken(f[n - 1], s[n]) /\ f[n].ok /\ f[n - 1].ok
    BY <1>1, <1>2, <1>6
  <2> DEFINE was == f[n - 1]
             kind == s[n].kind
             top == Len(was.open)
  <2>2. was \in FrameState /\ was.open \in Seq(BOOLEAN) /\ top \in Nat
    BY <1>4, <2>1
  <2>3. AfterToken(was, s[n]).ok
    BY <2>1
  <2>4. h[n - 1] = top /\ h[n] = Len(AfterToken(was, s[n]).open)
    BY <2>1
  <2> HIDE DEF was, h
  <2>5. kind \in {"else", "endif"} => top > 0
    <3> SUFFICES ASSUME kind \in {"else", "endif"}, top = 0 PROVE FALSE
      BY <2>2
    <3>1. AfterToken(was, s[n]) = [was EXCEPT !.ok = FALSE]
      BY DEF AfterToken
    <3> QED
      BY <2>2, <2>3, <3>1 DEF FrameState
  <2>6. CASE kind = "if"
    <3>1. AfterToken(was, s[n]).open = Append(was.open, FALSE)
      BY <2>6 DEF AfterToken
    <3> QED
      BY <2>2, <2>4, <2>6, <3>1 DEF Changes
  <2>7. CASE kind = "else"
    <3>1. AfterToken(was, s[n]).open = [was.open EXCEPT ![top] = TRUE]
      BY <2>5, <2>7 DEF AfterToken
    <3> QED
      BY <2>2, <2>4, <2>5, <2>7, <3>1 DEF Changes
  <2>8. CASE kind = "endif"
    <3>1. AfterToken(was, s[n]) = [was EXCEPT !.open = SubSeq(was.open, 1, top - 1)]
      BY <2>5, <2>8 DEF AfterToken
    <3>2. AfterToken(was, s[n]).open = SubSeq(was.open, 1, top - 1)
      BY <2>2, <3>1 DEF FrameState
    <3>3. Len(SubSeq(was.open, 1, top - 1)) = top - 1
      BY <2>2, <2>5, <2>8
    <3> QED
      BY <2>4, <2>5, <2>8, <3>2, <3>3 DEF Changes
  <2>9. CASE kind \notin {"if", "else", "endif"}
    <3>1. AfterToken(was, s[n]) = was
      BY <2>9 DEF AfterToken
    <3> QED
      BY <2>4, <2>9, <3>1 DEF Changes
  <2> QED
    BY <2>6, <2>7, <2>8, <2>9
<1>8. h \in [0..N -> Nat] /\ h[0] = 0 /\ h[N] = 0
  BY <1>1, <1>2, <1>3, <1>4 DEF Frame0
<1>9. \A i \in 1..N : Changes(h[i - 1], w[i].kind, h[i])
  <2> HIDE DEF h
  <2> QED
    BY <1>1, <1>7 DEF w
<1> HIDE DEF h
<1>10. 0 + 1 = 1 /\ Len(w) = N
  BY <1>1 DEF w
<1>11. Nested(w, 0, 0)
  BY <1>8, <1>9, <1>10 DEF Nested
<1> QED
  BY <1>11 DEF w

(* Every token weighs something. *)
LEMMA WeightsTyped ==
  ASSUME NEW s \in Seq(Token)
  PROVE  \A i \in 1..Len(s) : Weight[s[i]] \in Nat \ {0}
<1>1. \A i \in 1..Len(s) : s[i] \in Token
  OBVIOUS
<1> QED
  BY <1>1, WeightAssumption

(* The weight of a text is found token by token, from nothing. *)
LEMMA WeightsRecur ==
  ASSUME NEW s \in Seq(Token)
  PROVE  \E f \in [0..Len(s) -> Nat] :
           /\ f[0] = 0 /\ TotalWeight(s) = f[Len(s)]
           /\ \A n \in 1..Len(s) : f[n] = f[n - 1] + Weight[s[n]]
<1> DEFINE N == Len(s)
           step == [p \in Nat \X (1..N) |-> p[1] + Weight[s[p[2]]]]
           Eq(f) == f = [n \in 0..N |-> IF n = 0 THEN 0 ELSE f[n - 1] + Weight[s[n]]]
<1>1. N \in Nat /\ \A n \in 1..N : Weight[s[n]] \in Nat
  BY WeightsTyped
<1> HIDE DEF N
<1>2. step \in [Nat \X (1..N) -> Nat]
  BY <1>1
<1>3. PICK f \in [0..N -> Nat] : Iterates(f, 0, step, N)
  <2> HIDE DEF step
  <2> QED
    BY <1>1, <1>2, Iteration
<1>4. \A n \in 1..N : f[n] = f[n - 1] + Weight[s[n]]
  <2> TAKE n \in 1..N
  <2>1. n - 1 \in 0..N
    BY <1>1
  <2>2. f[n - 1] \in Nat
    BY <2>1
  <2> QED
    BY <1>3, <2>2 DEF Iterates
<1>5. Eq(f)
  <2> DEFINE g == [n \in 0..N |-> IF n = 0 THEN 0 ELSE f[n - 1] + Weight[s[n]]]
  <2>1. \A n \in 0..N : f[n] = g[n]
    BY <1>1, <1>3, <1>4 DEF Iterates
  <2> QED
    BY <2>1
<1> DEFINE c == CHOOSE g : Eq(g)
<1>6. Eq(c)
  <2> HIDE DEF Eq
  <2> QED
    BY <1>5
<1>7. TotalWeight(s) = c[N]
  BY DEF TotalWeight, N
<1> HIDE DEF c, Eq
<1>8. c = f
  <2>1. f = [n \in 0..N |-> IF n = 0 THEN 0 ELSE f[n - 1] + Weight[s[n]]]
    BY <1>5 DEF Eq
  <2>2. c = [n \in 0..N |-> IF n = 0 THEN 0 ELSE c[n - 1] + Weight[s[n]]]
    BY <1>6 DEF Eq
  <2>3. OnInterval(f, N) /\ OnInterval(c, N)
    BY <1>1, <2>1, <2>2 DEF OnInterval
  <2>4. Follow(f, c, N)
    BY <1>1, <2>1, <2>2 DEF Follow
  <2> QED
    BY <1>1, <2>3, <2>4, Agreement
<1> QED
  BY <1>3, <1>4, <1>7, <1>8 DEF N, Iterates

(* Consuming a token opens or closes what it says.                         *)
LEMMA NestedConsumed ==
  ASSUME NEW s \in Seq(Token), NEW n \in 0..(Len(s) - 1), NEW d, Nested(s, n, d)
  PROVE  \E e \in Nat : d \in Nat /\ Changes(d, s[n + 1].kind, e) /\ Nested(s, n + 1, e)
<1>1. PICK h \in [n..Len(s) -> Nat] :
        /\ h[n] = d /\ h[Len(s)] = 0
        /\ \A i \in (n + 1)..Len(s) : Changes(h[i - 1], s[i].kind, h[i])
  BY DEF Nested
<1> DEFINE N == Len(s)
<1>2. N \in Nat /\ n \in Nat /\ n < N
  OBVIOUS
<1> HIDE DEF N
<1> DEFINE k == [i \in (n + 1)..N |-> h[i]]
<1>3. k \in [(n + 1)..N -> Nat]
  BY <1>2 DEF N
<1>4. /\ k[N] = 0 /\ k[n + 1] = h[n + 1] /\ h[n + 1] \in Nat /\ h[n] \in Nat
      /\ n + 1 \in (n + 1)..N /\ (n + 1) - 1 = n
  BY <1>1, <1>2 DEF N
<1>5. \A i \in ((n + 1) + 1)..N : Changes(k[i - 1], s[i].kind, k[i])
  <2> TAKE i \in ((n + 1) + 1)..N
  <2>1. i - 1 \in (n + 1)..N /\ i \in (n + 1)..N
    BY <1>2
  <2> QED
    BY <1>1, <2>1 DEF N
<1>6. Changes(d, s[n + 1].kind, h[n + 1])
  BY <1>1, <1>4 DEF N
<1> HIDE DEF k
<1>7. Nested(s, n + 1, h[n + 1])
  BY <1>3, <1>4, <1>5 DEF Nested, N
<1> QED
  BY <1>1, <1>4, <1>6, <1>7

(* And it leaves as much room as an include of it may take.                *)
LEMMA FitsConsumed ==
  ASSUME NEW s \in Seq(Token), NEW n \in 0..(Len(s) - 1), Fits(s, n, 0)
  PROVE  Fits(s, n + 1, 0) /\ Fits(s, n + 1, Weight[s[n + 1]] - 1)
<1> DEFINE N == Len(s)
<1>1. PICK p \in [n..N -> Nat] :
        /\ p[n] >= n + 0 /\ p[N] <= TokenBound
        /\ \A i \in (n + 1)..N : p[i] >= p[i - 1] + Weight[s[i]]
  BY DEF Fits
<1>2. N \in Nat /\ n \in Nat /\ n < N
  OBVIOUS
<1>3. n + 1 \in 1..N /\ Weight[s[n + 1]] \in Nat \ {0}
  BY WeightsTyped
<1> HIDE DEF N
<1> DEFINE q == [i \in (n + 1)..N |-> p[i]]
<1>4. q \in [(n + 1)..N -> Nat]
  BY <1>2
<1>5. /\ q[N] = p[N] /\ q[n + 1] = p[n + 1] /\ p[n + 1] \in Nat /\ p[n] \in Nat
      /\ n + 1 \in (n + 1)..N /\ (n + 1) - 1 = n
  BY <1>2
<1>6. p[n + 1] >= p[n] + Weight[s[n + 1]]
  BY <1>1, <1>5
<1>7. q[n + 1] >= (n + 1) + 0 /\ q[n + 1] >= (n + 1) + (Weight[s[n + 1]] - 1)
  BY <1>1, <1>2, <1>3, <1>5, <1>6
<1>8. \A i \in ((n + 1) + 1)..N : q[i] >= q[i - 1] + Weight[s[i]]
  <2> TAKE i \in ((n + 1) + 1)..N
  <2>1. i - 1 \in (n + 1)..N /\ i \in (n + 1)..N
    BY <1>2
  <2> QED
    BY <1>1, <2>1
<1>9. q[N] <= TokenBound
  BY <1>1, <1>5
<1> HIDE DEF q
<1> QED
  BY <1>4, <1>7, <1>8, <1>9 DEF Fits, N

(* What fits is no longer than the bound.                                  *)
LEMMA FitsIsShort ==
  ASSUME NEW s \in Seq(Token), NEW n \in 0..Len(s), NEW r \in Nat, Fits(s, n, r)
  PROVE  Len(s) + r <= TokenBound
<1> DEFINE N == Len(s)
<1>1. PICK p \in [n..N -> Nat] :
        /\ p[n] >= n + r /\ p[N] <= TokenBound
        /\ \A i \in (n + 1)..N : p[i] >= p[i - 1] + Weight[s[i]]
  BY DEF Fits
<1>2. N \in Nat /\ n \in Nat /\ n <= N
  OBVIOUS
<1>3. \A i \in (n + 1)..N : Weight[s[i]] \in Nat \ {0}
  BY WeightsTyped
<1> HIDE DEF N
<1>4. \A i \in (n + 1)..N : p[i] >= p[i - 1] + 1
  <2> TAKE i \in (n + 1)..N
  <2>1. i - 1 \in n..N /\ i \in n..N
    BY <1>2
  <2>2. p[i - 1] \in Nat /\ p[i] \in Nat /\ Weight[s[i]] \in Nat \ {0}
    BY <1>3, <2>1
  <2> QED
    BY <1>1, <2>2
<1>5. \A i \in n..N : p[i] >= p[n] + (i - n)
  BY <1>2, <1>4, Climbs
<1>6. N \in n..N /\ p[N] \in Nat /\ p[n] \in Nat
  BY <1>2
<1>7. p[N] >= p[n] + (N - n)
  BY <1>5, <1>6
<1>8. TokenBound \in Nat
  BY DispatchAssumption
<1> QED
  BY <1>1, <1>2, <1>6, <1>7, <1>8 DEF N

(* What a token does to the number of open conditions it does below others. *)
LEMMA Deeper ==
  ASSUME NEW d \in Nat, NEW x \in Nat, NEW y \in Nat, NEW kind, Changes(x, kind, y)
  PROVE  Changes(d + x, kind, d + y)
BY DEF Changes

(* A nested text that is inserted leaves what it is inserted into nested.  *)
LEMMA NestedSpliced ==
  ASSUME NEW s \in Seq(Token), NEW mid \in Seq(Token), NEW n \in 0..Len(s), NEW d,
         Nested(s, n, d), Nested(mid, 0, 0)
  PROVE  Nested(Spliced(s, n, mid), n, d)
<1> DEFINE N == Len(s)
           M == Len(mid)
           t == Spliced(s, n, mid)
<1>1. PICK h \in [n..N -> Nat] :
        /\ h[n] = d /\ h[N] = 0
        /\ \A i \in (n + 1)..N : Changes(h[i - 1], s[i].kind, h[i])
  BY DEF Nested
<1>2. PICK g \in [0..M -> Nat] :
        /\ g[0] = 0 /\ g[M] = 0
        /\ \A i \in (0 + 1)..M : Changes(g[i - 1], mid[i].kind, g[i])
  BY DEF Nested
<1>3. N \in Nat /\ M \in Nat /\ n \in Nat /\ n <= N
  OBVIOUS
<1>4. /\ Len(t) = N + M
      /\ \A i \in 1..M : t[n + i] = mid[i]
      /\ \A i \in (n + 1)..N : t[i + M] = s[i]
  BY Splice
<1> HIDE DEF N, M, t
<1>5. h[n] = d /\ d \in Nat
  BY <1>1, <1>3
<1> DEFINE k == [j \in n..(N + M) |-> IF j <= n + M THEN d + g[j - n] ELSE h[j - M]]
<1>6. k \in [n..(N + M) -> Nat]
  <2>1. ASSUME NEW j \in n..(N + M) PROVE (IF j <= n + M THEN d + g[j - n] ELSE h[j - M]) \in Nat
    <3>1. CASE j <= n + M
      <4>1. j - n \in 0..M
        BY <1>3, <3>1
      <4> QED
        BY <1>5, <3>1, <4>1
    <3>2. CASE ~(j <= n + M)
      <4>1. j - M \in n..N
        BY <1>3, <3>2
      <4> QED
        BY <3>2, <4>1
    <3> QED
      BY <3>1, <3>2
  <2> QED
    BY <2>1
<1>7. k[n] = d
  <2>1. n \in n..(N + M) /\ n <= n + M /\ n - n = 0
    BY <1>3
  <2> QED
    BY <1>2, <1>5, <2>1
<1>8. \A i \in 0..M : k[n + i] = d + g[i]
  <2> TAKE i \in 0..M
  <2>1. n + i \in n..(N + M) /\ n + i <= n + M /\ (n + i) - n = i
    BY <1>3
  <2> QED
    BY <2>1
<1>9. \A i \in n..N : k[i + M] = h[i]
  <2> TAKE i \in n..N
  <2>1. i + M \in n..(N + M) /\ (i + M) - M = i
    BY <1>3
  <2>2. CASE i = n
    <3>1. i + M <= n + M /\ (i + M) - n = M
      BY <1>3, <2>2
    <3> QED
      BY <1>2, <1>5, <2>1, <2>2, <3>1
  <2>3. CASE i # n
    <3>1. ~(i + M <= n + M)
      BY <1>3, <2>3
    <3> QED
      BY <2>1, <3>1
  <2> QED
    BY <2>2, <2>3
<1> HIDE DEF k
<1>10. k[N + M] = 0
  <2>1. N \in n..N
    BY <1>3
  <2> QED
    BY <1>1, <1>9, <2>1
<1>11. ASSUME NEW j \in (n + 1)..(N + M) PROVE Changes(k[j - 1], t[j].kind, k[j])
  <2>1. CASE j <= n + M
    <3> DEFINE i == j - n
    <3>1. i \in 1..M /\ i \in 0..M /\ i - 1 \in 0..M /\ n + i = j /\ n + (i - 1) = j - 1
      BY <1>3, <2>1
    <3> HIDE DEF i
    <3>2. k[j] = d + g[i] /\ k[j - 1] = d + g[i - 1] /\ t[j] = mid[i] /\ g[i] \in Nat /\ g[i - 1] \in Nat
      BY <1>4, <1>8, <3>1
    <3>3. Changes(g[i - 1], mid[i].kind, g[i])
      BY <1>2, <3>1
    <3>4. Changes(d + g[i - 1], mid[i].kind, d + g[i])
      BY <1>5, <3>2, <3>3, Deeper
    <3> QED
      BY <3>2, <3>4
  <2>2. CASE ~(j <= n + M)
    <3> DEFINE i == j - M
    <3>1. i \in (n + 1)..N /\ i \in n..N /\ i - 1 \in n..N /\ i + M = j /\ (i - 1) + M = j - 1
      BY <1>3, <2>2
    <3> HIDE DEF i
    <3>2. k[j] = h[i] /\ k[j - 1] = h[i - 1] /\ t[j] = s[i]
      BY <1>4, <1>9, <3>1
    <3>3. Changes(h[i - 1], s[i].kind, h[i])
      BY <1>1, <3>1
    <3> QED
      BY <3>2, <3>3
  <2> QED
    BY <2>1, <2>2
<1>12. Nested(t, n, d)
  BY <1>4, <1>6, <1>7, <1>10, <1>11 DEF Nested
<1> QED
  BY <1>12 DEF t

(* A text that is inserted takes no more room than was kept for it.        *)
LEMMA FitsSpliced ==
  ASSUME NEW s \in Seq(Token), NEW mid \in Seq(Token), NEW n \in 0..Len(s), NEW r \in Nat,
         Fits(s, n, r), TotalWeight(mid) <= r
  PROVE  Fits(Spliced(s, n, mid), n, 0)
<1> DEFINE N == Len(s)
           M == Len(mid)
           t == Spliced(s, n, mid)
<1>1. PICK p \in [n..N -> Nat] :
        /\ p[n] >= n + r /\ p[N] <= TokenBound
        /\ \A i \in (n + 1)..N : p[i] >= p[i - 1] + Weight[s[i]]
  BY DEF Fits
<1>2. PICK g \in [0..M -> Nat] :
        /\ g[0] = 0 /\ TotalWeight(mid) = g[M]
        /\ \A i \in 1..M : g[i] = g[i - 1] + Weight[mid[i]]
  BY WeightsRecur
<1>3. N \in Nat /\ M \in Nat /\ n \in Nat /\ n <= N
  OBVIOUS
<1>4. /\ Len(t) = N + M /\ t \in Seq(Token)
      /\ \A i \in 1..M : t[n + i] = mid[i]
      /\ \A i \in (n + 1)..N : t[i + M] = s[i]
  BY Splice
<1>5. \A i \in (n + 1)..N : Weight[s[i]] \in Nat
  BY WeightsTyped
<1> HIDE DEF N, M, t
<1>6. p[n] \in Nat /\ g[M] \in Nat /\ n + g[M] <= p[n]
  <2>1. n \in n..N /\ M \in 0..M
    BY <1>3
  <2>2. p[n] \in Nat /\ g[M] \in Nat
    BY <2>1
  <2> QED
    BY <1>1, <1>2, <1>3, <2>2
<1> DEFINE c == p[n] - g[M]
           q == [j \in n..(N + M) |-> IF j <= n + M THEN c + g[j - n] ELSE p[j - M]]
<1>7. c \in Nat /\ c >= n /\ c + g[M] = p[n]
  BY <1>3, <1>6
<1> HIDE DEF c
<1>8. q \in [n..(N + M) -> Nat]
  <2>1. ASSUME NEW j \in n..(N + M) PROVE (IF j <= n + M THEN c + g[j - n] ELSE p[j - M]) \in Nat
    <3>1. CASE j <= n + M
      <4>1. j - n \in 0..M
        BY <1>3, <3>1
      <4> QED
        BY <1>7, <3>1, <4>1
    <3>2. CASE ~(j <= n + M)
      <4>1. j - M \in n..N
        BY <1>3, <3>2
      <4> QED
        BY <3>2, <4>1
    <3> QED
      BY <3>1, <3>2
  <2> QED
    BY <2>1
<1>9. \A i \in 0..M : q[n + i] = c + g[i]
  <2> TAKE i \in 0..M
  <2>1. n + i \in n..(N + M) /\ n + i <= n + M /\ (n + i) - n = i
    BY <1>3
  <2> QED
    BY <2>1
<1>10. \A i \in n..N : q[i + M] = p[i]
  <2> TAKE i \in n..N
  <2>1. i + M \in n..(N + M) /\ (i + M) - M = i
    BY <1>3
  <2>2. CASE i = n
    <3>1. i + M <= n + M /\ (i + M) - n = M
      BY <1>3, <2>2
    <3> QED
      BY <1>7, <2>1, <2>2, <3>1
  <2>3. CASE i # n
    <3>1. ~(i + M <= n + M)
      BY <1>3, <2>3
    <3> QED
      BY <2>1, <3>1
  <2> QED
    BY <2>2, <2>3
<1> HIDE DEF q
<1>11. q[n] >= n + 0
  <2>1. 0 \in 0..M /\ n + 0 = n
    BY <1>3
  <2>2. q[n] = c + g[0]
    BY <1>9, <2>1
  <2> QED
    BY <1>2, <1>3, <1>7, <2>2
<1>12. q[N + M] <= TokenBound
  <2>1. N \in n..N
    BY <1>3
  <2> QED
    BY <1>1, <1>10, <2>1
<1>13. ASSUME NEW j \in (n + 1)..(N + M) PROVE q[j] >= q[j - 1] + Weight[t[j]]
  <2>1. CASE j <= n + M
    <3> DEFINE i == j - n
    <3>1. i \in 1..M /\ i \in 0..M /\ i - 1 \in 0..M /\ n + i = j /\ n + (i - 1) = j - 1
      BY <1>3, <2>1
    <3> HIDE DEF i
    <3>2. q[j] = c + g[i] /\ q[j - 1] = c + g[i - 1] /\ t[j] = mid[i] /\ g[i] \in Nat /\ g[i - 1] \in Nat
      BY <1>4, <1>9, <3>1
    <3> DEFINE w == Weight[mid[i]]
               x == g[i - 1]
    <3>3. g[i] = x + w /\ w \in Nat /\ x \in Nat
      BY <1>2, <3>1, <3>2, WeightsTyped DEF M
    <3>4. q[j] = c + g[i] /\ q[j - 1] = c + x /\ Weight[t[j]] = w
      BY <3>2
    <3> HIDE DEF w, x
    <3> QED
      BY <1>7, <3>3, <3>4
  <2>2. CASE ~(j <= n + M)
    <3> DEFINE i == j - M
    <3>1. i \in (n + 1)..N /\ i \in n..N /\ i - 1 \in n..N /\ i + M = j /\ (i - 1) + M = j - 1
      BY <1>3, <2>2
    <3> HIDE DEF i
    <3>2. q[j] = p[i] /\ q[j - 1] = p[i - 1] /\ t[j] = s[i]
      BY <1>4, <1>10, <3>1
    <3>3. p[i] >= p[i - 1] + Weight[s[i]]
      BY <1>1, <3>1
    <3> QED
      BY <3>2, <3>3
  <2> QED
    BY <2>1, <2>2
<1>14. Fits(t, n, 0)
  BY <1>4, <1>8, <1>11, <1>12, <1>13 DEF Fits
<1> QED
  BY <1>14 DEF t

-----------------------------------------------------------------------------
Task == [state : WorkState, doc : Doc, play : Nat, index : Nat]

BackendOK == work \in [TaskId -> Task] /\ nextId \in 1..(MaxTasks + 1) /\ restarted \in BOOLEAN

SequenceOK ==
  /\ task \in 0..MaxTasks /\ active \in BOOLEAN
  /\ sequence \in {"idle", "running", "finished", "failed", "stopped"}
  /\ generation \in Nat
  /\ ui \in {"idle", "compile", "read", "submit"}

PollOK == poll \in {NoPoll} \cup [task : TaskId, generation : Nat, reply : Reply]

ReadOK == snapshot \in BOOLEAN /\ cancelled \in BOOLEAN

HistoryOK == plays \in 0..MaxPlays /\ stopped \subseteq 1..MaxPlays

CursorOK ==
  /\ tokens \in Seq(Token) /\ at \in 0..Len(tokens)
  /\ branches \in Seq(Frame) /\ Len(branches) <= MaxDepth
  /\ index \in Nat /\ total \in Nat
  /\ doc \in Doc

FlagsOK == leadingWait \in BOOLEAN /\ leading \in BOOLEAN

(* The types, in parts that are kept by themselves.                        *)
LEMMA TypeParts ==
  TypeOK <=> BackendOK /\ CursorOK /\ FlagsOK /\ SequenceOK /\ PollOK /\ ReadOK /\ HistoryOK
BY DEF TypeOK, BackendOK, CursorOK, FlagsOK, SequenceOK, PollOK, ReadOK, HistoryOK, Task, Doc

(* A task that belongs to no sequence. *)
Single == [state : {"active"}, doc : {<<>>}, play : {0}, index : Nat]

Schedules(t) == Accepts(t) /\ UNCHANGED <<cursorVars, sequenceVars, poll, ui, readVars, historyVars>>

(* A step of the sequence, or of a client that schedules any single task. *)
Step == DispatchNext \/ \E t \in Single : Schedules(t)

(* What others do to the daemon's tasks leaves those of a sequence as they *)
(* are, but for their end.                                                 *)
OnlyEnds ==
  \A id \in TaskId :
    \/ work'[id].play = 0
    \/ /\ work'[id].play = work[id].play /\ work'[id].index = work[id].index
       /\ work'[id].doc = work[id].doc
       /\ work'[id].state = "active" => work[id].state = "active"

Others == TaskEnds \/ StopsAll \/ Restart \/ (\E t \in Single : Accepts(t)) \/ UNCHANGED backendVars

(* The daemon and its other clients keep the tasks typed and begin none of *)
(* the sequence's.                                                         *)
LEMMA OthersTyped ==
  ASSUME BackendOK, Others
  PROVE  BackendOK' /\ OnlyEnds
<1> USE DEF BackendOK
<1>1. CASE TaskEnds
  <2>1. PICK id \in TaskId, s \in {"finished", "failed"} :
          work[id].state = "active" /\ work' = [work EXCEPT ![id].state = s]
    BY <1>1 DEF TaskEnds
  <2>2. work[id] \in Task
    OBVIOUS
  <2>3. [work[id] EXCEPT !.state = s] \in Task
    BY <2>2 DEF Task, WorkState
  <2>4. BackendOK'
    BY <1>1, <2>1, <2>3 DEF TaskEnds
  <2>5. OnlyEnds
    BY <2>1, <2>2 DEF OnlyEnds, Task
  <2> QED
    BY <2>4, <2>5
<1>2. CASE StopsAll
  BY <1>2 DEF StopsAll, AllStopped, Task, WorkState, OnlyEnds
<1>3. CASE Restart
  BY <1>3, BackendAssumption DEF Restart, NoTask, Task, WorkState, Doc, OnlyEnds
<1>4. ASSUME NEW t \in Single, Accepts(t) PROVE BackendOK' /\ OnlyEnds
  <2>1. t \in Task /\ t.play = 0
    <3>1. t \in [state : {"active"}, doc : {<<>>}, play : {0}, index : Nat] /\ <<>> \in Doc
      BY DEF Single, Doc
    <3> QED
      BY <3>1 DEF Task, WorkState
  <2>2. nextId \in TaskId /\ work' = [work EXCEPT ![nextId] = t] /\ nextId' = nextId + 1 /\ UNCHANGED restarted
    BY <1>4 DEF Accepts
  <2> QED
    BY <2>1, <2>2, BackendAssumption DEF TaskId, OnlyEnds
<1>5. CASE UNCHANGED backendVars
  BY <1>5 DEF backendVars, OnlyEnds
<1> QED
  BY <1>1, <1>2, <1>3, <1>4, <1>5 DEF Others

(* What the daemon and its other clients do leaves the sequence alone. *)
LEMMA StepOthers ==
  ASSUME BackendStep \/ (\E t \in Single : Schedules(t)) \/ UNCHANGED dispatchVars
  PROVE  Others /\ UNCHANGED <<cursorVars, sequenceVars, poll, ui, readVars, historyVars>>
<1>1. Foreign \in Single
  BY DEF Foreign, Single
<1> QED
  BY <1>1 DEF BackendStep, Others, OthersStop, OthersSchedule, Schedules, dispatchVars

(* The daemon's tasks change by themselves, or when the sequence sends one. *)
LEMMA BackendMoves ==
  ASSUME [Step]_dispatchVars
  PROVE  Others \/ Submitted \/ SubmitAnswerLost
<1>1. CASE UNCHANGED backendVars
  BY <1>1 DEF Others
<1>2. CASE (CompileStep \/ ReadStep \/ SubmitStep) /\ ~Submitted /\ ~SubmitAnswerLost
  BY <1>1, <1>2
  DEF CompileStep, OpenIf, TakeElse, TakeEndIf, SkipToken, TakeAction, TakeSet, TakeWait, BreakAtWait,
      EndOfScript, Include, TokenFails, ReadStep, ReadReturns, ReadFails, SubmitStep, EmptyLast,
      EmptySegment, SubmitRefused, compileOther
<1>3. CASE PollStep \/ Play \/ SnapshotReads \/ SnapshotReturns \/ StopFails
  BY <1>1, <1>3
  DEF PollStep, BeginPoll, PollAnswered, PollErrs, TickIdle, TickLastFinished, TickFinished, TickFailed,
      Play, SnapshotReads, SnapshotReturns, StopFails
<1>4. CASE StopSent \/ BackendStep \/ (\E t \in Single : Schedules(t)) \/ UNCHANGED dispatchVars
  BY <1>4, StepOthers DEF StopSent, Others
<1> QED
  BY <1>2, <1>3, <1>4 DEF Step, DispatchNext, SubmitStep

(* The daemon takes a task of the sequence. *)
LEMMA SegmentTaken ==
  ASSUME TypeOK, Accepts(Segment)
  PROVE  /\ BackendOK' /\ nextId \in TaskId
         /\ work'[nextId] = Segment
         /\ \A id \in TaskId \ {nextId} : work'[id] = work[id]
         /\ Segment.state = "active" /\ Segment.doc = doc /\ Segment.play = plays /\ Segment.index = index
<1>1. Segment \in Task
  BY DEF Segment, Task, TypeOK, WorkState, Doc
<1>2. nextId \in TaskId /\ work' = [work EXCEPT ![nextId] = Segment] /\ nextId' = nextId + 1 /\ UNCHANGED restarted
  BY DEF Accepts
<1>3. BackendOK /\ nextId + 1 \in 1..(MaxTasks + 1)
  BY <1>2, TypeParts, BackendAssumption DEF BackendOK, TaskId
<1>4. /\ BackendOK' /\ work'[nextId] = Segment
      /\ \A id \in TaskId \ {nextId} : work'[id] = work[id]
  <2> HIDE DEF Segment
  <2> QED
    BY <1>1, <1>2, <1>3 DEF BackendOK
<1> QED
  BY <1>2, <1>4 DEF Segment

-----------------------------------------------------------------------------
(* The flow of the sequence.                                               *)

(* The tasks fit as long as no other is sent and the sequence keeps        *)
(* waiting for its own.                                                    *)
LEMMA TasksStillFit ==
  ASSUME TypeOK, FlowInv, OnlyEnds, UNCHANGED plays, active' => active /\ (task' = task \/ ~Busy(task))
  PROVE  OneTaskAtATime' /\ OnlyTaskIsBusy'
<1> USE DEF TypeOK, FlowInv
<1>1. OneTaskAtATime'
  <2> SUFFICES ASSUME NEW a \in TaskId, NEW b \in TaskId, work'[a].play > 0, work'[b].play > 0,
                      work'[a].play = work'[b].play, work'[a].state = "active", work'[b].state = "active"
               PROVE  a = b
    BY DEF OneTaskAtATime, Own
  <2>1. /\ work[a].play = work'[a].play /\ work[a].state = "active"
        /\ work[b].play = work'[b].play /\ work[b].state = "active"
    BY DEF OnlyEnds
  <2> QED
    BY <2>1 DEF OneTaskAtATime, Own
<1>2. \A id \in TaskId : work'[id].play <= plays
  BY DEF OnlyTaskIsBusy, OnlyEnds
<1>3. ASSUME active', NEW id \in TaskId, Busy(id)' PROVE id = task'
  <2>1. Busy(id) /\ active
    BY <1>3 DEF Busy, OnlyEnds, CodeFitsSequence
  <2> QED
    BY <1>3, <2>1 DEF OnlyTaskIsBusy
<1> QED
  BY <1>1, <1>2, <1>3 DEF OnlyTaskIsBusy

(* An answer fits as long as the sequence keeps waiting for its task, or   *)
(* begins a new generation.                                                *)
LEMMA PollStillFits ==
  ASSUME TypeOK, FlowInv, OnlyEnds, UNCHANGED plays, poll' = poll,
         \/ UNCHANGED generation /\ (active' => active /\ task' = task)
         \/ generation' = generation + 1
  PROVE  PollFitsTask'
<1> SUFFICES ASSUME poll # NoPoll PROVE PollFitsTask'
  BY DEF PollFitsTask
<1> USE DEF TypeOK, FlowInv
<1>1. poll.generation \in Nat /\ generation \in Nat /\ poll.generation <= generation
  BY DEF PollFitsTask
<1>2. CASE generation' = generation + 1
  BY <1>1, <1>2 DEF PollFitsTask
<1>3. CASE UNCHANGED generation /\ (active' => active /\ task' = task)
  <2> SUFFICES ASSUME active', poll.generation = generation
               PROVE  /\ task # 0 /\ poll.task = task
                      /\ poll.reply \in {"finished", "failed", "stopped"} => ~Busy(task)'
    BY <1>1, <1>3 DEF PollFitsTask
  <2>1. task # 0 /\ poll.task = task /\ (poll.reply \in {"finished", "failed", "stopped"} => ~Busy(task))
    BY <1>3 DEF PollFitsTask
  <2>2. Busy(task)' => Busy(task)
    BY <1>3, <2>1 DEF Busy, OnlyEnds, CodeFitsSequence
  <2> QED
    BY <2>1, <2>2
<1> QED
  BY <1>2, <1>3

(* Steps that leave the daemon and the sequence alone. *)
LEMMA CodeMoves ==
  ASSUME TypeOK, FlowInv, UNCHANGED <<backendVars, sequenceVars, poll, historyVars>>, CodeFitsSequence'
  PROVE  FlowInv'
<1>1. OnlyEnds /\ UNCHANGED <<plays, poll, generation, active, task>>
  BY DEF OnlyEnds, backendVars, sequenceVars, historyVars
<1> QED
  BY <1>1, TasksStillFit, PollStillFits DEF FlowInv

(* FinishRegistryDispatch and the two ways to fail, from the sequence's    *)
(* own code or from a poll.                                                *)
LEMMA FinishFits ==
  ASSUME TypeOK, FlowInv, NEW state \in {"finished", "failed"}, Finish(state), plays \notin stopped,
         UNCHANGED <<backendVars, historyVars>>, poll' \in {poll, NoPoll}
  PROVE  FlowInv'
<1>1. /\ OnlyEnds /\ UNCHANGED <<plays, stopped, generation>>
      /\ ~active' /\ task' = 0 /\ sequence' = state /\ ui' = "idle"
  BY DEF OnlyEnds, Finish, backendVars, historyVars
<1>2. CodeFitsSequence'
  BY <1>1 DEF CodeFitsSequence, FlowInv
<1>3. PollFitsTask'
  <2>1. CASE poll' = poll
    BY <1>1, <2>1, PollStillFits
  <2>2. CASE poll' = NoPoll
    BY <2>2 DEF PollFitsTask
  <2> QED
    BY <2>1, <2>2
<1> QED
  BY <1>1, <1>2, <1>3, TasksStillFit DEF FlowInv

(* A failure ends the sequence, or leaves it as it was stopped. *)
LEMMA FailFits ==
  ASSUME TypeOK, FlowInv, Fail, ui \in {"compile", "read"}, UNCHANGED compileOther
  PROVE  FlowInv'
<1>1. UNCHANGED <<backendVars, poll, plays, stopped, cancelled>> /\ UNCHANGED historyVars
  BY DEF compileOther, historyVars, readVars
<1>2. CASE sequence = "stopped"
  <2>1. UNCHANGED sequenceVars /\ ui' = "idle"
    BY <1>2 DEF Fail
  <2>2. CodeFitsSequence'
    BY <1>1, <2>1 DEF CodeFitsSequence, FlowInv, sequenceVars
  <2> QED
    BY <1>1, <2>1, <2>2, CodeMoves
<1>3. CASE sequence # "stopped"
  <2>1. plays \notin stopped
    BY <1>3 DEF CodeFitsSequence, FlowInv
  <2> QED
    BY <1>1, <1>3, <2>1, FinishFits DEF Fail
<1> QED
  BY <1>2, <1>3

(* CancelRegistryDispatch, of a sequence that is active or of none. *)
LEMMA CancelFits ==
  ASSUME TypeOK, FlowInv, Cancel, MessagesRun, StopsAll \/ UNCHANGED backendVars,
         UNCHANGED <<cursorVars, poll, ui, snapshot>>
  PROVE  FlowInv'
<1>1. OnlyEnds
  BY OthersTyped, TypeParts DEF Others
<1>2. CASE active
  <2>1. /\ ~active' /\ task' = 0 /\ sequence' = "stopped" /\ generation' = generation + 1
        /\ stopped' = stopped \cup {plays} /\ plays' = plays /\ (cancelled' <=> ui = "read" \/ snapshot)
    BY <1>2 DEF Cancel
  <2>2. CodeFitsSequence'
    BY <1>2, <2>1 DEF CodeFitsSequence, FlowInv, MessagesRun, cursorVars, TypeOK
  <2> QED
    BY <1>1, <2>1, <2>2, TasksStillFit, PollStillFits DEF FlowInv
<1>3. CASE ~active
  <2>1. UNCHANGED <<sequenceVars, stopped, plays>> /\ (cancelled' <=> ui = "read" \/ snapshot)
    BY <1>3 DEF Cancel
  <2>2. CodeFitsSequence'
    BY <1>3, <2>1 DEF CodeFitsSequence, FlowInv, MessagesRun, cursorVars, sequenceVars
  <2> QED
    BY <1>1, <2>1, <2>2, TasksStillFit, PollStillFits DEF FlowInv, sequenceVars
<1> QED
  BY <1>2, <1>3

(* A new sequence, which no task and no answer is about. *)
LEMMA PlayFits ==
  ASSUME TypeOK, FlowInv, Play
  PROVE  FlowInv'
<1>1. /\ ~active /\ plays < MaxPlays /\ plays' = plays + 1 /\ stopped' = stopped /\ poll' = poll
      /\ task' = 0 /\ active' /\ sequence' = "idle" /\ generation' = generation + 1 /\ ui' = "compile"
      /\ work' = work
  BY DEF Play, BeginSegment, backendVars
<1> USE DEF TypeOK, FlowInv
<1>2. CodeFitsSequence'
  BY <1>1, DispatchAssumption DEF CodeFitsSequence
<1>3. OneTaskAtATime'
  BY <1>1 DEF OneTaskAtATime, Own
<1>4. OnlyTaskIsBusy'
  <2>1. \A id \in TaskId : work[id].play \in Nat /\ work[id].play <= plays
    BY DEF OnlyTaskIsBusy
  <2>2. plays \in Nat
    BY DispatchAssumption
  <2>3. \A id \in TaskId : work[id].play <= plays' /\ work[id].play # plays'
    BY ONLY <1>1, <2>1, <2>2
  <2> QED
    BY <1>1, <2>3 DEF OnlyTaskIsBusy, Busy
<1>5. PollFitsTask'
  BY <1>1 DEF PollFitsTask
<1> QED
  BY <1>2, <1>3, <1>4, <1>5

(* A segment is sent, when no other task of the sequence can be at work. *)
LEMMA SegmentFits ==
  ASSUME TypeOK, FlowInv, Submitted \/ SubmitAnswerLost
  PROVE  FlowInv'
<1> USE DEF TypeOK, FlowInv
<1>1. /\ ui = "submit" /\ Accepts(Segment) /\ ui' = "idle"
      /\ UNCHANGED <<poll, plays, stopped, generation>>
      /\ \/ task' = nextId /\ sequence' = "running" /\ UNCHANGED active
         \/ ~active' /\ task' = 0 /\ sequence' = "failed"
  BY DEF Submitted, SubmitAnswerLost, Finish, historyVars
<1>2. active /\ task = 0 /\ \A id \in TaskId : ~Busy(id)
  <2>1. active /\ task = 0
    BY <1>1 DEF CodeFitsSequence
  <2> QED
    BY <2>1 DEF OnlyTaskIsBusy, TaskId
<1>3. CodeFitsSequence'
  BY <1>1, <1>2 DEF CodeFitsSequence
<1> DEFINE new == nextId
<1>4. /\ new \in TaskId /\ work'[new].state = "active" /\ work'[new].play = plays
      /\ \A id \in TaskId \ {new} : work'[id] = work[id]
  BY <1>1, SegmentTaken
<1> HIDE DEF new
<1>5. OneTaskAtATime'
  <2> SUFFICES ASSUME NEW a \in TaskId, NEW b \in TaskId, work'[a].play > 0, work'[b].play > 0,
                      work'[a].play = work'[b].play, work'[a].state = "active", work'[b].state = "active",
                      a # b
               PROVE  FALSE
    BY DEF OneTaskAtATime, Own
  <2>1. CASE a # new /\ b # new
    BY <1>4, <2>1 DEF OneTaskAtATime, Own
  <2>2. CASE a = new \/ b = new
    BY <1>2, <1>4, <2>2 DEF Busy
  <2> QED
    BY <2>1, <2>2
<1>6. OnlyTaskIsBusy'
  <2>1. ASSUME NEW id \in TaskId PROVE work'[id].play <= plays
    <3>1. plays \in Int /\ (id # new => work'[id].play = work[id].play)
      BY <1>4
    <3> QED
      BY <1>4, <3>1 DEF OnlyTaskIsBusy
  <2>2. ASSUME NEW id \in TaskId, Busy(id)' PROVE id = new
    BY <1>1, <1>2, <1>4, <2>2 DEF Busy
  <2> QED
    BY <1>1, <2>1, <2>2 DEF OnlyTaskIsBusy, new
<1>7. PollFitsTask'
  BY <1>1, <1>2 DEF PollFitsTask
<1> QED
  BY <1>3, <1>5, <1>6, <1>7

(* A poll is begun, answered, or looked at in vain. *)
LEMMA PollFits ==
  ASSUME TypeOK, FlowInv, BeginPoll \/ PollAnswered \/ PollErrs \/ TickIdle
  PROVE  FlowInv'
<1> USE DEF TypeOK, FlowInv
<1>1. UNCHANGED <<backendVars, sequenceVars, ui, cancelled, plays, stopped, at>>
  BY DEF BeginPoll, PollAnswered, PollErrs, TickIdle, cursorVars, readVars, historyVars
<1>2. OnlyEnds /\ CodeFitsSequence'
  BY <1>1 DEF OnlyEnds, CodeFitsSequence, backendVars, sequenceVars
<1>3. OneTaskAtATime' /\ OnlyTaskIsBusy'
  BY <1>1, <1>2, TasksStillFit DEF sequenceVars
<1>4. UNCHANGED <<active, task, generation, work>> /\ \A id : Busy(id)' <=> Busy(id)
  BY <1>1 DEF sequenceVars, backendVars, Busy
<1>5. PollFitsTask'
  <2>1. CASE BeginPoll
    <3>1. /\ poll' = [task |-> task, generation |-> generation, reply |-> "pending"] /\ active /\ task # 0
      BY <2>1 DEF BeginPoll
    <3> QED
      BY <3>1, <1>4 DEF PollFitsTask
  <2>2. CASE PollAnswered
    <3>1. poll # NoPoll /\ poll' = [poll EXCEPT !.reply = work[poll.task].state]
      BY <2>2 DEF PollAnswered
    <3>2. poll'.task = poll.task /\ poll'.generation = poll.generation /\ poll'.reply = work[poll.task].state
      BY <3>1
    <3> QED
      BY <3>1, <3>2, <1>4 DEF PollFitsTask, Busy
  <2>3. CASE PollErrs
    <3>1. /\ poll # NoPoll /\ poll'.task = poll.task /\ poll'.generation = poll.generation
          /\ poll'.reply = "error"
      BY <2>3 DEF PollErrs
    <3> QED
      BY <3>1, <1>4 DEF PollFitsTask
  <2>4. CASE TickIdle
    BY <2>4 DEF TickIdle, PollFitsTask
  <2> QED
    BY <2>1, <2>2, <2>3, <2>4
<1> QED
  BY <1>2, <1>3, <1>5

(* The task the sequence waited for has finished; the next is compiled. *)
LEMMA NextFits ==
  ASSUME TypeOK, FlowInv, TickFinished
  PROVE  FlowInv'
<1> USE DEF TypeOK, FlowInv
<1>1. /\ poll # NoPoll /\ Current /\ poll.reply = "finished" /\ MessagesRun
      /\ poll' = NoPoll /\ task' = 0 /\ ui' = "compile"
      /\ UNCHANGED <<backendVars, active, sequence, generation, plays, stopped>>
  BY DEF TickFinished, PollReady, NextSegment, BeginSegment, historyVars
<1>2. active /\ task # 0 /\ ~Busy(task)
  BY <1>1 DEF PollFitsTask, Current
<1>3. OnlyEnds
  BY <1>1 DEF OnlyEnds, backendVars
<1>4. CodeFitsSequence'
  BY <1>1, <1>2 DEF CodeFitsSequence
<1>5. PollFitsTask'
  BY <1>1 DEF PollFitsTask
<1> QED
  BY <1>1, <1>2, <1>3, <1>4, <1>5, TasksStillFit

(* The flow stays as it is in every step. *)
LEMMA FlowKeeps ==
  ASSUME TypeOK, FlowInv, [Step]_dispatchVars
  PROVE  FlowInv'
<1> USE DEF CodeFitsSequence
<1> DEFINE Moves == OpenIf \/ TakeElse \/ TakeEndIf \/ SkipToken \/ TakeAction \/ TakeSet \/ TakeWait
<1>1. CASE Moves
  <2>1. UNCHANGED <<backendVars, sequenceVars, poll, ui, readVars, historyVars>> /\ ui = "compile"
    BY <1>1 DEF OpenIf, TakeElse, TakeEndIf, SkipToken, TakeAction, TakeSet, TakeWait, compileOther, AtToken
  <2>2. CodeFitsSequence'
    BY <2>1 DEF FlowInv, sequenceVars, historyVars
  <2> QED
    BY <2>1, <2>2, CodeMoves
<1>2. CASE BreakAtWait \/ EndOfScript
  <2>1. UNCHANGED <<backendVars, sequenceVars, poll, readVars, historyVars>> /\ ui = "compile" /\ ui' = "submit"
    BY <1>2 DEF BreakAtWait, EndOfScript, compileOther, AtToken
  <2>2. CodeFitsSequence'
    BY <2>1 DEF FlowInv, sequenceVars, historyVars
  <2> QED
    BY <2>1, <2>2, CodeMoves
<1>3. CASE Include
  <2>1. /\ UNCHANGED <<backendVars, sequenceVars, poll, historyVars>> /\ ui = "compile" /\ ui' = "read"
        /\ at' = at + 1
    BY <1>3 DEF Include, AtToken, Consume
  <2>2. CodeFitsSequence'
    BY <2>1 DEF FlowInv, sequenceVars, historyVars, TypeOK
  <2> QED
    BY <2>1, <2>2, CodeMoves
<1>4. CASE ReadReturns
  <2>1. UNCHANGED <<backendVars, sequenceVars, poll, historyVars>> /\ ui = "read" /\ ~cancelled /\ ui' = "compile"
    BY <1>4 DEF ReadReturns, compileOther
  <2>2. CodeFitsSequence'
    BY <2>1 DEF FlowInv, sequenceVars, historyVars
  <2> QED
    BY <2>1, <2>2, CodeMoves
<1>5. CASE TokenFails \/ ReadFails
  BY <1>5, FailFits DEF TokenFails, ReadFails
<1>6. CASE EmptyLast \/ SubmitRefused
  <2>1. \E state \in {"finished", "failed"} : Finish(state)
    BY <1>6 DEF EmptyLast, SubmitRefused
  <2>2. ui = "submit" /\ UNCHANGED <<backendVars, poll, historyVars>>
    BY <1>6 DEF EmptyLast, SubmitRefused, compileOther
  <2>3. plays \notin stopped
    BY <2>2 DEF FlowInv
  <2> QED
    BY <2>1, <2>2, <2>3, FinishFits
<1>7. CASE EmptySegment
  <2>1. UNCHANGED <<backendVars, sequenceVars, poll, historyVars>> /\ ui = "submit" /\ ui' = "compile"
    BY <1>7 DEF EmptySegment, compileOther, NextSegment, BeginSegment
  <2>2. CodeFitsSequence'
    BY <2>1 DEF FlowInv, sequenceVars, historyVars
  <2> QED
    BY <2>1, <2>2, CodeMoves
<1>8. CASE TickLastFinished \/ TickFailed
  <2>1. \E state \in {"finished", "failed"} : Finish(state)
    BY <1>8 DEF TickLastFinished, TickFailed
  <2>2. active /\ UNCHANGED <<backendVars, historyVars>> /\ poll' = NoPoll
    BY <1>8 DEF TickLastFinished, TickFailed, Current
  <2>3. plays \notin stopped
    BY <2>2 DEF FlowInv
  <2> QED
    BY <2>1, <2>2, <2>3, FinishFits
<1>9. CASE StopSent \/ StopFails
  BY <1>9, CancelFits DEF StopSent, StopFails
<1>10. CASE SnapshotReads \/ SnapshotReturns
  <2>1. UNCHANGED <<backendVars, sequenceVars, poll, historyVars, ui>> /\ ui = "idle"
    BY <1>10 DEF SnapshotReads, SnapshotReturns
  <2>2. CodeFitsSequence'
    BY <2>1 DEF FlowInv, sequenceVars, historyVars
  <2> QED
    BY <2>1, <2>2, CodeMoves
<1>11. CASE Others /\ UNCHANGED <<cursorVars, sequenceVars, poll, ui, readVars, historyVars>>
  <2>1. OnlyEnds
    BY <1>11, OthersTyped, TypeParts
  <2>2. CodeFitsSequence' /\ UNCHANGED <<plays, poll, generation, active, task>>
    BY <1>11 DEF FlowInv, cursorVars, sequenceVars, readVars, historyVars
  <2> QED
    BY <2>1, <2>2, TasksStillFit, PollStillFits DEF FlowInv
<1>12. CASE BackendStep \/ (\E t \in Single : Schedules(t)) \/ UNCHANGED dispatchVars
  BY <1>11, <1>12, StepOthers
<1>13. CASE Play
  BY <1>13, PlayFits
<1>14. CASE Submitted \/ SubmitAnswerLost
  BY <1>14, SegmentFits
<1>15. CASE BeginPoll \/ PollAnswered \/ PollErrs \/ TickIdle
  BY <1>15, PollFits
<1>16. CASE TickFinished
  BY <1>16, NextFits
<1> QED
  BY <1>1, <1>2, <1>3, <1>4, <1>5, <1>6, <1>7, <1>8, <1>9, <1>10, <1>11, <1>12, <1>13, <1>14, <1>15, <1>16
  DEF Step, DispatchNext, CompileStep, ReadStep, SubmitStep, PollStep

-----------------------------------------------------------------------------
(* Types, and the count of the tasks to come.                              *)

Counts == TypeOK /\ FlowInv /\ TotalIsCounted

(* What is known of the waits ahead. *)
LEMMA AheadIsCounted ==
  ASSUME TypeOK
  PROVE  /\ Cardinality(Ahead) \in Nat
         /\ at = Len(tokens) => Cardinality(Ahead) = 0
         /\ at < Len(tokens) => Here \in Token /\ at + 1 \in 1..Len(tokens)
BY WaitsInAreFinite, NoneAhead DEF TypeOK, Ahead, Here

(* A token is consumed that begins no task. *)
LEMMA ConsumeCounts ==
  ASSUME Counts, AtToken(Kind), Consume, ~IsWait(Here), UNCHANGED <<tokens, index, leading, leadingWait>>,
         ui' \in {"compile", "read"}, UNCHANGED sequenceVars, UNCHANGED total
  PROVE  TotalIsCounted' /\ at' \in 0..Len(tokens) /\ ~leading
<1> USE DEF Counts
<1>1. active /\ ui = "compile" /\ at < Len(tokens) /\ at' = at + 1 /\ at \in 0..(Len(tokens) - 1)
  BY DEF AtToken, Consume, FlowInv, CodeFitsSequence, TypeOK
<1>2. ~leading /\ ~leadingWait
  BY <1>1 DEF TotalIsCounted, Expects
<1>3. Ahead' = Ahead
  BY <1>1, WaitsConsumed DEF Ahead, Here, TypeOK
<1>4. sequence # "finished"
  BY <1>1 DEF FlowInv, CodeFitsSequence
<1> QED
  BY <1>1, <1>2, <1>3, <1>4 DEF TotalIsCounted, sequenceVars, TypeOK

(* Tokens that are no waits change no count. *)
LEMMA MovesCount ==
  ASSUME Counts, OpenIf \/ TakeElse \/ TakeEndIf \/ TakeAction \/ TakeSet
  PROVE  CursorOK' /\ TotalIsCounted'
<1> USE DEF Counts
<1>1. /\ AtToken({"if", "else", "endif", "act", "set"}) /\ Consume
      /\ UNCHANGED <<tokens, index, total, leading, leadingWait>> /\ UNCHANGED sequenceVars /\ ui' = "compile"
  BY DEF OpenIf, TakeElse, TakeEndIf, TakeAction, TakeSet, AtToken
<1>2. AtToken(Kind) /\ ~IsWait(Here)
  BY <1>1 DEF AtToken, Kind, IsWait
<1>3. TotalIsCounted' /\ at' \in 0..Len(tokens)
  BY <1>1, <1>2, ConsumeCounts
<1>4. branches' \in Seq(Frame) /\ Len(branches') <= MaxDepth
  <2>1. CASE OpenIf
    <3>1. PICK condition \in BOOLEAN :
            branches' = Append(branches, [parent |-> Live, condition |-> condition, elseMode |-> FALSE])
      BY <2>1 DEF OpenIf, Condition
    <3>2. Live \in BOOLEAN
      BY DEF Live, TypeOK, Frame
    <3>3. [parent |-> Live, condition |-> condition, elseMode |-> FALSE] \in Frame
      BY <3>2 DEF Frame
    <3> DEFINE frame == [parent |-> Live, condition |-> condition, elseMode |-> FALSE]
    <3> HIDE DEF frame
    <3>4. branches' = Append(branches, frame) /\ frame \in Frame
      BY <3>1, <3>3 DEF frame
    <3>5. branches \in Seq(Frame) /\ Len(branches) \in Nat /\ Len(branches) < MaxDepth /\ MaxDepth \in Nat
      BY <2>1, DispatchAssumption DEF OpenIf, TypeOK
    <3> QED
      BY <3>4, <3>5
  <2>2. CASE TakeElse
    <3>1. branches # <<>> /\ branches' = [branches EXCEPT ![Len(branches)].elseMode = TRUE]
      BY <2>2 DEF TakeElse
    <3>2. Len(branches) \in 1..Len(branches)
      BY <3>1 DEF TypeOK
    <3>3. [branches[Len(branches)] EXCEPT !.elseMode = TRUE] \in Frame
      <4>1. branches[Len(branches)] \in Frame
        BY <3>2 DEF TypeOK
      <4> QED
        BY <4>1 DEF Frame
    <3> QED
      BY <3>1, <3>2, <3>3 DEF TypeOK
  <2>3. CASE TakeEndIf
    <3>1. branches # <<>> /\ branches' = SubSeq(branches, 1, Len(branches) - 1)
      BY <2>3 DEF TakeEndIf
    <3>2. Len(branches) \in Nat /\ Len(branches) > 0 /\ \A i \in 1..(Len(branches) - 1) : branches[i] \in Frame
      BY <3>1 DEF TypeOK
    <3> QED
      BY <3>1, <3>2, SubSeqProperties, DispatchAssumption DEF TypeOK
  <2>4. CASE TakeAction \/ TakeSet
    BY <2>4 DEF TakeAction, TakeSet, TypeOK
  <2> QED
    BY <2>1, <2>2, <2>3, <2>4
<1>5. doc' \in Doc
  <2> DEFINE act == [at |-> at + 1, kind |-> "act"]
             Act == [at : Nat, kind : {"act", "wait"}]
  <2>1. doc' = doc \/ doc' = Append(doc, act)
    BY DEF OpenIf, TakeElse, TakeEndIf, TakeAction, TakeSet
  <2>2. act \in Act
    BY DEF TypeOK
  <2>3. doc \in Seq(Act) /\ Doc = Seq(Act)
    BY DEF TypeOK, Doc
  <2> HIDE DEF act, Act
  <2> QED
    BY <2>1, <2>2, <2>3
<1> QED
  BY <1>1, <1>3, <1>4, <1>5 DEF CursorOK, TypeOK

(* A wait that is skipped leaves the total with the waits ahead. *)
LEMMA SkipCounts ==
  ASSUME Counts, SkipToken
  PROVE  CursorOK' /\ TotalIsCounted'
<1> USE DEF Counts
<1>1. /\ ui = "compile" /\ at < Len(tokens) /\ ~Live /\ at' = at + 1
      /\ total' = IF IsWait(Here) THEN total - 1 ELSE total
      /\ UNCHANGED <<tokens, branches, index, leadingWait, leading, doc>> /\ UNCHANGED <<ui, sequenceVars>>
  BY DEF SkipToken, AtToken, Consume
<1>2. active /\ ~leading /\ ~leadingWait /\ sequence # "finished"
  BY <1>1 DEF FlowInv, CodeFitsSequence, TotalIsCounted, Expects
<1>3. /\ at \in 0..(Len(tokens) - 1) /\ total = index + Cardinality(Ahead) /\ Cardinality(Ahead) \in Nat
      /\ index \in Nat /\ index > 0
  BY <1>1, <1>2, AheadIsCounted DEF TotalIsCounted, TypeOK
<1>4. CASE IsWait(Here)
  <2>1. Cardinality(Ahead) > 0 /\ Cardinality(Ahead') = Cardinality(Ahead) - 1
    BY <1>1, <1>3, <1>4, WaitsConsumed DEF Ahead, Here, TypeOK
  <2>2. total' = index + Cardinality(Ahead') /\ total' \in Nat
    BY <1>1, <1>3, <1>4, <2>1
  <2>3. TotalIsCounted'
    BY <1>1, <1>2, <1>3, <2>2 DEF TotalIsCounted, sequenceVars
  <2>4. CursorOK'
    BY <1>1, <1>3, <2>2 DEF TypeOK, CursorOK, Doc
  <2> QED
    BY <2>3, <2>4
<1>5. CASE ~IsWait(Here)
  <2>1. Ahead' = Ahead /\ total' = total
    BY <1>1, <1>3, <1>5, WaitsConsumed DEF Ahead, Here, TypeOK
  <2> QED
    BY <1>1, <1>2, <1>3, <2>1 DEF TotalIsCounted, sequenceVars, TypeOK, CursorOK, Doc
<1> QED
  BY <1>4, <1>5

(* The wait a task begins with was counted with that task. *)
LEMMA TakeWaitCounts ==
  ASSUME Counts, TakeWait
  PROVE  CursorOK' /\ TotalIsCounted'
<1> USE DEF Counts
<1>1. /\ ui = "compile" /\ at < Len(tokens) /\ IsWait(Here) /\ leading /\ at' = at + 1 /\ leading' = FALSE
      /\ doc' = Append(doc, [at |-> at + 1, kind |-> "wait"])
      /\ UNCHANGED <<tokens, branches, index, total, leadingWait>> /\ UNCHANGED <<ui, sequenceVars>>
  BY DEF TakeWait, AtToken, Consume, IsWait
<1>2. active /\ ~leadingWait /\ sequence # "finished"
  BY <1>1 DEF FlowInv, CodeFitsSequence, TotalIsCounted
<1>3. at \in 0..(Len(tokens) - 1) /\ total = index + Cardinality(Ahead) - 1 /\ Cardinality(Ahead) \in Nat
  BY <1>1, <1>2, AheadIsCounted DEF TotalIsCounted, TypeOK
<1>4. Cardinality(Ahead') = Cardinality(Ahead) - 1
  BY <1>1, <1>3, WaitsConsumed DEF Ahead, Here, TypeOK
<1>5. doc' \in Doc
  BY <1>1 DEF TypeOK, Doc
<1>6. TotalIsCounted'
  BY <1>1, <1>2, <1>3, <1>4 DEF TotalIsCounted, sequenceVars, TypeOK
<1>7. CursorOK'
  BY <1>1, <1>3, <1>5 DEF TypeOK, CursorOK
<1> QED
  BY <1>6, <1>7

(* A task that is complete has a wait behind it, or nothing. *)
LEMMA BreakCounts ==
  ASSUME Counts, BreakAtWait \/ EndOfScript
  PROVE  CursorOK' /\ TotalIsCounted'
<1> USE DEF Counts
<1>1. /\ ui = "compile" /\ ui' = "submit" /\ UNCHANGED <<tokens, at, branches, index, total, leading, doc>>
      /\ UNCHANGED sequenceVars
      /\ \/ leadingWait' = TRUE /\ ~leading /\ Expects
         \/ leadingWait' = leadingWait /\ at = Len(tokens)
  BY DEF BreakAtWait, EndOfScript, AtToken, Expects, IsWait, cursorVars
<1>2. active /\ ~leading /\ sequence # "finished" /\ ~leadingWait
  BY <1>1 DEF FlowInv, CodeFitsSequence, TotalIsCounted, Expects
<1>3. Ahead' = Ahead /\ (Expects' <=> Expects)
  BY <1>1 DEF Ahead, Expects, Here, Live
<1>4. TotalIsCounted'
  BY <1>1, <1>2, <1>3 DEF TotalIsCounted, sequenceVars
<1> QED
  BY <1>1, <1>4 DEF TypeOK, CursorOK, Doc

(* An include is read for a task that goes on. *)
LEMMA IncludeCounts ==
  ASSUME Counts, Include
  PROVE  CursorOK' /\ TotalIsCounted'
<1> USE DEF Counts
<1>1. /\ AtToken({"rgd"}) /\ Consume /\ ui' = "read" /\ UNCHANGED sequenceVars
      /\ UNCHANGED <<tokens, branches, index, total, leadingWait, leading, doc>>
  BY DEF Include
<1>2. AtToken(Kind) /\ ~IsWait(Here)
  BY <1>1 DEF AtToken, Kind, IsWait
<1>3. TotalIsCounted' /\ at' \in 0..Len(tokens)
  BY <1>1, <1>2, ConsumeCounts
<1> QED
  BY <1>1, <1>3 DEF TypeOK, CursorOK, Doc

(* The waits of a text that is inserted are added to the total. *)
LEMMA InsertCounts ==
  ASSUME Counts, ReadReturns
  PROVE  CursorOK' /\ TotalIsCounted'
<1> USE DEF Counts
<1>1. PICK text \in Texts[tokens[at].key] : Insert(text)
  BY DEF ReadReturns
<1>2. /\ ui = "read" /\ ~cancelled /\ ui' = "compile" /\ UNCHANGED <<at, branches, index, leadingWait, leading, doc>>
      /\ UNCHANGED sequenceVars
  BY DEF ReadReturns
<1>3. active /\ at \in 1..Len(tokens) /\ sequence # "finished"
  BY <1>2 DEF FlowInv, CodeFitsSequence, TypeOK
<1>4. ~leading /\ ~leadingWait
  BY <1>2, <1>3 DEF TotalIsCounted
<1>5. tokens[at] \in Token /\ tokens[at].key \in DOMAIN Texts
  <2>1. tokens[at] \in Token
    BY <1>3 DEF TypeOK
  <2> QED
    BY <2>1 DEF Token
<1> DEFINE mid == Within(text, tokens[at].within \cup {tokens[at].key})
<1>6. mid \in Seq(Token) /\ Waits(text) = Cardinality(WaitsIn(mid, 0))
  <2>1. text \in Seq([kind : Kind, key : DOMAIN Texts])
    BY <1>1, <1>5, DispatchAssumption
  <2>2. tokens[at].within \cup {tokens[at].key} \in SUBSET DOMAIN Texts
    BY <1>5 DEF Token
  <2> QED
    BY <2>1, <2>2, WaitsWithin
<1>7. tokens' = Spliced(tokens, at, mid) /\ total' = total + Waits(text)
  BY <1>1 DEF Insert, Spliced
<1> HIDE DEF mid
<1>8. tokens \in Seq(Token) /\ at \in 0..Len(tokens)
  BY <1>3 DEF TypeOK
<1>9. tokens' \in Seq(Token) /\ Len(tokens') = Len(tokens) + Len(mid) /\ Len(mid) \in Nat
  BY <1>6, <1>7, <1>8, Splice
<1>10. Cardinality(Ahead') = Cardinality(Ahead) + Waits(text)
  BY <1>2, <1>6, <1>7, <1>8, WaitsInserted DEF Ahead
<1>11. Waits(text) \in Nat /\ Cardinality(Ahead) \in Nat
  <2>1. 0 \in 0..Len(mid)
    BY <1>9
  <2> QED
    BY <1>6, <2>1, AheadIsCounted, WaitsInAreFinite
<1>12. TotalIsCounted'
  BY <1>2, <1>3, <1>4, <1>7, <1>10, <1>11 DEF TotalIsCounted, sequenceVars, TypeOK
<1>13. at \in 0..Len(tokens')
  BY <1>8, <1>9
<1>14. total' \in Nat /\ index' \in Nat
  BY <1>2, <1>7, <1>11 DEF TypeOK
<1>15. branches' \in Seq(Frame) /\ Len(branches') <= MaxDepth /\ doc' \in Doc /\ at' = at
  BY <1>2 DEF TypeOK, Doc
<1>16. CursorOK'
  BY <1>9, <1>13, <1>14, <1>15 DEF CursorOK
<1> QED
  BY <1>12, <1>16

(* The next segment begins with the wait the last one ended at.            *)
LEMMA SegmentCounts ==
  ASSUME Counts, NextSegment, active, ui \in {"submit", "idle"}, at < Len(tokens), active', sequence' = sequence
  PROVE  CursorOK' /\ TotalIsCounted'
<1> USE DEF Counts
<1>1. leadingWait /\ ~leading /\ Expects /\ sequence # "finished"
  BY DEF TotalIsCounted, FlowInv, CodeFitsSequence, TypeOK
<1>2. /\ index' = index + 1 /\ leading' /\ ~leadingWait' /\ ui' = "compile" /\ doc' = <<>>
      /\ UNCHANGED <<tokens, at, branches, total>>
  BY <1>1 DEF NextSegment, BeginSegment
<1>3. Ahead' = Ahead /\ Expects' /\ Cardinality(Ahead) \in Nat
  BY <1>1, <1>2, AheadIsCounted DEF Ahead, Expects, Here, Live
<1>4. TotalIsCounted'
  BY <1>1, <1>2, <1>3 DEF TotalIsCounted, TypeOK
<1>5. doc' \in Doc
  BY <1>2 DEF Doc
<1> QED
  BY <1>2, <1>4, <1>5 DEF TypeOK, CursorOK

(* A new sequence counts its waits and the task before the first of them. *)
LEMMA PlayCounts ==
  ASSUME Counts, Play
  PROVE  CursorOK' /\ TotalIsCounted'
<1> USE DEF Counts
<1>1. PICK s \in Scripts : tokens' = Within(s, {}) /\ total' = 1 + Waits(s)
  BY DEF Play
<1>2. /\ at' = 0 /\ branches' = <<>> /\ index' = 1 /\ leadingWait' = FALSE /\ leading' = FALSE
      /\ active' = TRUE /\ sequence' = "idle" /\ ui' = "compile" /\ doc' = <<>>
  BY DEF Play, BeginSegment
<1>3. tokens' \in Seq(Token) /\ Len(tokens') = Len(s) /\ Waits(s) = Cardinality(WaitsIn(tokens', 0))
  <2>1. s \in Seq([kind : Kind, key : DOMAIN Texts])
    BY <1>1, DispatchAssumption
  <2> QED
    BY <1>1, <2>1, WaitsWithin
<1>4. Len(tokens') \in Nat /\ 0 \in 0..Len(tokens')
  BY <1>3
<1>5. Cardinality(Ahead') \in Nat /\ total' = 1 + Cardinality(Ahead')
  BY <1>1, <1>2, <1>3, <1>4, WaitsInAreFinite DEF Ahead
<1>6. TotalIsCounted'
  BY <1>2, <1>5 DEF TotalIsCounted
<1>7. branches' \in Seq(Frame) /\ Len(branches') <= MaxDepth /\ doc' \in Doc
  BY <1>2, DispatchAssumption DEF Doc
<1> QED
  BY <1>2, <1>3, <1>4, <1>5, <1>6, <1>7 DEF CursorOK

(* A sequence that ends, or leaves its cursor alone.                       *)
LEMMA EndCounts ==
  ASSUME Counts, UNCHANGED cursorVars,
         \/ ~active' /\ sequence' \in {"failed", "stopped"}
         \/ UNCHANGED <<active, sequence, ui>>
         \/ active /\ UNCHANGED active /\ sequence' = "running" /\ ui = "submit" /\ ui' = "idle"
         \/ active /\ ~active' /\ sequence' = "finished" /\ ui \in {"submit", "idle"} /\ at = Len(tokens)
         \/ ~active /\ UNCHANGED <<active, sequence>>
  PROVE  CursorOK' /\ TotalIsCounted'
<1> USE DEF Counts
<1>1. CursorOK'
  BY TypeParts DEF cursorVars, CursorOK
<1>2. UNCHANGED <<tokens, at, branches, index, total, leadingWait, leading, doc>>
  BY DEF cursorVars
<1>3. Ahead' = Ahead /\ (Expects' <=> Expects)
  BY <1>2 DEF Ahead, Expects, Here, Live
<1>4. CASE ~active' /\ sequence' \in {"failed", "stopped"}
  BY <1>1, <1>2, <1>4 DEF TotalIsCounted
<1>5. CASE UNCHANGED <<active, sequence, ui>>
  BY <1>1, <1>2, <1>3, <1>5 DEF TotalIsCounted
<1>6. CASE active /\ UNCHANGED active /\ sequence' = "running" /\ ui = "submit" /\ ui' = "idle"
  BY <1>1, <1>2, <1>3, <1>6 DEF TotalIsCounted
<1>7. CASE active /\ ~active' /\ sequence' = "finished" /\ ui \in {"submit", "idle"} /\ at = Len(tokens)
  <2>1. ~leading /\ Cardinality(Ahead) = 0 /\ total = index + 0
    BY <1>7, AheadIsCounted DEF TotalIsCounted, TypeOK
  <2> QED
    BY <1>1, <1>2, <1>7, <2>1 DEF TotalIsCounted, TypeOK
<1>8. CASE ~active /\ UNCHANGED <<active, sequence>>
  BY <1>1, <1>2, <1>8 DEF TotalIsCounted
<1> QED
  BY <1>1, <1>4, <1>5, <1>6, <1>7, <1>8

(* The flags of the wait between two tasks. *)
LEMMA FlagsTyped ==
  ASSUME TypeOK, [Step]_dispatchVars
  PROVE  FlagsOK'
<1> USE DEF TypeOK, FlagsOK
<1>1. CASE UNCHANGED <<leading, leadingWait>>
  BY <1>1
<1>2. CASE leading' = leadingWait /\ leadingWait' = FALSE
  BY <1>2
<1>3. CASE leading' = leading /\ leadingWait' = TRUE
  BY <1>3
<1>4. CASE leading' = FALSE /\ (leadingWait' = leadingWait \/ leadingWait' = FALSE)
  BY <1>4
<1>5. CASE UNCHANGED cursorVars
  BY <1>1, <1>5 DEF cursorVars
<1>6. CASE CompileStep
  BY <1>1, <1>3, <1>4, <1>5, <1>6
  DEF CompileStep, OpenIf, TakeElse, TakeEndIf, SkipToken, TakeAction, TakeSet, TakeWait, BreakAtWait,
      EndOfScript, Include, TokenFails
<1>7. CASE ReadStep \/ SubmitStep
  BY <1>1, <1>2, <1>5, <1>7
  DEF ReadStep, ReadReturns, ReadFails, SubmitStep, EmptyLast, EmptySegment, Submitted, SubmitRefused,
      SubmitAnswerLost, NextSegment
<1>8. CASE PollStep
  BY <1>2, <1>5, <1>8
  DEF PollStep, BeginPoll, PollAnswered, PollErrs, TickIdle, TickLastFinished, TickFinished, TickFailed, NextSegment
<1>9. CASE Play
  BY <1>4, <1>9 DEF Play
<1>10. CASE \/ StopSent \/ StopFails \/ SnapshotReads \/ SnapshotReturns \/ BackendStep
            \/ (\E t \in Single : Schedules(t)) \/ UNCHANGED dispatchVars
  BY <1>5, <1>10 DEF StopSent, StopFails, SnapshotReads, SnapshotReturns, BackendStep, Schedules, dispatchVars
<1> QED
  BY <1>6, <1>7, <1>8, <1>9, <1>10 DEF Step, DispatchNext

(* The total counts the tasks to come through every step.                  *)
LEMMA TotalKeeps ==
  ASSUME Counts, [Step]_dispatchVars
  PROVE  CursorOK' /\ TotalIsCounted'
<1> USE DEF Counts
<1>1. CASE CompileStep /\ ~TokenFails
  BY <1>1, MovesCount, SkipCounts, TakeWaitCounts, BreakCounts, IncludeCounts DEF CompileStep
<1>2. ASSUME ui = "compile" \/ ui = "read", Fail, UNCHANGED <<tokens, branches, index, total, leadingWait, leading, doc>>,
             at' = at \/ (at' = at + 1 /\ at < Len(tokens))
      PROVE  CursorOK' /\ TotalIsCounted'
  <2>1. CursorOK'
    BY <1>2 DEF CursorOK, TypeOK, Doc
  <2>2. ~active' /\ sequence' \in {"failed", "stopped"}
    BY <1>2 DEF Fail, Finish, FlowInv, CodeFitsSequence, sequenceVars
  <2>3. index > 0 /\ UNCHANGED index
    BY <1>2 DEF TotalIsCounted
  <2>4. TotalIsCounted'
    BY <2>2, <2>3 DEF TotalIsCounted
  <2> QED
    BY <2>1, <2>4
<1>3. CASE TokenFails
  BY <1>2, <1>3 DEF TokenFails, Consume
<1>4. CASE ReadReturns
  BY <1>4, InsertCounts
<1>5. CASE ReadFails
  BY <1>2, <1>5 DEF ReadFails, cursorVars
<1>6. CASE EmptySegment
  <2>1. active /\ ui = "submit"
    BY <1>6 DEF EmptySegment, FlowInv, CodeFitsSequence
  <2> QED
    BY <1>6, <2>1, SegmentCounts DEF EmptySegment, sequenceVars
<1>7. CASE TickFinished
  <2>1. /\ active /\ task # 0 /\ MessagesRun /\ NextSegment /\ at < Len(tokens) /\ UNCHANGED <<active, sequence>>
    BY <1>7 DEF TickFinished, PollReady, Current, FlowInv, PollFitsTask
  <2>2. ui = "idle"
    BY <2>1 DEF MessagesRun, FlowInv, CodeFitsSequence
  <2> QED
    BY <2>1, <2>2, SegmentCounts
<1>8. CASE EmptyLast \/ TickLastFinished
  <2>1. UNCHANGED cursorVars /\ ~active' /\ sequence' = "finished" /\ at = Len(tokens)
    BY <1>8 DEF EmptyLast, TickLastFinished, Finish
  <2>2. active /\ ui \in {"submit", "idle"}
    <3>1. CASE EmptyLast
      BY <3>1 DEF EmptyLast, FlowInv, CodeFitsSequence
    <3>2. CASE TickLastFinished
      BY <3>2 DEF TickLastFinished, PollReady, MessagesRun, Current, FlowInv, PollFitsTask, CodeFitsSequence
    <3> QED
      BY <1>8, <3>1, <3>2
  <2> QED
    BY <2>1, <2>2, EndCounts
<1>9. CASE SubmitRefused \/ TickFailed \/ SubmitAnswerLost
  <2>1. UNCHANGED cursorVars /\ ~active' /\ sequence' = "failed"
    BY <1>9 DEF SubmitRefused, TickFailed, SubmitAnswerLost, Finish
  <2> QED
    BY <2>1, EndCounts
<1>10. CASE Submitted
  <2>1. active /\ UNCHANGED cursorVars /\ UNCHANGED active /\ sequence' = "running" /\ ui = "submit" /\ ui' = "idle"
    BY <1>10 DEF Submitted, FlowInv, CodeFitsSequence
  <2> QED
    BY <2>1, EndCounts
<1>11. CASE StopSent \/ StopFails
  <2>1. UNCHANGED cursorVars /\ UNCHANGED ui /\ Cancel
    BY <1>11 DEF StopSent, StopFails
  <2>2. CASE active
    BY <2>1, <2>2, EndCounts DEF Cancel
  <2>3. CASE ~active
    BY <2>1, <2>3, EndCounts DEF Cancel, sequenceVars
  <2> QED
    BY <2>2, <2>3
<1>12. CASE \/ BeginPoll \/ PollAnswered \/ PollErrs \/ TickIdle \/ SnapshotReads \/ SnapshotReturns
            \/ BackendStep \/ (\E t \in Single : Schedules(t)) \/ UNCHANGED dispatchVars
  <2>1. UNCHANGED cursorVars /\ UNCHANGED <<sequenceVars, ui>>
    BY <1>12 DEF BeginPoll, PollAnswered, PollErrs, TickIdle, SnapshotReads, SnapshotReturns, BackendStep,
       Schedules, dispatchVars
  <2> QED
    BY <2>1, EndCounts DEF sequenceVars
<1>13. CASE Play
  BY <1>13, PlayCounts
<1> QED
  BY <1>1, <1>3, <1>4, <1>5, <1>6, <1>7, <1>8, <1>9, <1>10, <1>11, <1>12, <1>13
  DEF Step, DispatchNext, CompileStep, ReadStep, SubmitStep, PollStep

(* The other variables keep their types.                                   *)
LEMMA BackendTyped ==
  ASSUME TypeOK, [Step]_dispatchVars
  PROVE  BackendOK'
BY BackendMoves, OthersTyped, SegmentTaken, TypeParts DEF Submitted, SubmitAnswerLost

(* The sequence and its code. *)
LEMMA SequenceTyped ==
  ASSUME TypeOK, [Step]_dispatchVars
  PROVE  SequenceOK'
<1> USE DEF TypeOK, SequenceOK
<1>1. CASE UNCHANGED sequenceVars /\ ui' \in {ui, "idle", "compile", "read", "submit"}
  BY <1>1 DEF sequenceVars
<1>2. ASSUME NEW state \in {"finished", "failed"}, Finish(state) PROVE SequenceOK'
  <2>1. active' = FALSE /\ task' = 0 /\ sequence' = state /\ ui' = "idle" /\ UNCHANGED generation
    BY <1>2 DEF Finish
  <2>2. active' \in BOOLEAN
    BY <2>1
  <2> QED
    BY <2>1, <2>2, BackendAssumption
<1>3. CASE CompileStep
  BY <1>1, <1>2, <1>3
  DEF CompileStep, OpenIf, TakeElse, TakeEndIf, SkipToken, TakeAction, TakeSet, TakeWait, BreakAtWait,
      EndOfScript, Include, TokenFails, Fail
<1>4. CASE ReadStep \/ EmptyLast \/ EmptySegment \/ SubmitRefused \/ SubmitAnswerLost
  BY <1>1, <1>2, <1>4
  DEF ReadStep, ReadReturns, ReadFails, Fail, EmptyLast, EmptySegment, NextSegment, BeginSegment, SubmitRefused,
      SubmitAnswerLost
<1>5. CASE Submitted
  <2>1. nextId \in TaskId /\ task' = nextId /\ sequence' = "running" /\ ui' = "idle" /\ UNCHANGED <<active, generation>>
    BY <1>5 DEF Submitted, Accepts
  <2> QED
    BY <2>1, BackendAssumption DEF TaskId
<1>6. CASE BeginPoll \/ PollAnswered \/ PollErrs \/ TickIdle \/ SnapshotReads \/ SnapshotReturns
  BY <1>1, <1>6 DEF BeginPoll, PollAnswered, PollErrs, TickIdle, SnapshotReads, SnapshotReturns
<1>7. CASE TickLastFinished \/ TickFailed
  BY <1>2, <1>7 DEF TickLastFinished, TickFailed
<1>8. CASE TickFinished
  <2>1. task' = 0 /\ UNCHANGED <<active, sequence, generation>> /\ ui' = "compile"
    BY <1>8 DEF TickFinished, NextSegment, BeginSegment
  <2> QED
    BY <2>1, BackendAssumption
<1>9. CASE StopSent \/ StopFails
  <2>1. UNCHANGED ui /\ Cancel
    BY <1>9 DEF StopSent, StopFails
  <2>2. CASE active
    <3>1. active' = FALSE /\ task' = 0 /\ sequence' = "stopped" /\ generation' = generation + 1
      BY <2>1, <2>2 DEF Cancel
    <3>2. active' \in BOOLEAN
      BY <3>1
    <3> QED
      BY <2>1, <3>1, <3>2, BackendAssumption
  <2>3. CASE ~active
    BY <1>1, <2>1, <2>3 DEF Cancel
  <2> QED
    BY <2>2, <2>3
<1>10. CASE Play
  BY <1>10, BackendAssumption DEF Play, BeginSegment
<1>11. CASE BackendStep \/ (\E t \in Single : Schedules(t)) \/ UNCHANGED dispatchVars
  BY <1>1, <1>11 DEF BackendStep, Schedules, dispatchVars
<1> QED
  BY <1>3, <1>4, <1>5, <1>6, <1>7, <1>8, <1>9, <1>10, <1>11 DEF Step, DispatchNext, SubmitStep, PollStep

(* The poll. *)
LEMMA PollTyped ==
  ASSUME TypeOK, FlowInv, [Step]_dispatchVars
  PROVE  PollOK'
<1> USE DEF TypeOK, PollOK
<1>1. CASE poll' \in {poll, NoPoll}
  BY <1>1
<1>2. CASE BeginPoll
  <2>1. task \in TaskId /\ poll' = [task |-> task, generation |-> generation, reply |-> "pending"]
    BY <1>2 DEF BeginPoll, TaskId
  <2> QED
    BY <2>1 DEF Reply
<1>3. CASE PollAnswered \/ PollErrs
  <2>1. poll \in [task : TaskId, generation : Nat, reply : Reply]
    BY <1>3 DEF PollAnswered, PollErrs
  <2>2. work[poll.task].state \in Reply
    BY <2>1 DEF Reply
  <2>3. \E reply \in Reply : poll' = [poll EXCEPT !.reply = reply]
    BY <1>3, <2>2 DEF PollAnswered, PollErrs, Reply
  <2> QED
    BY <2>1, <2>3
<1>4. CASE CompileStep \/ ReadStep \/ SubmitStep
  BY <1>1, <1>4
  DEF CompileStep, OpenIf, TakeElse, TakeEndIf, SkipToken, TakeAction, TakeSet, TakeWait, BreakAtWait,
      EndOfScript, Include, TokenFails, ReadStep, ReadReturns, ReadFails, SubmitStep, EmptyLast,
      EmptySegment, Submitted, SubmitRefused, SubmitAnswerLost, compileOther
<1>5. CASE \/ TickIdle \/ TickLastFinished \/ TickFinished \/ TickFailed \/ Play \/ StopSent \/ StopFails
           \/ SnapshotReads \/ SnapshotReturns
           \/ BackendStep \/ (\E t \in Single : Schedules(t)) \/ UNCHANGED dispatchVars
  BY <1>1, <1>5
  DEF TickIdle, TickLastFinished, TickFinished, TickFailed, Play, StopSent, StopFails, SnapshotReads,
      SnapshotReturns, BackendStep, Schedules, dispatchVars
<1> QED
  BY <1>2, <1>3, <1>4, <1>5 DEF Step, DispatchNext, PollStep

(* The reader and the history. *)
LEMMA ReadTyped ==
  ASSUME TypeOK, FlowInv, [Step]_dispatchVars
  PROVE  ReadOK' /\ HistoryOK'
<1> USE DEF TypeOK, ReadOK, HistoryOK
<1>1. CASE UNCHANGED readVars /\ UNCHANGED historyVars
  BY <1>1 DEF readVars, historyVars
<1>2. CASE CompileStep /\ ~Include
  BY <1>1, <1>2
  DEF CompileStep, OpenIf, TakeElse, TakeEndIf, SkipToken, TakeAction, TakeSet, TakeWait, BreakAtWait,
      EndOfScript, TokenFails, compileOther
<1>3. CASE ReadStep \/ SubmitStep \/ PollStep
  BY <1>1, <1>3
  DEF ReadStep, ReadReturns, ReadFails, SubmitStep, EmptyLast, EmptySegment, Submitted, SubmitRefused,
      SubmitAnswerLost, compileOther, PollStep, BeginPoll, PollAnswered, PollErrs, TickIdle, TickLastFinished,
      TickFinished, TickFailed
<1>4. CASE Include \/ SnapshotReads \/ SnapshotReturns
  BY <1>4 DEF Include, SnapshotReads, SnapshotReturns, historyVars
<1>5. CASE Play
  BY <1>5, DispatchAssumption DEF Play, readVars
<1>6. CASE StopSent \/ StopFails
  <2>1. Cancel /\ UNCHANGED snapshot
    BY <1>6 DEF StopSent, StopFails
  <2>2. ReadOK'
    BY <2>1 DEF Cancel
  <2>3. HistoryOK'
    <3>1. CASE active
      <4>1. plays \in 1..MaxPlays /\ plays' = plays /\ stopped' = stopped \cup {plays}
        BY <2>1, <3>1, DispatchAssumption DEF Cancel, FlowInv, CodeFitsSequence
      <4> QED
        BY <4>1
    <3>2. CASE ~active
      BY <2>1, <3>2 DEF Cancel
    <3> QED
      BY <3>1, <3>2
  <2> QED
    BY <2>2, <2>3
<1>7. CASE BackendStep \/ (\E t \in Single : Schedules(t)) \/ UNCHANGED dispatchVars
  BY <1>1, <1>7 DEF BackendStep, Schedules, dispatchVars
<1> QED
  BY <1>2, <1>3, <1>4, <1>5, <1>6, <1>7 DEF Step, DispatchNext
-----------------------------------------------------------------------------
(* The tasks are the pieces of the script.                                 *)

(* What a list of actions is made of. *)
LEMMA DocElements ==
  ASSUME NEW d \in Doc
  PROVE  /\ Len(d) \in Nat /\ DOMAIN d = 1..Len(d)
         /\ \A i \in DOMAIN d : d[i].at \in Nat /\ d[i].kind \in {"act", "wait"}
<1> DEFINE Element == [at : Nat, kind : {"act", "wait"}]
<1>1. d \in Seq(Element)
  BY DEF Doc
<1>2. \A e \in Element : e.at \in Nat /\ e.kind \in {"act", "wait"}
  OBVIOUS
<1> HIDE DEF Element
<1>3. \A i \in DOMAIN d : d[i] \in Element
  BY <1>1
<1> QED
  BY <1>1, <1>2, <1>3

(* The lists of actions there are. *)
LEMMA DocsTyped ==
  ASSUME TypeOK
  PROVE  /\ doc \in Doc /\ at \in Nat /\ index \in Nat /\ plays \in Nat
         /\ \A id \in TaskId : work[id].doc \in Doc /\ work[id].index \in Nat /\ work[id].play \in Nat
<1>1. work \in [TaskId -> Task] /\ doc \in Doc /\ at \in Nat /\ index \in Nat /\ plays \in Nat
  BY DispatchAssumption DEF TypeOK, Task, Doc
<1>2. \A t \in Task : t.doc \in Doc /\ t.index \in Nat /\ t.play \in Nat
  BY DEF Task
<1> QED
  BY <1>1, <1>2

(* What is behind one token is behind every later one. *)
LEMMA BehindGrows ==
  ASSUME NEW d \in Doc, NEW m \in Nat, NEW n \in Nat, m <= n, Behind(d, m)
  PROVE  Behind(d, n)
<1> SUFFICES ASSUME NEW i \in DOMAIN d PROVE d[i].at <= n
  BY DEF Behind
<1>1. d[i].at \in Nat /\ d[i].at <= m
  BY DocElements DEF Behind
<1> QED
  BY <1>1

(* An action for the token behind all others keeps the order, and follows  *)
(* whatever does not go beyond them.                                       *)
LEMMA Appended ==
  ASSUME NEW d \in Doc, NEW n \in Nat, NEW kind \in {"act", "wait"}, Behind(d, n), InOrder(d)
  PROVE  LET e == Append(d, [at |-> n + 1, kind |-> kind])
         IN /\ e \in Doc /\ Len(e) = Len(d) + 1
            /\ e[Len(d) + 1].kind = kind /\ \A i \in 1..Len(d) : e[i] = d[i]
            /\ Behind(e, n + 1) /\ InOrder(e)
            /\ \A c \in Doc : Behind(c, n) /\ Follows(c, d) => Follows(c, e)
<1> DEFINE new == [at |-> n + 1, kind |-> kind]
           e == Append(d, new)
<1>1. new.at = n + 1 /\ new.kind = kind /\ new \in [at : Nat, kind : {"act", "wait"}]
  OBVIOUS
<1>2. e = Append(d, new)
  OBVIOUS
<1> HIDE DEF new, e
<1>3. /\ e \in Doc /\ Len(e) = Len(d) + 1 /\ DOMAIN e = 1..(Len(d) + 1)
      /\ e[Len(d) + 1] = new /\ \A i \in 1..Len(d) : e[i] = d[i]
  BY <1>1, <1>2 DEF Doc
<1>4. Len(d) \in Nat /\ DOMAIN d = 1..Len(d)
  BY DocElements
<1>5. \A i \in 1..Len(d) : d[i].at \in Nat /\ d[i].at <= n
  BY <1>4, DocElements DEF Behind
<1>6. \A i \in DOMAIN e : i = Len(d) + 1 \/ i \in 1..Len(d)
  BY <1>3, <1>4
<1>7. Behind(e, n + 1)
  <2> SUFFICES ASSUME NEW i \in DOMAIN e PROVE e[i].at <= n + 1
    BY DEF Behind
  <2>1. CASE i = Len(d) + 1
    BY <1>1, <1>3, <2>1
  <2>2. CASE i \in 1..Len(d)
    BY <1>3, <1>5, <2>2
  <2> QED
    BY <1>6, <2>1, <2>2
<1>8. InOrder(e)
  <2> SUFFICES ASSUME NEW i \in DOMAIN e, NEW j \in DOMAIN e, i < j PROVE e[i].at < e[j].at
    BY DEF InOrder
  <2>1. i \in 1..Len(d) /\ e[i] = d[i]
    BY <1>3, <1>4
  <2>2. CASE j = Len(d) + 1
    BY <1>1, <1>3, <1>5, <2>1, <2>2
  <2>3. CASE j \in 1..Len(d)
    <3>1. d[i].at < d[j].at /\ e[j] = d[j]
      BY <1>3, <1>4, <2>1, <2>3 DEF InOrder
    <3> QED
      BY <2>1, <3>1
  <2> QED
    BY <1>6, <2>2, <2>3
<1>9. ASSUME NEW c \in Doc, Behind(c, n), Follows(c, d) PROVE Follows(c, e)
  <2> SUFFICES ASSUME NEW i \in DOMAIN c, NEW j \in DOMAIN e PROVE c[i].at < e[j].at
    BY DEF Follows
  <2>1. c[i].at \in Nat /\ c[i].at <= n
    BY <1>9, DocElements DEF Behind
  <2>2. CASE j = Len(d) + 1
    BY <1>1, <1>3, <2>1, <2>2
  <2>3. CASE j \in 1..Len(d)
    BY <1>3, <1>4, <1>9, <2>3 DEF Follows
  <2> QED
    BY <1>6, <2>2, <2>3
<1> QED
  BY <1>1, <1>3, <1>7, <1>8, <1>9 DEF e, new

(* Of every task that was sent no more is changed than its state, and a    *)
(* task that is no longer known was forgotten by the daemon.               *)
LEMMA OwnStays ==
  ASSUME OnlyEnds, NEW id \in Own'
  PROVE  /\ id \in Own /\ id \in TaskId /\ work'[id].doc = work[id].doc
         /\ work'[id].index = work[id].index /\ work'[id].play = work[id].play
BY DEF Own, OnlyEnds

(* What was sent stays as it was, or is forgotten. *)
LEMMA TasksStillFollow ==
  ASSUME OnlyEnds, TasksFollowTheScript
  PROVE  TasksFollowTheScript'
BY OwnStays DEF TasksFollowTheScript, WaitsSplit, Follows

Followed == DocFollowsScript /\ TasksFollowTheScript

(* No task is sent; the cursor may move on, but not behind the sequence's code. *)
LEMMA CursorStillFollows ==
  ASSUME TypeOK, Followed, OnlyEnds, UNCHANGED <<doc, index, leading, plays>>,
         at' \in Nat, at' >= at, active' => active, active' /\ ui' # "idle" => ui # "idle"
  PROVE  Followed'
<1> USE DEF Followed
<1>1. TasksFollowTheScript'
  BY TasksStillFollow
<1>2. Behind(doc', at') /\ InOrder(doc')
  BY BehindGrows, DocsTyped DEF DocFollowsScript
<1>3. ASSUME NEW id \in Own', work'[id].play = plays' PROVE Behind(work'[id].doc, at')
  <2>1. id \in Own /\ id \in TaskId /\ work'[id].doc = work[id].doc /\ work[id].play = plays
    BY <1>3, OwnStays
  <2>2. Behind(work[id].doc, at)
    BY <2>1 DEF DocFollowsScript
  <2> QED
    BY <2>1, <2>2, BehindGrows, DocsTyped
<1>4. ASSUME active', NEW id \in Own', work'[id].play = plays'
      PROVE  work'[id].index <= index' /\ (ui' # "idle" => work'[id].index < index' /\ Follows(work'[id].doc, doc'))
  BY <1>4, OwnStays DEF DocFollowsScript
<1>5. active' /\ ui' # "idle" => SplitSoFar'
  BY DEF DocFollowsScript, SplitSoFar
<1> QED
  BY <1>1, <1>2, <1>3, <1>4, <1>5 DEF DocFollowsScript

(* An action, or the wait a task begins with, is added to the task. *)
LEMMA AppendFollows ==
  ASSUME Counts, Followed, NEW kind \in {"act", "wait"}, ui = "compile", OnlyEnds,
         UNCHANGED <<index, plays, active, ui>>,
         at' = at + 1, doc' = Append(doc, [at |-> at + 1, kind |-> kind]),
         ~leading', kind = "wait" <=> leading
  PROVE  Followed'
<1> USE DEF Followed, Counts
<1>1. TasksFollowTheScript'
  BY TasksStillFollow
<1>2. doc \in Doc /\ at \in Nat /\ index \in Nat /\ Len(doc) \in Nat /\ DOMAIN doc = 1..Len(doc)
  BY DocsTyped, DocElements
<1>3. Behind(doc, at) /\ InOrder(doc)
  BY DEF DocFollowsScript
<1>4. /\ doc' \in Doc /\ Len(doc') = Len(doc) + 1
      /\ doc'[Len(doc) + 1].kind = kind /\ \A i \in 1..Len(doc) : doc'[i] = doc[i]
      /\ Behind(doc', at') /\ InOrder(doc')
      /\ \A c \in Doc : Behind(c, at) /\ Follows(c, doc) => Follows(c, doc')
  <2> DEFINE e == Append(doc, [at |-> at + 1, kind |-> kind])
  <2>2. /\ e \in Doc /\ Len(e) = Len(doc) + 1
        /\ e[Len(doc) + 1].kind = kind /\ \A i \in 1..Len(doc) : e[i] = doc[i]
        /\ Behind(e, at + 1) /\ InOrder(e)
        /\ \A c \in Doc : Behind(c, at) /\ Follows(c, doc) => Follows(c, e)
    BY ONLY <1>2, <1>3, kind \in {"act", "wait"}, Appended
  <2>3. doc' = e /\ at' = at + 1
    OBVIOUS
  <2> HIDE DEF e
  <2> QED
    BY <2>2, <2>3
<1>5. active
  BY DEF FlowInv, CodeFitsSequence
<1>6. ASSUME NEW id \in Own', work'[id].play = plays'
      PROVE  /\ Behind(work'[id].doc, at')
             /\ work'[id].index <= index' /\ work'[id].index < index' /\ Follows(work'[id].doc, doc')
  <2>1. /\ id \in Own /\ id \in TaskId /\ work[id].play = plays
        /\ work'[id].doc = work[id].doc /\ work'[id].index = work[id].index
    BY <1>6, OwnStays
  <2>2. work[id].doc \in Doc /\ work[id].index \in Nat
    BY <2>1, DocsTyped
  <2>3. Behind(work[id].doc, at) /\ work[id].index < index /\ Follows(work[id].doc, doc)
    BY <1>5, <2>1 DEF DocFollowsScript
  <2>4. Behind(work[id].doc, at')
    BY <1>2, <2>2, <2>3, BehindGrows
  <2>5. Follows(work[id].doc, doc')
    BY <1>4, <2>2, <2>3
  <2> QED
    BY <1>2, <2>1, <2>2, <2>3, <2>4, <2>5
<1>7. SplitSoFar'
  <2>1. SplitSoFar
    BY <1>5 DEF DocFollowsScript
  <2>2. CASE kind = "wait"
    <3>1. Len(doc) = 0 /\ index # 1
      BY <1>5, <2>1, <2>2 DEF TotalIsCounted, SplitSoFar
    <3>2. Len(doc') = 1 /\ doc'[1].kind = "wait" /\ doc' # <<>>
      BY <1>4, <2>2, <3>1
    <3>3. 2..Len(doc') = {}
      BY <3>2
    <3> QED
      BY <3>1, <3>2, <3>3 DEF SplitSoFar
  <2>3. CASE kind = "act"
    <3>1. ~leading
      BY <2>3
    <3>2. ASSUME index > 1 PROVE doc' # <<>> /\ doc'[1].kind = "wait"
      <4>1. doc # <<>> /\ doc[1].kind = "wait"
        BY <2>1, <3>1, <3>2 DEF SplitSoFar
      <4>2. 1 \in 1..Len(doc)
        BY <1>2, <4>1, EmptySeq DEF Doc
      <4>3. doc' # <<>>
        BY <1>2, <1>4
      <4> QED
        BY <1>4, <4>1, <4>2, <4>3
    <3>3. ASSUME index = 1, NEW i \in DOMAIN doc' PROVE doc'[i].kind = "act"
      <4>1. \A k \in DOMAIN doc : doc[k].kind = "act"
        BY <2>1, <3>3 DEF SplitSoFar
      <4>2. i = Len(doc) + 1 \/ i \in 1..Len(doc)
        BY <1>2, <1>4, DocElements
      <4> QED
        BY <1>2, <1>4, <2>3, <4>1, <4>2
    <3>4. ASSUME NEW i \in 2..Len(doc') PROVE doc'[i].kind # "wait"
      <4>1. \A k \in 2..Len(doc) : doc[k].kind # "wait"
        BY <2>1 DEF SplitSoFar
      <4>2. i = Len(doc) + 1 \/ (i \in 2..Len(doc) /\ i \in 1..Len(doc))
        BY <1>2, <1>4
      <4> QED
        BY <1>4, <2>3, <4>1, <4>2
    <3> QED
      BY <3>1, <3>2, <3>3, <3>4 DEF SplitSoFar
  <2> QED
    BY <2>2, <2>3
<1>8. DocFollowsScript'
  BY <1>4, <1>6, <1>7 DEF DocFollowsScript
<1> QED
  BY <1>1, <1>8

(* A new task is begun, behind those that were sent. *)
LEMMA SegmentFollows ==
  ASSUME Counts, Followed, NextSegment, leadingWait, active, UNCHANGED <<backendVars, plays>>
  PROVE  Followed'
<1> USE DEF Followed, Counts
<1>1. /\ doc' = <<>> /\ index' = index + 1 /\ leading' /\ at' = at /\ work' = work /\ plays' = plays
      /\ index \in Nat /\ index > 0
  BY DocsTyped DEF NextSegment, BeginSegment, TotalIsCounted, backendVars
<1>2. Own' = Own /\ TasksFollowTheScript'
  BY <1>1 DEF Own, TasksFollowTheScript, WaitsSplit, Follows
<1>3. DOMAIN doc' = {} /\ Len(doc') = 0 /\ 2..Len(doc') = {}
  BY <1>1
<1>4. ASSUME NEW id \in Own, work[id].play = plays
      PROVE  work[id].index <= index' /\ work[id].index < index' /\ Follows(work[id].doc, doc')
  <2>1. work[id].index \in Nat /\ work[id].index <= index
    BY <1>4, DocsTyped DEF Own, DocFollowsScript
  <2> QED
    BY <1>1, <1>3, <2>1 DEF Follows
<1>5. Behind(doc', at') /\ InOrder(doc')
  BY <1>3 DEF Behind, InOrder
<1>6. SplitSoFar'
  BY <1>1, <1>3 DEF SplitSoFar
<1>7. \A id \in Own : work[id].play = plays => Behind(work[id].doc, at)
  BY DEF DocFollowsScript
<1>8. DocFollowsScript'
  BY <1>1, <1>2, <1>4, <1>5, <1>6, <1>7 DEF DocFollowsScript
<1> QED
  BY <1>2, <1>8

(* The tasks of an earlier sequence are no tasks of a new one. *)
LEMMA PlayFollows ==
  ASSUME Counts, Followed, Play
  PROVE  Followed'
<1> USE DEF Followed, Counts
<1>1. /\ doc' = <<>> /\ index' = 1 /\ leading' = FALSE /\ at' = 0 /\ work' = work /\ plays' = plays + 1
  BY DEF Play, BeginSegment, backendVars
<1>2. Own' = Own /\ TasksFollowTheScript'
  BY <1>1 DEF Own, TasksFollowTheScript, WaitsSplit, Follows
<1>3. DOMAIN doc' = {} /\ Len(doc') = 0 /\ 2..Len(doc') = {}
  BY <1>1
<1>4. \A id \in Own : work[id].play # plays'
  BY <1>1, DocsTyped DEF FlowInv, OnlyTaskIsBusy, Own
<1>5. Behind(doc', at') /\ InOrder(doc')
  BY <1>3 DEF Behind, InOrder
<1>6. SplitSoFar'
  BY <1>1, <1>3 DEF SplitSoFar
<1>7. DocFollowsScript'
  BY <1>1, <1>2, <1>4, <1>5, <1>6 DEF DocFollowsScript
<1> QED
  BY <1>2, <1>7

(* The task that is sent is the next piece.                                *)
LEMMA SentFollows ==
  ASSUME Counts, Followed, Submitted \/ SubmitAnswerLost
  PROVE  Followed'
<1> USE DEF Followed, Counts
<1>1. /\ ui = "submit" /\ doc # <<>> /\ Accepts(Segment) /\ ui' = "idle"
      /\ UNCHANGED <<at, doc, index, leading, plays>>
  BY DEF Submitted, SubmitAnswerLost, Finish, cursorVars, historyVars
<1>2. active /\ ~leading /\ plays > 0 /\ index > 0
  BY <1>1 DEF FlowInv, CodeFitsSequence, TotalIsCounted
<1>3. PICK new : /\ new \in TaskId /\ work'[new].play = plays /\ work'[new].doc = doc /\ work'[new].index = index
                 /\ \A id \in TaskId \ {new} : work'[id] = work[id]
  BY <1>1, SegmentTaken
<1>4. new \in Own' /\ \A id \in Own' : id # new => id \in Own /\ work'[id] = work[id]
  BY <1>2, <1>3 DEF Own
<1>5. /\ doc \in Doc /\ index \in Nat /\ at \in Nat
      /\ \A id \in Own : work[id].doc \in Doc /\ work[id].index \in Nat
  BY DocsTyped DEF Own
<1>6. Behind(doc, at) /\ InOrder(doc) /\ SplitSoFar
  BY <1>1, <1>2 DEF DocFollowsScript
<1>7. \A id \in Own : work[id].play = plays =>
        Behind(work[id].doc, at) /\ work[id].index < index /\ Follows(work[id].doc, doc)
  BY <1>1, <1>2 DEF DocFollowsScript
<1>8. DocFollowsScript'
  <2>1. ASSUME NEW id \in Own', work'[id].play = plays
        PROVE  Behind(work'[id].doc, at) /\ work'[id].index <= index
    <3>1. CASE id = new
      BY <1>3, <1>5, <1>6, <3>1
    <3>2. CASE id # new
      BY <1>4, <1>5, <1>7, <2>1, <3>2
    <3> QED
      BY <3>1, <3>2
  <2>2. Behind(doc', at') /\ InOrder(doc')
    BY <1>1, <1>6
  <2> QED
    BY <1>1, <2>1, <2>2 DEF DocFollowsScript
<1>9. \A id \in Own' :
         /\ work'[id].index > 1 => work'[id].doc[1].kind = "wait"
         /\ work'[id].index = 1 => work'[id].doc[1].kind # "wait"
         /\ \A i \in 2..Len(work'[id].doc) : work'[id].doc[i].kind # "wait"
  <2> TAKE id \in Own'
  <2>1. CASE id = new
    <3>1. 1 \in DOMAIN doc
      BY <1>1, <1>5, EmptySeq, DocElements DEF Doc
    <3> QED
      BY <1>2, <1>3, <1>6, <2>1, <3>1 DEF SplitSoFar
  <2>2. CASE id # new
    BY <1>4, <2>2 DEF TasksFollowTheScript, WaitsSplit
  <2> QED
    BY <2>1, <2>2
<1>10. \A id \in Own' : \A i, j \in DOMAIN work'[id].doc : i < j => work'[id].doc[i].at < work'[id].doc[j].at
  <2> TAKE id \in Own'
  <2>1. CASE id = new
    BY <1>3, <1>6, <2>1 DEF InOrder
  <2>2. CASE id # new
    BY <1>4, <2>2 DEF TasksFollowTheScript
  <2> QED
    BY <2>1, <2>2
<1>11. ASSUME NEW a \in Own', NEW b \in Own', work'[a].play = work'[b].play, work'[a].index < work'[b].index
       PROVE  Follows(work'[a].doc, work'[b].doc)
  <2>1. CASE a # new /\ b # new
    BY <1>4, <1>11, <2>1 DEF TasksFollowTheScript
  <2>2. CASE a # new /\ b = new
    BY <1>3, <1>4, <1>7, <1>11, <2>2
  <2>3. CASE a = new
    <3>1. b # new
      BY <1>3, <1>5, <1>11, <2>3
    <3>2. b \in Own /\ work'[b] = work[b] /\ work[b].play = plays
      BY <1>3, <1>4, <1>11, <2>3, <3>1
    <3>3. index < work[b].index /\ work[b].index < index /\ work[b].index \in Nat
      BY <1>3, <1>5, <1>7, <1>11, <2>3, <3>2
    <3> QED
      BY <1>5, <3>3
  <2> QED
    BY <2>1, <2>2, <2>3
<1>12. TasksFollowTheScript'
  BY <1>9, <1>10, <1>11 DEF TasksFollowTheScript, WaitsSplit
<1> QED
  BY <1>8, <1>12

(* The tasks stay the pieces of the script in every step. *)
LEMMA FollowsKeeps ==
  ASSUME Counts, Followed, [Step]_dispatchVars
  PROVE  Followed'
<1> USE DEF Counts
<1>1. at \in Nat
  BY DocsTyped
<1>2. ASSUME UNCHANGED <<backendVars, doc, index, leading, plays>>, at' = at \/ at' = at + 1,
             active' => active, active' /\ ui' # "idle" => ui # "idle"
      PROVE  Followed'
  <2>1. OnlyEnds
    BY <1>2 DEF OnlyEnds, backendVars
  <2>2. at' \in Nat /\ at' >= at /\ UNCHANGED <<doc, index, leading, plays>>
    BY <1>1, <1>2
  <2> QED
    BY <1>2, <2>1, <2>2, CursorStillFollows
<1>3. ASSUME UNCHANGED cursorVars, OnlyEnds, UNCHANGED plays, active' => active, active' /\ ui' # "idle" => ui # "idle"
      PROVE  Followed'
  <2>1. at' \in Nat /\ at' >= at /\ UNCHANGED <<doc, index, leading, plays>>
    BY <1>1, <1>3 DEF cursorVars
  <2> QED
    BY <1>3, <2>1, CursorStillFollows
<1>4. CASE OpenIf \/ TakeElse \/ TakeEndIf \/ SkipToken \/ TakeSet \/ BreakAtWait \/ EndOfScript \/ Include
  BY <1>2, <1>4
  DEF OpenIf, TakeElse, TakeEndIf, SkipToken, TakeSet, BreakAtWait, EndOfScript, Include, AtToken, Consume,
      compileOther, historyVars, sequenceVars, cursorVars
<1>5. CASE TokenFails \/ ReadReturns \/ ReadFails
  BY <1>2, <1>5
  DEF TokenFails, ReadReturns, ReadFails, Fail, Finish, Consume, compileOther, historyVars, sequenceVars, cursorVars
<1>6. CASE TakeAction
  <2>1. /\ ui = "compile" /\ at' = at + 1 /\ doc' = Append(doc, [at |-> at + 1, kind |-> "act"])
        /\ UNCHANGED <<backendVars, index, leading, plays, active, ui>> /\ Live /\ Here.kind = "act"
    BY <1>6 DEF TakeAction, AtToken, Consume, compileOther, historyVars, sequenceVars
  <2>2. OnlyEnds
    BY <2>1 DEF OnlyEnds, backendVars
  <2>3. ~leading
    BY <2>1 DEF FlowInv, CodeFitsSequence, TotalIsCounted, Expects, IsWait
  <2> QED
    BY <2>1, <2>2, <2>3, AppendFollows
<1>7. CASE TakeWait
  <2>1. /\ ui = "compile" /\ at' = at + 1 /\ doc' = Append(doc, [at |-> at + 1, kind |-> "wait"])
        /\ UNCHANGED <<backendVars, index, plays, active, ui>> /\ leading /\ ~leading'
    BY <1>7 DEF TakeWait, AtToken, Consume, compileOther, historyVars, sequenceVars
  <2>2. OnlyEnds
    BY <2>1 DEF OnlyEnds, backendVars
  <2> QED
    BY <2>1, <2>2, AppendFollows
<1>8. CASE EmptySegment
  <2>1. NextSegment /\ active /\ ui = "submit" /\ at < Len(tokens) /\ UNCHANGED <<backendVars, plays>>
    BY <1>8 DEF EmptySegment, FlowInv, CodeFitsSequence, compileOther, historyVars
  <2>2. leadingWait
    BY <2>1 DEF TotalIsCounted, TypeOK
  <2> QED
    BY <2>1, <2>2, SegmentFollows
<1>9. CASE TickFinished
  <2>1. NextSegment /\ active /\ task # 0 /\ MessagesRun /\ at < Len(tokens) /\ UNCHANGED <<backendVars, plays>>
    BY <1>9 DEF TickFinished, PollReady, Current, FlowInv, PollFitsTask, historyVars
  <2>2. ui = "idle"
    BY <2>1 DEF MessagesRun, FlowInv, CodeFitsSequence
  <2>3. leadingWait
    BY <2>1, <2>2 DEF TotalIsCounted, TypeOK
  <2> QED
    BY <2>1, <2>3, SegmentFollows
<1>10. CASE Submitted \/ SubmitAnswerLost
  BY <1>10, SentFollows
<1>11. CASE EmptyLast \/ SubmitRefused \/ TickLastFinished \/ TickFailed
  BY <1>2, <1>11
  DEF EmptyLast, SubmitRefused, TickLastFinished, TickFailed, Finish, cursorVars, compileOther, historyVars
<1>12. CASE BeginPoll \/ PollAnswered \/ PollErrs \/ TickIdle \/ SnapshotReads \/ SnapshotReturns
  BY <1>2, <1>12
  DEF BeginPoll, PollAnswered, PollErrs, TickIdle, SnapshotReads, SnapshotReturns, cursorVars, sequenceVars, historyVars
<1>13. CASE StopFails
  <2>1. UNCHANGED <<backendVars, cursorVars, plays, ui>> /\ (active' => active)
    BY <1>13 DEF StopFails, Cancel, sequenceVars
  <2> QED
    BY <1>2, <2>1 DEF cursorVars
<1>14. CASE StopSent
  <2>1. UNCHANGED <<cursorVars, plays, ui>> /\ (active' => active) /\ StopsAll
    BY <1>14 DEF StopSent, Cancel, sequenceVars
  <2>2. OnlyEnds
    BY <2>1, OthersTyped, TypeParts DEF Others
  <2> QED
    BY <1>3, <2>1, <2>2
<1>15. CASE BackendStep \/ (\E t \in Single : Schedules(t)) \/ UNCHANGED dispatchVars
  <2>1. UNCHANGED <<cursorVars, sequenceVars, ui, historyVars>> /\ Others
    BY <1>15, StepOthers
  <2>2. OnlyEnds
    BY <2>1, OthersTyped, TypeParts
  <2> QED
    BY <1>3, <2>1, <2>2 DEF sequenceVars, historyVars
<1>16. CASE Play
  BY <1>16, PlayFollows
<1> QED
  BY <1>4, <1>5, <1>6, <1>7, <1>8, <1>9, <1>10, <1>11, <1>12, <1>13, <1>14, <1>15, <1>16
  DEF Step, DispatchNext, CompileStep, ReadStep, SubmitStep, PollStep

-----------------------------------------------------------------------------
(* The texts stay nested, and within their bound.                          *)

(* A token is consumed. *)
LEMMA ConsumeStructured ==
  ASSUME TypeOK, TextIsStructured, active, ui = "compile", at < Len(tokens), Consume, UNCHANGED tokens,
         NEW e \in Nat, Changes(Len(branches), Here.kind, e)
  PROVE  /\ Nested(tokens', at', e)
         /\ Fits(tokens', at', 0) /\ Fits(tokens', at', Weight[tokens'[at']] - 1)
<1>1. /\ tokens \in Seq(Token) /\ at \in 0..(Len(tokens) - 1) /\ at' = at + 1 /\ tokens' = tokens
      /\ Here = tokens[at + 1] /\ Len(branches) \in Nat
  BY DEF TypeOK, Consume, Here
<1>2. Nested(tokens, at, Len(branches)) /\ Fits(tokens, at, 0)
  BY DEF TextIsStructured, Room
<1>3. PICK x \in Nat : Changes(Len(branches), Here.kind, x) /\ Nested(tokens, at + 1, x)
  BY <1>1, <1>2, NestedConsumed
<1>4. x = e
  BY <1>3 DEF Changes
<1> QED
  BY <1>1, <1>2, <1>3, <1>4, FitsConsumed

(* Every token but an include. *)
LEMMA MovesStructured ==
  ASSUME TypeOK, FlowInv, TextIsStructured,
         OpenIf \/ TakeElse \/ TakeEndIf \/ SkipToken \/ TakeAction \/ TakeSet \/ TakeWait
  PROVE  TextIsStructured'
<1>1. /\ ui = "compile" /\ at < Len(tokens) /\ Consume /\ UNCHANGED <<tokens, ui>> /\ UNCHANGED sequenceVars
  BY DEF OpenIf, TakeElse, TakeEndIf, SkipToken, TakeAction, TakeSet, TakeWait, AtToken
<1>2. active /\ sequence # "finished" /\ UNCHANGED <<active, sequence>>
  BY <1>1 DEF FlowInv, CodeFitsSequence, sequenceVars
<1>3. branches \in Seq(Frame) /\ Len(branches) \in Nat
  BY DEF TypeOK
<1>4. Len(branches') \in Nat /\ Changes(Len(branches), Here.kind, Len(branches'))
  <2>1. CASE OpenIf
    <3>1. PICK c : branches' = Append(branches, c)
      BY <2>1 DEF OpenIf
    <3>2. Here.kind = "if"
      BY <2>1 DEF OpenIf, AtToken
    <3> QED
      BY <1>3, <3>1, <3>2 DEF Changes
  <2>2. CASE TakeElse
    <3>1. branches # <<>> /\ Here.kind = "else" /\ branches' = [branches EXCEPT ![Len(branches)].elseMode = TRUE]
      BY <2>2 DEF TakeElse, AtToken
    <3>2. Len(branches') = Len(branches) /\ Len(branches) > 0
      BY <1>3, <3>1
    <3> QED
      BY <1>3, <3>1, <3>2 DEF Changes
  <2>3. CASE TakeEndIf
    <3>1. branches # <<>> /\ Here.kind = "endif" /\ branches' = SubSeq(branches, 1, Len(branches) - 1)
      BY <2>3 DEF TakeEndIf, AtToken
    <3>2. Len(branches) > 0
      BY <1>3, <3>1
    <3>3. Len(branches') = Len(branches) - 1
      <4> DEFINE n == Len(branches) - 1
      <4>1. 1 \in 1..(Len(branches) + 1) /\ n \in (1 - 1)..Len(branches) /\ n - 1 + 1 = n
        BY <1>3, <3>2
      <4> HIDE DEF n
      <4>2. Len(SubSeq(branches, 1, n)) = n
        BY <1>3, <4>1
      <4> QED
        BY <3>1, <4>2 DEF n
    <3> QED
      BY <1>3, <3>1, <3>2, <3>3 DEF Changes
  <2>4. CASE SkipToken \/ TakeAction \/ TakeSet \/ TakeWait
    <3>1. branches' = branches /\ Here.kind \notin {"if", "else", "endif"}
      BY <2>4 DEF SkipToken, TakeAction, TakeSet, TakeWait, AtToken
    <3> QED
      BY <1>3, <3>1 DEF Changes
  <2> QED
    BY <2>1, <2>2, <2>3, <2>4
<1>5. Nested(tokens', at', Len(branches')) /\ Fits(tokens', at', 0)
  <2> DEFINE e == Len(branches')
  <2>1. e \in Nat /\ Changes(Len(branches), Here.kind, e)
    BY <1>4
  <2> HIDE DEF e
  <2>2. Nested(tokens', at', e) /\ Fits(tokens', at', 0)
    BY <1>1, <1>2, <2>1, ConsumeStructured
  <2> QED
    BY <2>2 DEF e
<1> QED
  BY <1>1, <1>2, <1>5 DEF TextIsStructured, Room

(* An include, for which room is kept. *)
LEMMA IncludeStructured ==
  ASSUME TypeOK, FlowInv, TextIsStructured, Include
  PROVE  TextIsStructured'
<1>1. /\ ui = "compile" /\ at < Len(tokens) /\ Consume /\ UNCHANGED <<tokens, branches>> /\ UNCHANGED sequenceVars
      /\ Here.kind = "rgd" /\ Nests(Here) /\ ui' = "read"
  BY DEF Include, AtToken, MayInclude
<1>2. active /\ sequence # "finished" /\ UNCHANGED <<active, sequence>>
  BY <1>1 DEF FlowInv, CodeFitsSequence, sequenceVars
<1>3. Len(branches) \in Nat /\ Changes(Len(branches), Here.kind, Len(branches))
  BY <1>1 DEF TypeOK, Changes
<1>4. Nested(tokens', at', Len(branches)) /\ Fits(tokens', at', Weight[tokens'[at']] - 1)
  BY <1>1, <1>2, <1>3, ConsumeStructured
<1>5. tokens'[at'] = Here
  BY <1>1 DEF Consume, Here
<1>6. (Nests(tokens[at]))' <=> Nests(Here)
  BY <1>5 DEF Nests
<1> QED
  BY <1>1, <1>2, <1>4, <1>5, <1>6 DEF TextIsStructured, Room

(* A text that is inserted was found good, and its include had kept room   *)
(* for it.                                                                 *)
LEMMA InsertStructured ==
  ASSUME TypeOK, FlowInv, TextIsStructured, ReadReturns
  PROVE  TextIsStructured'
<1>1. PICK text \in Texts[tokens[at].key] : ValidateRegistryStructure(text) /\ Insert(text)
  BY DEF ReadReturns
<1>2. /\ ui = "read" /\ ~cancelled /\ ui' = "compile" /\ UNCHANGED <<at, branches>> /\ UNCHANGED sequenceVars
  BY DEF ReadReturns
<1>3. active /\ at \in 1..Len(tokens) /\ sequence # "finished" /\ UNCHANGED <<active, sequence>>
  BY <1>2 DEF FlowInv, CodeFitsSequence, TypeOK, sequenceVars
<1> DEFINE t == tokens[at]
<1>4. t \in Token /\ t.key \in DOMAIN Texts /\ t.within \in SUBSET DOMAIN Texts
  <2>1. t \in Token
    BY <1>3 DEF TypeOK
  <2> QED
    BY <2>1 DEF Token
<1>5. t.kind = "rgd" /\ Nests(t) /\ Nested(tokens, at, Len(branches)) /\ Fits(tokens, at, Weight[t] - 1)
  BY <1>2, <1>3 DEF TextIsStructured, Room
<1> DEFINE around == t.within \cup {t.key}
           mid == Within(text, around)
<1>6. text \in Reads /\ text \in Seq([kind : Kind, key : DOMAIN Texts]) /\ around \in SUBSET DOMAIN Texts
  <2>1. text \in Seq([kind : Kind, key : DOMAIN Texts])
    BY <1>1, <1>4, DispatchAssumption
  <2> QED
    BY <1>4, <2>1 DEF Reads
<1>7. mid \in Seq(Token) /\ Nested(mid, 0, 0)
  <2> HIDE DEF around
  <2> QED
    BY <1>1, <1>6, WaitsWithin, GoodTextsAreNested
<1>8. TotalWeight(mid) < Weight[t] /\ Weight[t] \in Nat \ {0}
  BY <1>1, <1>4, <1>5, WeightAssumption
<1>9. tokens' = Spliced(tokens, at, mid)
  BY <1>1 DEF Insert, Spliced
<1> HIDE DEF mid, t
<1>10. tokens \in Seq(Token) /\ at \in 0..Len(tokens)
  BY <1>3 DEF TypeOK
<1>11. Nested(tokens', at, Len(branches))
  BY <1>5, <1>7, <1>9, <1>10, NestedSpliced
<1>12. Fits(tokens', at, 0)
  <2>1. TotalWeight(mid) \in Nat
    <3>1. PICK f \in [0..Len(mid) -> Nat] : TotalWeight(mid) = f[Len(mid)]
      BY <1>7, WeightsRecur
    <3>2. Len(mid) \in 0..Len(mid)
      BY <1>7
    <3> QED
      BY <3>1, <3>2
  <2>2. Weight[t] - 1 \in Nat /\ TotalWeight(mid) <= Weight[t] - 1
    BY <1>8, <2>1
  <2> QED
    BY <1>5, <1>7, <1>9, <1>10, <2>2, FitsSpliced
<1>13. tokens' \in Seq(Token) /\ Len(tokens') = Len(tokens) + Len(mid)
  BY <1>7, <1>9, <1>10, Splice
<1>14. Len(tokens') <= TokenBound
  <2>1. at \in 0..Len(tokens') /\ Len(tokens') \in Nat
    BY <1>7, <1>10, <1>13
  <2>2. Len(tokens') + 0 <= TokenBound
    BY <1>12, <1>13, <2>1, FitsIsShort
  <2> QED
    BY <2>1, <2>2
<1> QED
  BY <1>2, <1>3, <1>11, <1>12, <1>14 DEF TextIsStructured, Room

(* A script that is played was found good. *)
LEMMA PlayStructured ==
  ASSUME Play
  PROVE  TextIsStructured'
<1>1. PICK s \in Scripts : ValidateRegistryStructure(s) /\ tokens' = Within(s, {})
  BY DEF Play
<1>2. at' = 0 /\ branches' = <<>> /\ ui' = "compile" /\ sequence' = "idle"
  BY DEF Play, BeginSegment
<1>3. s \in Reads /\ s \in Seq([kind : Kind, key : DOMAIN Texts]) /\ {} \in SUBSET DOMAIN Texts
  BY <1>1, DispatchAssumption DEF Reads
<1> DEFINE w == Within(s, {})
<1>4. w \in Seq(Token) /\ Nested(w, 0, 0) /\ TotalWeight(w) <= TokenBound
  BY <1>1, <1>3, WaitsWithin, GoodTextsAreNested, WeightAssumption
<1> HIDE DEF w
<1>5. Fits(w, 0, 0)
  <2>1. PICK f \in [0..Len(w) -> Nat] :
           /\ f[0] = 0 /\ TotalWeight(w) = f[Len(w)]
           /\ \A n \in 1..Len(w) : f[n] = f[n - 1] + Weight[w[n]]
    BY <1>4, WeightsRecur
  <2>2. \A n \in (0 + 1)..Len(w) : f[n] >= f[n - 1] + Weight[w[n]]
    <3> TAKE n \in (0 + 1)..Len(w)
    <3>1. n \in 1..Len(w) /\ n \in 0..Len(w)
      OBVIOUS
    <3>2. f[n] \in Int /\ f[n] = f[n - 1] + Weight[w[n]]
      BY <2>1, <3>1
    <3> QED
      BY <3>2
  <2>3. f[0] >= 0 + 0 /\ f[Len(w)] <= TokenBound
    BY <1>4, <2>1
  <2> QED
    BY <2>2, <2>3 DEF Fits
<1>6. Len(w) <= TokenBound
  <2>1. 0 \in 0..Len(w) /\ Len(w) \in Nat
    BY <1>4
  <2>2. Len(w) + 0 <= TokenBound
    BY <1>4, <1>5, <2>1, FitsIsShort
  <2> QED
    BY <2>1, <2>2
<1>7. tokens' = w /\ Len(branches') = 0
  BY <1>1, <1>2 DEF w
<1> QED
  BY <1>2, <1>4, <1>5, <1>6, <1>7 DEF TextIsStructured, Room

(* Steps that leave the text and the place in it alone. *)
LEMMA StandsStructured ==
  ASSUME TypeOK, FlowInv, TextIsStructured, UNCHANGED <<tokens, at, branches>>,
         \/ ~active' /\ sequence' # "finished" /\ ui' # "read"
         \/ UNCHANGED <<active, sequence, ui>>
         \/ UNCHANGED active /\ sequence' # "finished" /\ ui # "read" /\ ui' # "read"
         \/ active /\ ~active' /\ ui # "read" /\ ui' # "read" /\ at = Len(tokens)
         \/ ~active' /\ sequence' # "finished" /\ ui' = ui
  PROVE  TextIsStructured'
<1> USE DEF TextIsStructured
<1>1. CASE active /\ ~active' /\ ui # "read" /\ ui' # "read" /\ at = Len(tokens)
  <2>1. Nested(tokens, Len(tokens), Len(branches))
    BY <1>1
  <2>2. Len(branches) = 0
    BY <2>1 DEF Nested
  <2>3. branches = <<>>
    BY <2>2 DEF TypeOK
  <2> QED
    BY <1>1, <2>3
<1>2. CASE UNCHANGED <<active, sequence, ui>>
  <2>1. Room' = Room /\ ((Nests(tokens[at]))' <=> Nests(tokens[at]))
    BY <1>2 DEF Room, Nests
  <2> QED
    BY <1>2, <2>1
<1>3. CASE UNCHANGED active /\ sequence' # "finished" /\ ui # "read" /\ ui' # "read"
  BY <1>3 DEF Room
<1>4. CASE ~active' /\ sequence' # "finished" /\ (ui' # "read" \/ ui' = ui)
  <2>1. (Nests(tokens[at]))' <=> Nests(tokens[at])
    BY DEF Nests
  <2> QED
    BY <1>4, <2>1
<1> QED
  BY <1>1, <1>2, <1>3, <1>4

(* Every step keeps the text structured and within its bound. *)
LEMMA StructureKeeps ==
  ASSUME TypeOK, FlowInv, TextIsStructured, [Step]_dispatchVars
  PROVE  TextIsStructured'
<1>1. CASE OpenIf \/ TakeElse \/ TakeEndIf \/ SkipToken \/ TakeAction \/ TakeSet \/ TakeWait
  BY <1>1, MovesStructured
<1>2. CASE Include
  BY <1>2, IncludeStructured
<1>3. CASE ReadReturns
  BY <1>3, InsertStructured
<1>4. CASE Play
  BY <1>4, PlayStructured
<1>5. CASE BreakAtWait \/ EndOfScript
  <2>1. UNCHANGED <<tokens, at, branches, active, sequence>> /\ ui = "compile" /\ ui' = "submit"
    BY <1>5 DEF BreakAtWait, EndOfScript, AtToken, cursorVars, sequenceVars
  <2>2. sequence # "finished"
    BY <2>1 DEF FlowInv, CodeFitsSequence
  <2> QED
    BY <2>1, <2>2, StandsStructured
<1>6. CASE TokenFails
  <2>1. active /\ Fail /\ at' = at + 1 /\ UNCHANGED <<tokens, branches>>
    BY <1>6 DEF TokenFails, Consume, FlowInv, CodeFitsSequence
  <2>2. ~active' /\ sequence' = "failed" /\ ui' = "idle"
    BY <2>1 DEF Fail, Finish, FlowInv, CodeFitsSequence
  <2> QED
    BY <2>1, <2>2 DEF TextIsStructured
<1>7. CASE ReadFails
  <2>1. UNCHANGED <<tokens, at, branches>> /\ ~active' /\ sequence' \in {"failed", "stopped"} /\ ui' = "idle"
    BY <1>7 DEF ReadFails, Fail, Finish, FlowInv, CodeFitsSequence, cursorVars, sequenceVars
  <2> QED
    BY <2>1, StandsStructured
<1>8. CASE EmptySegment
  <2>1. UNCHANGED <<tokens, at, branches, active, sequence>> /\ ui = "submit" /\ ui' = "compile"
    BY <1>8 DEF EmptySegment, NextSegment, BeginSegment, sequenceVars
  <2>2. sequence # "finished"
    BY <2>1 DEF FlowInv, CodeFitsSequence
  <2> QED
    BY <2>1, <2>2, StandsStructured
<1>9. CASE TickFinished
  <2>1. /\ UNCHANGED <<tokens, at, branches, active, sequence>>
        /\ active /\ task # 0 /\ MessagesRun /\ ui' = "compile"
    BY <1>9 DEF TickFinished, NextSegment, BeginSegment, PollReady, Current, FlowInv, PollFitsTask
  <2>2. sequence # "finished" /\ ui = "idle"
    BY <2>1 DEF MessagesRun, FlowInv, CodeFitsSequence
  <2> QED
    BY <2>1, <2>2, StandsStructured
<1>10. CASE EmptyLast \/ TickLastFinished
  <2>1. UNCHANGED <<tokens, at, branches>> /\ ~active' /\ at = Len(tokens) /\ ui' = "idle"
    BY <1>10 DEF EmptyLast, TickLastFinished, Finish, cursorVars
  <2>2. active /\ ui # "read"
    <3>1. CASE EmptyLast
      BY <3>1 DEF EmptyLast, FlowInv, CodeFitsSequence
    <3>2. CASE TickLastFinished
      BY <3>2 DEF TickLastFinished, PollReady, MessagesRun, Current, FlowInv, PollFitsTask, CodeFitsSequence
    <3> QED
      BY <1>10, <3>1, <3>2
  <2> QED
    BY <2>1, <2>2, StandsStructured
<1>11. CASE SubmitRefused \/ TickFailed \/ SubmitAnswerLost
  <2>1. UNCHANGED <<tokens, at, branches>> /\ ~active' /\ sequence' = "failed" /\ ui' = "idle"
    BY <1>11 DEF SubmitRefused, TickFailed, SubmitAnswerLost, Finish, cursorVars
  <2> QED
    BY <2>1, StandsStructured
<1>12. CASE Submitted
  <2>1. UNCHANGED <<tokens, at, branches, active>> /\ sequence' = "running" /\ ui = "submit" /\ ui' = "idle"
    BY <1>12 DEF Submitted, cursorVars
  <2> QED
    BY <2>1, StandsStructured
<1>13. CASE StopSent \/ StopFails
  <2>1. UNCHANGED <<tokens, at, branches, ui>> /\ Cancel
    BY <1>13 DEF StopSent, StopFails, cursorVars
  <2>2. CASE active
    BY <2>1, <2>2, StandsStructured DEF Cancel
  <2>3. CASE ~active
    BY <2>1, <2>3, StandsStructured DEF Cancel, sequenceVars
  <2> QED
    BY <2>2, <2>3
<1>14. CASE \/ BeginPoll \/ PollAnswered \/ PollErrs \/ TickIdle \/ SnapshotReads \/ SnapshotReturns
            \/ BackendStep \/ (\E t \in Single : Schedules(t)) \/ UNCHANGED dispatchVars
  <2>1. UNCHANGED <<tokens, at, branches, active, sequence, ui>>
    BY <1>14 DEF BeginPoll, PollAnswered, PollErrs, TickIdle, SnapshotReads, SnapshotReturns, BackendStep,
       Schedules, dispatchVars, cursorVars, sequenceVars
  <2> QED
    BY <2>1, StandsStructured
<1> QED
  BY <1>1, <1>2, <1>3, <1>4, <1>5, <1>6, <1>7, <1>8, <1>9, <1>10, <1>11, <1>12, <1>13, <1>14
  DEF Step, DispatchNext, CompileStep, ReadStep, SubmitStep, PollStep

-----------------------------------------------------------------------------
(* The invariant, and what follows from it.                                *)

(* At first there is no text. *)
LEMMA StructureHolds ==
  ASSUME DispatchInit
  PROVE  TextIsStructured
BY DispatchAssumption DEF DispatchInit, TextIsStructured

(* The invariant holds at first. *)
LEMMA InvariantHolds ==
  ASSUME DispatchInit
  PROVE  IInv
<1> USE DEF DispatchInit, BackendInit, NoTask
<1>1. BackendOK
  <2>1. NoTask \in Task
    BY DEF Task, WorkState, Doc
  <2>2. work = [id \in TaskId |-> NoTask]
    OBVIOUS
  <2>3. nextId \in 1..(MaxTasks + 1)
    <3>1. MaxTasks \in Nat /\ nextId = 1
      BY BackendAssumption
    <3> QED
      BY ONLY <3>1
  <2>4. restarted \in BOOLEAN
    OBVIOUS
  <2> HIDE DEF NoTask, DispatchInit, BackendInit
  <2> QED
    BY <2>1, <2>2, <2>3, <2>4 DEF BackendOK
<1>2. TypeOK
  <2>1. CursorOK
    <3>1. <<>> \in Seq(Token) /\ <<>> \in Seq(Frame) /\ <<>> \in Doc /\ Len(<<>>) = 0
      BY DEF Doc
    <3>2. tokens = <<>> /\ branches = <<>> /\ doc = <<>> /\ at = 0 /\ index = 1 /\ total = 1 /\ MaxDepth \in Nat
      BY DispatchAssumption
    <3> HIDE DEF DispatchInit
    <3> QED
      BY <3>1, <3>2 DEF CursorOK
  <2>2. FlagsOK /\ SequenceOK /\ PollOK /\ ReadOK /\ HistoryOK
    <3>1. FlagsOK /\ ReadOK /\ active \in BOOLEAN
      BY DEF FlagsOK, ReadOK
    <3>2. MaxTasks \in Nat /\ MaxPlays \in Nat
      BY BackendAssumption, DispatchAssumption
    <3>3. task = 0 /\ sequence = "idle" /\ generation = 0 /\ ui = "idle" /\ poll = NoPoll /\ plays = 0 /\ stopped = {}
      OBVIOUS
    <3> HIDE DEF DispatchInit
    <3> QED
      BY <3>1, <3>2, <3>3 DEF SequenceOK, PollOK, HistoryOK
  <2> QED
    BY <1>1, <2>1, <2>2, TypeParts
<1>3. \A id \in TaskId : work[id].play = 0 /\ work[id].state = "none"
  OBVIOUS
<1>4. Own = {}
  BY <1>3 DEF Own
<1>5. FlowInv
  <2>1. CodeFitsSequence
    BY DEF CodeFitsSequence
  <2>2. OneTaskAtATime
    BY <1>4 DEF OneTaskAtATime
  <2>3. OnlyTaskIsBusy
    BY <1>3 DEF OnlyTaskIsBusy
  <2>4. PollFitsTask
    BY DEF PollFitsTask
  <2> QED
    BY <2>1, <2>2, <2>3, <2>4 DEF FlowInv
<1>6. TotalIsCounted
  BY DEF TotalIsCounted
<1>7. DocFollowsScript /\ TasksFollowTheScript
  BY <1>4 DEF DocFollowsScript, TasksFollowTheScript, Behind, InOrder
<1>8. TextIsStructured
  <2> HIDE DEF DispatchInit
  <2> QED
    BY StructureHolds
<1> QED
  BY <1>2, <1>5, <1>6, <1>7, <1>8 DEF IInv

(* And it is kept, by the sequence's steps and by tasks that are scheduled *)
(* beside it.                                                              *)
LEMMA InvariantKept ==
  ASSUME IInv, [Step]_dispatchVars
  PROVE  IInv'
<1>1. TypeOK /\ FlowInv /\ Counts /\ Followed
  BY DEF IInv, Counts, Followed
<1>2. FlowInv'
  BY <1>1, FlowKeeps
<1>3. CursorOK' /\ TotalIsCounted'
  BY <1>1, TotalKeeps
<1>4. FlagsOK' /\ BackendOK' /\ SequenceOK' /\ PollOK' /\ ReadOK' /\ HistoryOK'
  BY <1>1, FlagsTyped, BackendTyped, SequenceTyped, PollTyped, ReadTyped
<1>5. TypeOK'
  BY <1>3, <1>4
  DEF TypeOK, BackendOK, CursorOK, FlagsOK, SequenceOK, PollOK, ReadOK, HistoryOK, Task, Doc
<1>6. Followed'
  BY <1>1, FollowsKeeps
<1>7. TextIsStructured'
  BY <1>1, StructureKeeps DEF IInv
<1> QED
  BY <1>2, <1>3, <1>5, <1>6, <1>7 DEF IInv, Followed

(* The inductive invariant. *)
THEOREM Invariant == DispatchSpec => []IInv
<1>1. DispatchInit => IInv
  BY InvariantHolds
<1>2. IInv /\ [DispatchNext]_dispatchVars => IInv'
  BY InvariantKept DEF Step
<1> QED
  BY <1>1, <1>2, PTL DEF DispatchSpec

(* Every variable has its type; in particular the sequence never waits for *)
(* a number the daemon has not given, and the open conditions stay within  *)
(* their limit (registry_dispatch.inc:48-49).                              *)
THEOREM TypeIsRight == DispatchSpec => []TypeOK
<1>1. IInv => TypeOK
  BY DEF IInv
<1> QED
  BY <1>1, Invariant, PTL

(* The next task of a sequence is sent after its predecessor has ended.    *)
THEOREM OneAtATime == DispatchSpec => []OneTaskAtATime
<1>1. IInv => OneTaskAtATime
  BY DEF IInv, FlowInv
<1> QED
  BY <1>1, Invariant, PTL

(* The tasks of a sequence are the pieces of its script between its waits, *)
(* in their order, and no token is in two of them.                         *)
THEOREM TasksArePieces == DispatchSpec => []TasksFollowTheScript
<1>1. IInv => TasksFollowTheScript
  BY DEF IInv
<1> QED
  BY <1>1, Invariant, PTL

(* What the invariant says of the frames. *)
LEMMA StructureMatches ==
  ASSUME TypeOK, FlowInv, TextIsStructured
  PROVE  FramesMatch
<1> SUFFICES ASSUME ui = "compile", at < Len(tokens), Here.kind \in {"else", "endif"} PROVE branches # <<>>
  BY DEF FramesMatch
<1>1. Nested(tokens, at, Len(branches)) /\ at \in 0..(Len(tokens) - 1) /\ tokens \in Seq(Token)
  BY DEF FlowInv, CodeFitsSequence, TextIsStructured, TypeOK
<1>2. PICK e \in Nat : Changes(Len(branches), tokens[at + 1].kind, e)
  BY <1>1, NestedConsumed
<1>3. Len(branches) > 0
  BY <1>2 DEF Changes, Here
<1> QED
  BY <1>3

(* The compiler finds the frames it closes, every variable has its type,   *)
(* and cyclic and nested includes come to an end within the bound that the *)
(* texts set (registry_rgd.inc:127-152).                                   *)
THEOREM ExpansionStaysSound == DispatchSpec => []ExpansionIsSound
<1>1. IInv => ExpansionIsSound
  BY StructureMatches DEF IInv, ExpansionIsSound, TextIsStructured
<1> QED
  BY <1>1, Invariant, PTL

(* The count of the tasks to come, and the structure of what is left.      *)
LEMMA ProgressFollows ==
  ASSUME IInv
  PROVE  ProgressIsExact
<1>1. TypeOK /\ TotalIsCounted /\ TextIsStructured
  BY DEF IInv
<1>2. Cardinality(Ahead) \in Nat /\ index \in Nat /\ total \in Nat
  BY <1>1, AheadIsCounted DEF TypeOK
<1>3. ASSUME active PROVE index <= total
  <2>1. CASE ~leading
    BY <1>1, <1>2, <1>3, <2>1 DEF TotalIsCounted
  <2>2. CASE leading
    <3>1. Expects /\ total = index + Cardinality(Ahead) - 1
      BY <1>1, <1>3, <2>2 DEF TotalIsCounted
    <3>2. Cardinality(Ahead) > 0
      BY <1>1, <3>1, WaitsConsumed DEF Expects, Ahead, Here, TypeOK
    <3> QED
      BY <1>2, <3>1, <3>2
  <2> QED
    BY <2>1, <2>2
<1> QED
  BY <1>1, <1>3 DEF ProgressIsExact, TotalIsCounted, TextIsStructured

(* "index/total" never shows more than the total, and a sequence that      *)
(* finished was shown as n/n with its script consumed and its conditions   *)
(* closed, however includes and branches not taken moved the total         *)
(* (RegistryDispatchStatus).                                               *)
THEOREM ProgressStaysExact == DispatchSpec => []ProgressIsExact
<1>1. IInv => ProgressIsExact
  BY ProgressFollows
<1> QED
  BY <1>1, Invariant, PTL

(* A task of a sequence begins only when its compiled text is sent. *)
LEMMA OnlySegmentsBegin ==
  ASSUME TypeOK, [Step]_dispatchVars
  PROVE  OnlyEnds \/ Submitted \/ SubmitAnswerLost
BY BackendMoves, OthersTyped, TypeParts

(* What was stopped stays so. *)
LEMMA StopsStay ==
  ASSUME [Step]_dispatchVars
  PROVE  stopped \subseteq stopped'
<1>1. CASE UNCHANGED historyVars
  BY <1>1 DEF historyVars
<1>2. CASE CompileStep \/ ReadStep \/ SubmitStep
  BY <1>1, <1>2
  DEF CompileStep, OpenIf, TakeElse, TakeEndIf, SkipToken, TakeAction, TakeSet, TakeWait, BreakAtWait,
      EndOfScript, Include, TokenFails, ReadStep, ReadReturns, ReadFails, SubmitStep, EmptyLast,
      EmptySegment, Submitted, SubmitRefused, SubmitAnswerLost, compileOther
<1>3. CASE PollStep \/ SnapshotReads \/ SnapshotReturns
  BY <1>1, <1>3
  DEF PollStep, BeginPoll, PollAnswered, PollErrs, TickIdle, TickLastFinished, TickFinished, TickFailed,
      SnapshotReads, SnapshotReturns
<1>4. CASE Play \/ StopSent \/ StopFails
  BY <1>4 DEF Play, StopSent, StopFails, Cancel
<1>5. CASE BackendStep \/ (\E t \in Single : Schedules(t)) \/ UNCHANGED dispatchVars
  BY <1>1, <1>5, StepOthers
<1> QED
  BY <1>2, <1>3, <1>4, <1>5 DEF Step, DispatchNext

(* What a step may not do to a sequence that was stopped. *)
Silent ==
  /\ \A id \in TaskId :
       work'[id].play > 0 /\ work'[id] # work[id] /\ work'[id].state = "active" => work'[id].play \notin stopped
  /\ plays \in stopped /\ plays' = plays => sequence' = sequence

(* The steps of the system do none of that. *)
LEMMA StoppedIsSilent ==
  ASSUME IInv, [Step]_dispatchVars
  PROVE  Silent
<1>1. TypeOK /\ FlowInv /\ CodeFitsSequence
  BY DEF IInv, FlowInv
<1>2. BackendOK /\ BackendOK' /\ FlowInv'
  BY <1>1, BackendTyped, FlowKeeps, TypeParts
<1>3. ASSUME NEW id \in TaskId, work'[id].play > 0, work'[id] # work[id], work'[id].state = "active"
      PROVE  work'[id].play \notin stopped
  <2>1. CASE OnlyEnds
    <3>1. /\ work'[id].play = work[id].play /\ work'[id].index = work[id].index
          /\ work'[id].doc = work[id].doc /\ work'[id].state = work[id].state
      BY <1>3, <2>1 DEF OnlyEnds
    <3>2. work'[id] \in Task /\ work[id] \in Task
      BY <1>2 DEF BackendOK
    <3>3. \A s, t \in Task : s.play = t.play /\ s.index = t.index /\ s.doc = t.doc /\ s.state = t.state => s = t
      BY DEF Task
    <3> QED
      BY <1>3, <3>1, <3>2, <3>3
  <2>2. CASE Submitted \/ SubmitAnswerLost
    <3>1. ui = "submit" /\ Accepts(Segment)
      BY <2>2 DEF Submitted, SubmitAnswerLost
    <3>2. id = nextId /\ work'[id].play = plays
      BY <1>1, <1>3, <3>1, SegmentTaken
    <3> QED
      BY <1>1, <3>1, <3>2 DEF CodeFitsSequence
  <2> QED
    BY <1>1, <2>1, <2>2, OnlySegmentsBegin
<1>4. plays \in stopped /\ plays' = plays => sequence' = sequence
  BY <1>1, <1>2, StopsStay DEF FlowInv, CodeFitsSequence
<1> QED
  BY <1>3, <1>4 DEF Silent

(* A sequence that was stopped sends no further task, also when the stop   *)
(* came while an include of it was being read, and stays shown as stopped. *)
THEOREM StoppedStaysStopped == DispatchSpec => StoppedSendsNothing
<1>1. IInv /\ [DispatchNext]_dispatchVars => [Silent]_dispatchVars
  BY StoppedIsSilent DEF Step
<1>2. [Silent]_dispatchVars =>
        [/\ \A id \in TaskId :
               work'[id].play > 0 /\ work'[id] # work[id] /\ work'[id].state = "active"
                 => work'[id].play \notin stopped
         /\ plays \in stopped /\ plays' = plays => sequence' = sequence]_dispatchVars
  BY DEF Silent
<1> QED
  BY <1>1, <1>2, Invariant, PTL DEF DispatchSpec, StoppedSendsNothing

-----------------------------------------------------------------------------
(* The runs of the control API                                             *)

(* Where the callers of the Registry Hub's code are while it runs, and     *)
(* what cannot begin while a run waits for a task of its own: neither a    *)
(* sequence nor, but below a reader, another dialog.                       *)
CallerInv ==
  /\ snapshot <=> caller \in {"schedule", "hubSchedule"}
  /\ caller = "schedule" => ~active
  /\ caller = "inputs" => ui = "idle"
  /\ caller = "hubPlay" /\ ui = "read" /\ ControlActive => active
  /\ ownTask # 0 => ControlActive /\ ~active /\ caller # "hubPlay"
  /\ ownTask # 0 /\ caller \in {"none", "inputs", "hubSchedule"} => dialog = "none"

(* What the daemon has said to have ended has ended. *)
PollsInv ==
  /\ task < nextId /\ ownTask < nextId
  /\ poll # NoPoll =>
       /\ poll.task < nextId
       /\ poll.reply \in {"finished", "failed", "stopped"} => work[poll.task].state # "active"
  /\ ownPoll # NoPoll =>
       /\ ownPoll.task < nextId
       /\ ownPoll.reply \in {"finished", "failed", "stopped"} => work[ownPoll.task].state # "active"

(* A task of the last run that it heard of. *)
AtWork(id) == id \in owned \ unheard /\ work[id].state = "active"

(* Whatever is at work for a run, the run waits for: by its own number, or *)
(* by its sequence's; and it does not begin another before.                *)
FlowsInv ==
  /\ owned \subseteq 1..(nextId - 1)
  /\ \A id \in TaskId : AtWork(id) => ControlActive /\ (id = ownTask \/ (active /\ id = task))
  /\ caller \in {"play", "schedule"} /\ ~active => \A id \in TaskId : ~AtWork(id)

(* An override is in the environment, or may come there from the script    *)
(* that is compiled, only in a no_replace run; and such a run saves        *)
(* nothing and knows what to put back.                                     *)
EnvironmentInv ==
  /\ ControlActive => run.saved = "own"
  /\ temporary <=> ControlActive /\ run.noReplace
  /\ env = "override" => temporary
  /\ source = "override" /\ active => temporary
  /\ source = "override" /\ snapshot /\ ~cancelled => temporary
  /\ snapshot /\ ~cancelled => dialog # "none"
  /\ disk = "own"

ControlInv == IInv /\ ControlTypeOK /\ CallerInv

-----------------------------------------------------------------------------
(* The sequences among the runs.                                           *)

(* A task that belongs to no sequence is scheduled. *)
LEMMA SingleScheduled ==
  ASSUME Accepts(SingleTask), UNCHANGED <<cursorVars, sequenceVars, poll, ui, readVars, historyVars>>
  PROVE  [Step]_dispatchVars
<1>1. SingleTask \in Single
  BY DEF SingleTask, Single
<1> QED
  BY <1>1 DEF Step, Schedules

(* What a control run does to a sequence is a step of the sequence, or one *)
(* it does not notice.                                                     *)
LEMMA ControlSteps ==
  ASSUME [Next]_vars
  PROVE  [Step]_dispatchVars
<1>1. CASE UNCHANGED dispatchVars
  BY <1>1
<1>2. CASE StartRun \/ ContinueRun
  BY <1>1, <1>2 DEF StartRun, ContinueRun, BeginFeeding
<1>3. CASE RequestStep
  <2>1. CASE InputPlays \/ InputSchedules \/ ScheduleReturns \/ ScheduleThrows \/ HubScheduleReturns
    BY <2>1 DEF InputPlays, InputSchedules, ScheduleReturns, ScheduleThrows, HubScheduleReturns, Step, DispatchNext
  <2>2. CASE InputRunsTask \/ InputTaskLost
    BY <2>2, SingleScheduled DEF InputRunsTask, InputTaskLost
  <2>3. CASE InputCancels \/ Returns \/ InputFails \/ PlayReturns \/ PlayThrows \/ HubPlayReturns
    BY <1>1, <2>3 DEF InputCancels, Returns, InputFails, PlayReturns, PlayThrows, HubPlayReturns
  <2> QED
    BY <1>3, <2>1, <2>2, <2>3 DEF RequestStep
<1>4. CASE SequenceStep
  BY <1>4
  DEF SequenceStep, Quietly, TokenStep, SetStep, SegmentStep, SendStep, Step, DispatchNext, CompileStep, SubmitStep
<1>5. CASE TimerStep \/ Quietly(PollAnswered \/ PollErrs)
  BY <1>5 DEF TimerStep, Quietly, Step, DispatchNext, PollStep
<1>6. CASE OwnPollBegins \/ OwnPollAnswered \/ OwnPollErrs \/ OwnPollIdle \/ OwnTaskEnds \/ Tick
  BY <1>1, <1>6 DEF OwnPollBegins, OwnPollAnswered, OwnPollErrs, OwnPollIdle, OwnTaskEnds, Tick
<1>7. CASE StopRun
  BY <1>7 DEF StopRun, Step, DispatchNext
<1>8. CASE UserOpens \/ UserCloses
  BY <1>1, <1>8 DEF UserOpens, UserCloses
<1>9. CASE UserRunsTask
  BY <1>9, SingleScheduled DEF UserRunsTask
<1>10. CASE UserPlays \/ UserSchedules
  BY <1>10 DEF UserPlays, UserSchedules, Step, DispatchNext
<1>11. CASE Quietly(BackendStep)
  BY <1>11 DEF Quietly, Step, DispatchNext
<1>12. CASE UNCHANGED vars
  BY <1>1, <1>12 DEF vars
<1> QED
  BY <1>2, <1>3, <1>4, <1>5, <1>6, <1>7, <1>8, <1>9, <1>10, <1>11, <1>12 DEF Next

-----------------------------------------------------------------------------
(* Types.                                                                  *)

(* A run, and what it waits for. *)
RunOK == run \in {NoRun} \cup [noReplace : BOOLEAN, saved : Environment] /\ temporary \in BOOLEAN
WaitOK == ownTask \in 0..MaxTasks /\ ownPoll \in {NoPoll} \cup [task : TaskId, reply : Reply]
RestOK ==
  /\ feeding = (caller \in {"inputs", "play", "schedule"})
  /\ dialog \in {"none", "hub", "other"}
  /\ env \in Environment /\ disk \in Environment /\ source \in Environment
  /\ caller \in {"none", "inputs", "play", "schedule", "hubPlay", "hubSchedule"}
OwnedOK == unheard \subseteq owned /\ owned \subseteq TaskId

(* The type invariant by its parts. *)
LEMMA ControlTypeParts == ControlTypeOK <=> RunOK /\ WaitOK /\ RestOK /\ OwnedOK
BY DEF ControlTypeOK, RunOK, WaitOK, RestOK, OwnedOK

(* The steps that change nothing of the control API. *)
Plain ==
  \/ TimerStep \/ Quietly(TokenStep) \/ Quietly(ReadStep) \/ Quietly(EmptyLast \/ EmptySegment \/ SubmitRefused)
  \/ Quietly(PollAnswered \/ PollErrs) \/ Quietly(BackendStep) \/ UNCHANGED vars

(* They change nothing. *)
LEMMA PlainSteps ==
  ASSUME Plain
  PROVE  UNCHANGED controlVars
BY DEF Plain, TimerStep, Quietly, vars

(* A run keeps its type. *)
LEMMA RunTyped ==
  ASSUME ControlTypeOK, [Next]_vars
  PROVE  RunOK'
<1> USE DEF ControlTypeOK, RunOK
<1>1. CASE UNCHANGED <<run, temporary>>
  BY <1>1
<1>2. ASSUME FinishRun PROVE RunOK'
  BY <1>2 DEF FinishRun
<1>3. CASE StartRun
  <2>1. PICK noReplace \in BOOLEAN : run' = [noReplace |-> noReplace, saved |-> env] /\ temporary' = noReplace
    BY <1>3 DEF StartRun, BeginFeeding
  <2> QED
    BY <2>1
<1>4. CASE ContinueRun
  BY <1>4 DEF ContinueRun, BeginFeeding, ControlActive
<1>5. CASE RequestStep
  <2>1. CASE InputPlays \/ InputSchedules \/ InputRunsTask \/ InputCancels \/ PlayReturns \/ HubPlayReturns
             \/ ScheduleReturns \/ HubScheduleReturns
    BY <1>1, <2>1 DEF InputPlays, InputSchedules, InputRunsTask, InputCancels, PlayReturns, HubPlayReturns,
       ScheduleReturns, HubScheduleReturns, runVars
  <2>2. CASE Returns \/ InputFails \/ InputTaskLost \/ PlayThrows \/ ScheduleThrows
    BY <1>1, <1>2, <2>2 DEF Returns, FinishOrKeep, InputFails, InputTaskLost, PlayThrows, ScheduleThrows, Throw, runVars
  <2> QED
    BY <1>5, <2>1, <2>2 DEF RequestStep
<1>6. CASE SetStep \/ SegmentStep \/ SendStep \/ UserOpens \/ UserCloses \/ UserRunsTask \/ UserPlays \/ UserSchedules
           \/ OwnPollBegins \/ OwnPollAnswered \/ OwnPollErrs \/ OwnPollIdle
  BY <1>1, <1>6 DEF SetStep, SegmentStep, SendStep, UserOpens, UserCloses, UserRunsTask, UserPlays, UserSchedules,
     OwnPollBegins, OwnPollAnswered, OwnPollErrs, OwnPollIdle, runVars
<1>7. CASE OwnTaskEnds \/ Tick \/ StopRun
  BY <1>1, <1>2, <1>7 DEF OwnTaskEnds, Tick, StopRun, EndRun, StopKey, runVars
<1>8. CASE Plain
  BY <1>1, <1>8, PlainSteps DEF controlVars, runVars
<1> QED
  BY <1>3, <1>4, <1>5, <1>6, <1>7, <1>8 DEF Next, SequenceStep, Plain

(* The daemon's numbers begin at 1. *)
LEMMA TaskNumbers ==
  /\ 0 \in 0..MaxTasks
  /\ \A id \in TaskId : id \in 0..MaxTasks /\ id # 0
  /\ \A id \in 0..MaxTasks : id # 0 => id \in TaskId
BY BackendAssumption DEF TaskId

(* What a run waits for is a task of the daemon. *)
LEMMA WaitTyped ==
  ASSUME TypeOK, ControlTypeOK, [Next]_vars
  PROVE  WaitOK'
<1> USE DEF ControlTypeOK, WaitOK
<1>0. task \in 0..MaxTasks /\ (\A id \in TaskId : id \in 0..MaxTasks) /\ 0 \in 0..MaxTasks
      /\ (\A id \in 0..MaxTasks : id # 0 => id \in TaskId)
  <2>1. task \in 0..MaxTasks
    BY DEF TypeOK
  <2> QED
    BY <2>1, TaskNumbers
<1>1. CASE UNCHANGED <<ownTask, ownPoll>>
  BY <1>1
<1>2. ASSUME FinishRun \/ UNCHANGED ownTask \/ ownTask' = Retained, ownPoll' \in {ownPoll, NoPoll} PROVE WaitOK'
  BY <1>0, <1>2 DEF FinishRun, Retained
<1>3. CASE StartRun \/ ContinueRun
  BY <1>1, <1>3 DEF StartRun, ContinueRun, BeginFeeding
<1>4. CASE RequestStep
  <2>1. CASE InputPlays \/ InputSchedules \/ InputCancels \/ PlayReturns \/ HubPlayReturns
             \/ ScheduleReturns \/ HubScheduleReturns
    BY <1>1, <2>1 DEF InputPlays, InputSchedules, InputCancels, PlayReturns, HubPlayReturns,
       ScheduleReturns, HubScheduleReturns, runVars
  <2>2. CASE Returns \/ InputFails \/ InputTaskLost \/ PlayThrows \/ ScheduleThrows
    BY <1>2, <2>2 DEF Returns, FinishOrKeep, InputFails, InputTaskLost, PlayThrows, ScheduleThrows, Throw, runVars
  <2>3. CASE InputRunsTask
    BY <1>0, <2>3 DEF InputRunsTask, ScheduledTask, Accepts
  <2> QED
    BY <1>4, <2>1, <2>2, <2>3 DEF RequestStep
<1>5. CASE SetStep \/ SegmentStep \/ SendStep \/ UserOpens \/ UserCloses \/ UserPlays \/ UserSchedules
  BY <1>1, <1>5 DEF SetStep, SegmentStep, SendStep, UserOpens, UserCloses, UserPlays, UserSchedules, runVars
<1>6. CASE UserRunsTask
  BY <1>0, <1>6 DEF UserRunsTask, ScheduledTask, Accepts
<1>7. CASE OwnPollIdle \/ OwnTaskEnds \/ Tick \/ StopRun
  BY <1>0, <1>2, <1>7 DEF OwnPollIdle, OwnTaskEnds, OwnPollReady, Tick, StopRun, EndRun, StopKey, runVars
<1>8. CASE OwnPollBegins
  BY <1>0, <1>8 DEF OwnPollBegins, Reply, runVars
<1>9. CASE OwnPollAnswered \/ OwnPollErrs
  <2>1. ownPoll \in [task : TaskId, reply : Reply] /\ UNCHANGED ownTask
    BY <1>9 DEF OwnPollAnswered, OwnPollErrs, runVars
  <2>2. work[ownPoll.task].state \in Reply
    BY <2>1 DEF TypeOK, Reply
  <2>3. PICK reply \in Reply : ownPoll' = [ownPoll EXCEPT !.reply = reply]
    BY <1>9, <2>2 DEF OwnPollAnswered, OwnPollErrs, Reply
  <2> QED
    BY <2>1, <2>3
<1>10. CASE Plain
  BY <1>1, <1>10, PlainSteps DEF controlVars, runVars
<1> QED
  BY <1>3, <1>4, <1>5, <1>6, <1>7, <1>8, <1>9, <1>10 DEF Next, SequenceStep, Plain

(* What the daemon takes for a run is kept until the next run begins. *)
LEMMA OwnedMoves ==
  ASSUME [Next]_vars
  PROVE  \/ UNCHANGED ownedVars
         \/ owned' = {} /\ unheard' = {}
         \/ /\ InputRunsTask \/ (SendStep /\ Submitted)
            /\ ControlActive /\ nextId \in TaskId /\ nextId' = nextId + 1
            /\ owned' = owned \cup {nextId} /\ unheard' = unheard
         \/ /\ nextId \in TaskId /\ nextId' = nextId + 1
            /\ owned' = owned \cup {nextId} /\ unheard' = unheard \cup {nextId}
<1>1. CASE UNCHANGED ownedVars
  BY <1>1
<1>2. CASE StartRun
  BY <1>2 DEF StartRun
<1>3. CASE ContinueRun
  BY <1>1, <1>3 DEF ContinueRun
<1>4. CASE RequestStep
  <2>1. CASE InputRunsTask
    BY <1>1, <2>1 DEF InputRunsTask, Accepts, Owns
  <2>2. CASE InputTaskLost
    BY <1>1, <2>2 DEF InputTaskLost, Accepts, Owns
  <2>3. CASE RequestStep /\ ~InputRunsTask /\ ~InputTaskLost
    BY <1>1, <2>3 DEF RequestStep, InputPlays, InputSchedules, InputCancels, Returns, InputFails, PlayReturns,
       PlayThrows, ScheduleReturns, ScheduleThrows, HubPlayReturns, HubScheduleReturns
  <2> QED
    BY <1>4, <2>1, <2>2, <2>3
<1>5. CASE SendStep
  <2>1. CASE Submitted /\ Owns({})
    BY <1>1, <1>5, <2>1 DEF Submitted, Accepts, Owns
  <2>2. CASE SubmitAnswerLost /\ Owns({nextId})
    BY <1>1, <2>2 DEF SubmitAnswerLost, Accepts, Owns
  <2> QED
    BY <1>5, <2>1, <2>2 DEF SendStep
<1>6. CASE SetStep \/ SegmentStep \/ UserOpens \/ UserCloses \/ UserRunsTask \/ UserPlays \/ UserSchedules
           \/ OwnPollBegins \/ OwnPollAnswered \/ OwnPollErrs \/ OwnPollIdle \/ OwnTaskEnds \/ Tick \/ StopRun
  BY <1>1, <1>6 DEF SetStep, SegmentStep, UserOpens, UserCloses, UserRunsTask, UserPlays, UserSchedules,
     OwnPollBegins, OwnPollAnswered, OwnPollErrs, OwnPollIdle, OwnTaskEnds, Tick, StopRun
<1>7. CASE Plain
  BY <1>1, <1>7, PlainSteps DEF controlVars
<1> QED
  BY <1>2, <1>3, <1>4, <1>5, <1>6, <1>7 DEF Next, SequenceStep, Plain

(* The tasks of a run are the daemon's. *)
LEMMA OwnedTyped ==
  ASSUME ControlTypeOK, [Next]_vars
  PROVE  OwnedOK'
BY OwnedMoves DEF ControlTypeOK, OwnedOK, ownedVars

(* The flag of a request is set exactly while one is handled, and the rest *)
(* keeps its type.                                                         *)
LEMMA RestTyped ==
  ASSUME ControlTypeOK, [Next]_vars
  PROVE  RestOK'
<1> USE DEF ControlTypeOK, RestOK, Environment
<1>0. dialog \in {"none", "hub", "other"} /\ source \in Environment
  OBVIOUS
<1>1. ASSUME FinishRun, ControlActive PROVE env' \in Environment /\ disk' \in Environment
  <2>1. run \in [noReplace : BOOLEAN, saved : Environment]
    BY <1>1 DEF ControlActive
  <2>2. run.saved \in Environment
    BY <2>1
  <2> QED
    BY <1>1, <2>2 DEF FinishRun
<1>2. \A e \in Environment : Saved(e) \in Environment
  BY DEF Saved
<1>3. ASSUME CloseDialogs PROVE dialog' = "none" /\ disk' \in Environment
  BY <1>2, <1>3 DEF CloseDialogs
<1>4. ASSUME Throw PROVE RestOK'
  <2>1. env' \in Environment /\ disk' \in Environment
    BY <1>1, <1>2, <1>4 DEF Throw
  <2>2. feeding' = FALSE /\ caller' = "none" /\ dialog' = "none" /\ source' = source
    BY <1>4 DEF Throw
  <2>3. feeding' = (caller' \in {"inputs", "play", "schedule"})
    <3>1. (caller' \in {"inputs", "play", "schedule"}) = FALSE
      BY ONLY <2>2
    <3> QED
      BY ONLY <2>2, <3>1, Zenon
  <2> QED
    BY ONLY <1>0, <2>1, <2>2, <2>3 DEF RestOK
<1>5. CASE StartRun
  BY <1>5 DEF StartRun, BeginFeeding
<1>6. CASE ContinueRun
  BY <1>6 DEF ContinueRun, BeginFeeding
<1>7. CASE RequestStep
  <2>1. CASE InputPlays \/ InputSchedules
    BY <2>1 DEF InputPlays, InputSchedules, AtInput
  <2>2. CASE InputRunsTask \/ InputCancels
    BY <1>3, <2>2 DEF InputRunsTask, InputCancels
  <2>3. CASE Returns
    <3>1. env' \in Environment /\ disk' \in Environment
      BY <1>1, <1>2, <2>3 DEF Returns, FinishOrKeep
    <3>2. feeding' = FALSE /\ caller' = "none" /\ UNCHANGED <<dialog, source>>
      BY <2>3 DEF Returns
    <3>3. feeding' = (caller' \in {"inputs", "play", "schedule"})
      <4>1. (caller' \in {"inputs", "play", "schedule"}) = FALSE
        BY ONLY <3>2
      <4> QED
        BY ONLY <3>2, <4>1, Zenon
    <3> QED
      BY ONLY <1>0, <3>1, <3>2, <3>3 DEF RestOK
  <2>4. CASE InputFails \/ InputTaskLost \/ PlayThrows \/ ScheduleThrows
    BY <1>4, <2>4 DEF InputFails, InputTaskLost, PlayThrows, ScheduleThrows
  <2>5. CASE PlayReturns
    BY <1>3, <2>5 DEF PlayReturns
  <2>6. CASE HubPlayReturns
    BY <1>2, <2>6 DEF HubPlayReturns
  <2>7. CASE ScheduleReturns \/ HubScheduleReturns
    <3>1. env' \in Environment
      BY <2>7 DEF ScheduleReturns, HubScheduleReturns, Sets
    <3> QED
      BY <1>2, <2>7, <3>1 DEF ScheduleReturns, HubScheduleReturns
  <2> QED
    BY <1>7, <2>1, <2>2, <2>3, <2>4, <2>5, <2>6, <2>7 DEF RequestStep
<1>8. CASE SetStep \/ SegmentStep \/ SendStep
  BY <1>2, <1>8 DEF SetStep, SegmentStep, SendStep
<1>9. CASE UserOpens \/ UserCloses \/ UserRunsTask
  BY <1>3, <1>9 DEF UserOpens, UserCloses, UserRunsTask
<1>10. CASE UserPlays \/ UserSchedules
  <2>1. caller = "none"
    BY <1>10 DEF UserPlays, UserSchedules, Pumping, Play, SnapshotReads, Reading
  <2> QED
    BY <1>10, <2>1 DEF UserPlays, UserSchedules
<1>11. CASE OwnPollBegins \/ OwnPollAnswered \/ OwnPollErrs \/ OwnPollIdle
  BY <1>11 DEF OwnPollBegins, OwnPollAnswered, OwnPollErrs, OwnPollIdle
<1>12. CASE OwnTaskEnds \/ Tick
  <2>1. env' \in Environment /\ disk' \in Environment
    BY <1>1, <1>12 DEF OwnTaskEnds, OwnPollReady, Tick
  <2>2. UNCHANGED <<feeding, dialog, caller, source>>
    BY <1>12 DEF OwnTaskEnds, Tick
  <2> QED
    BY <2>1, <2>2
<1>13. CASE StopRun
  BY <1>1, <1>2, <1>13 DEF StopRun, EndRun, StopKey
<1>14. CASE Plain
  BY <1>14, PlainSteps DEF controlVars
<1> QED
  BY <1>5, <1>6, <1>7, <1>8, <1>9, <1>10, <1>11, <1>12, <1>13, <1>14 DEF Next, SequenceStep, Plain

(* Every variable keeps its type. *)
LEMMA ControlTyped ==
  ASSUME TypeOK, ControlTypeOK, [Next]_vars
  PROVE  ControlTypeOK'
BY RunTyped, WaitTyped, OwnedTyped, RestTyped DEF ControlTypeOK, RunOK, WaitOK, OwnedOK, RestOK

-----------------------------------------------------------------------------
(* The callers of the Registry Hub's code.                                 *)

(* Window messages come only from where they are pumped. *)
LEMMA WhilePumping ==
  ASSUME ControlInv, Pumping
  PROVE  /\ caller # "inputs"
         /\ ui = "read" => task = 0
         /\ feeding => (ui = "read" \/ (snapshot /\ caller = "schedule" /\ ~active))
         /\ caller = "hubPlay" => ui = "read"
BY DEF ControlInv, IInv, FlowInv, CodeFitsSequence, ControlTypeOK, CallerInv, Pumping, MessagesRun

(* The sequence's own code neither begins a sequence nor meets an input. *)
LEMMA SequenceMoves ==
  ASSUME ControlInv, SequenceStep
  PROVE  /\ ui # "idle"
         /\ active' => active
         /\ ui' = "read" => active'
         /\ UNCHANGED <<snapshot, caller, run, temporary, ownTask, dialog, source, ownPoll, plays>>
<1>1. UNCHANGED <<caller, run, temporary, ownTask, dialog, source, ownPoll>>
  BY DEF SequenceStep, Quietly, SetStep, SegmentStep, SendStep, controlVars, runVars
<1>2. CASE TokenStep \/ TakeSet \/ BreakAtWait \/ EndOfScript
  <2>1. ui = "compile" /\ active /\ UNCHANGED <<snapshot, plays>>
    BY <1>2
    DEF TokenStep, OpenIf, TakeElse, TakeEndIf, SkipToken, TakeAction, TakeSet, TakeWait, Include, TokenFails, BreakAtWait,
        EndOfScript, AtToken, compileOther, readVars, historyVars, ControlInv, IInv, FlowInv, CodeFitsSequence
  <2>2. ui' = "read" => active'
    BY <1>2, <2>1
    DEF TokenStep, OpenIf, TakeElse, TakeEndIf, SkipToken, TakeAction, TakeSet, TakeWait, Include, TokenFails, BreakAtWait,
        EndOfScript, Fail, Finish, sequenceVars
  <2> QED
    BY <1>1, <2>1, <2>2
<1>3. CASE ReadStep
  BY <1>1, <1>3 DEF ReadStep, ReadReturns, ReadFails, Fail, Finish, sequenceVars, compileOther, readVars, historyVars
<1>4. CASE EmptyLast \/ EmptySegment \/ SubmitRefused \/ Submitted \/ SubmitAnswerLost
  BY <1>1, <1>4 DEF EmptyLast, EmptySegment, NextSegment, BeginSegment, SubmitRefused, Submitted, SubmitAnswerLost, Finish,
     sequenceVars, compileOther, readVars, historyVars
<1> QED
  BY <1>2, <1>3, <1>4 DEF SequenceStep, Quietly, SetStep, SegmentStep, SendStep

(* A timer of the sequence may end it, or begin its next task. *)
LEMMA TimerMoves ==
  ASSUME ControlInv, TimerStep
  PROVE  /\ Pumping
         /\ active' => active
         /\ ui' = "read" => ui = "read" /\ UNCHANGED active
         /\ UNCHANGED <<snapshot, plays>> /\ UNCHANGED controlVars
<1>1. Pumping /\ UNCHANGED controlVars /\ UNCHANGED <<snapshot, plays>>
  BY DEF TimerStep, BeginPoll, TickIdle, TickLastFinished, TickFinished, TickFailed, readVars, historyVars
<1>2. CASE BeginPoll \/ TickIdle
  BY <1>1, <1>2 DEF BeginPoll, TickIdle, sequenceVars
<1>3. CASE TickLastFinished \/ TickFinished \/ TickFailed
  BY <1>1, <1>3 DEF TickLastFinished, TickFinished, TickFailed, Finish, NextSegment, BeginSegment
<1> QED
  BY <1>2, <1>3 DEF TimerStep

(* Stop All ends the sequence, keeps its task if the daemon may not have   *)
(* been reached, and never one beside another.                             *)
LEMMA StopMoves ==
  ASSUME ControlInv, StopRun
  PROVE  /\ Pumping /\ ~active' /\ UNCHANGED <<ui, snapshot, caller, ownPoll, feeding, source, plays>>
         /\ ui = "read" \/ snapshot => cancelled'
         /\ \/ FinishRun /\ ControlActive /\ dialog' = "none" /\ (Retained = 0 \/ StopsAll)
            \/ UNCHANGED <<run, temporary, env>> /\ ownTask' = Retained
         /\ ~ControlActive => UNCHANGED ownTask
         /\ feeding => Retained = ownTask
         /\ caller = "hubPlay" => Retained = ownTask /\ (ControlActive => run' = NoRun)
         /\ ControlActive /\ ~feeding => dialog' = "none"
         /\ \/ UNCHANGED <<dialog, disk>>
            \/ dialog' = "none" /\ disk' \in {disk, Saved(env)}
            \/ FinishRun
<1> USE DEF ControlInv
<1>1. Pumping /\ UNCHANGED <<caller, ownPoll, feeding, source>> /\ UNCHANGED <<ui, snapshot>> /\ Cancel
  BY DEF StopRun, StopSent, StopFails
<1>2. ~active' /\ (ui = "read" \/ snapshot => cancelled') /\ UNCHANGED plays
  BY <1>1 DEF Cancel, sequenceVars
<1>3. (\E done \in BOOLEAN : EndRun(done) /\ (done => StopsAll)) \/ (feeding /\ StopKey)
  <2>1. CASE StopSent /\ \E answered \in {TRUE, ~MayLose} : EndRun(answered)
    BY <2>1, ControlAssumption DEF StopSent
  <2>2. CASE StopFails /\ EndRun(FALSE)
    BY <2>2
  <2> QED
    BY <2>1, <2>2 DEF StopRun
<1>4. feeding => Retained = ownTask
  BY <1>1, WhilePumping DEF Retained, IInv, FlowInv, CodeFitsSequence
<1>5. caller = "hubPlay" => Retained = ownTask /\ ownTask = 0
  BY <1>1, WhilePumping DEF Retained, CallerInv
<1>6. ~ControlActive => Retained = ownTask
  BY DEF Retained
<1>7. CASE feeding /\ StopKey
  BY <1>1, <1>2, <1>4, <1>5, <1>6, <1>7 DEF StopKey, ControlTypeOK
<1>8. ASSUME NEW done \in BOOLEAN, EndRun(done), ~ControlActive
      PROVE  UNCHANGED <<run, temporary, ownTask, env, dialog, disk>>
  BY <1>8 DEF EndRun, runVars
<1>9. ASSUME NEW done \in BOOLEAN, EndRun(done), done => StopsAll, ControlActive
      PROVE  /\ dialog' = "none"
             /\ \/ FinishRun /\ (Retained = 0 \/ StopsAll)
                \/ Retained # 0 /\ UNCHANGED <<run, temporary, env>> /\ ownTask' = Retained /\ disk' \in {disk, Saved(env)}
  BY <1>9 DEF EndRun
<1>10. CASE \E done \in BOOLEAN : EndRun(done) /\ (done => StopsAll)
  <2>1. CASE ~ControlActive
    BY <1>1, <1>2, <1>4, <1>5, <1>6, <1>8, <1>10, <2>1
  <2>2. CASE ControlActive
    BY <1>1, <1>2, <1>4, <1>5, <1>9, <1>10, <2>2 DEF FinishRun
  <2> QED
    BY <2>1, <2>2
<1> QED
  BY <1>3, <1>7, <1>10

(* In no step does a caller find the sequence's code where it did not expect it. *)
LEMMA CallerKeeps ==
  ASSUME ControlInv, [Next]_vars
  PROVE  CallerInv'
<1> USE DEF ControlInv, CallerInv
<1>1. ASSUME FinishRun PROVE ~ControlActive' /\ ownTask' = 0
  BY <1>1 DEF FinishRun, ControlActive
<1>2. CASE StartRun \/ ContinueRun
  <2>1. /\ ui = "idle" /\ caller = "none" /\ ~snapshot /\ ownTask = 0 /\ ~active
        /\ caller' = "inputs" /\ UNCHANGED dispatchVars /\ UNCHANGED ownTask
    BY <1>2 DEF StartRun, ContinueRun, BeginFeeding, Admissible, Reading, NothingPends
  <2> QED
    BY <2>1 DEF dispatchVars, readVars, sequenceVars
<1>3. CASE RequestStep
  <2>1. CASE InputPlays
    <3>1. caller' = "play" /\ ownTask = 0 /\ UNCHANGED ownTask /\ ~snapshot' 
      BY <2>1 DEF InputPlays, AtInput, NothingPends, runVars, Play, readVars
    <3> QED
      BY <3>1
  <2>2. CASE InputSchedules
    <3>1. caller' = "schedule" /\ ownTask = 0 /\ UNCHANGED ownTask /\ snapshot' /\ ~active'
      BY <2>2 DEF InputSchedules, AtInput, NothingPends, runVars, SnapshotReads, sequenceVars
    <3> QED
      BY <3>1
  <2>3. CASE InputRunsTask
    <3>1. caller = "inputs" /\ ScheduledTask /\ UNCHANGED <<sequenceVars, ui, readVars, caller, run>> /\ dialog' = "none"
      BY <2>3 DEF InputRunsTask, AtInput, CloseDialogs
    <3>2. UNCHANGED <<active, snapshot>> /\ (ownTask' = ownTask \/ (ControlActive /\ ~active))
      BY <3>1 DEF ScheduledTask, sequenceVars, readVars
    <3> QED
      BY <3>1, <3>2 DEF ControlActive
  <2>4. CASE InputCancels
    <3>1. UNCHANGED <<dispatchVars, runVars, caller>> /\ dialog' = "none"
      BY <2>4 DEF InputCancels, CloseDialogs
    <3> QED
      BY <3>1 DEF dispatchVars, sequenceVars, readVars, runVars, ControlActive
  <2>5. ASSUME Throw, UNCHANGED <<active, ui>>, ~snapshot' PROVE CallerInv'
    <3>1. caller' = "none" /\ dialog' = "none" /\ (FinishRun \/ UNCHANGED <<run, ownTask>>)
      BY <2>5 DEF Throw, runVars
    <3> QED
      BY <1>1, <2>5, <3>1 DEF ControlActive
  <2>6. CASE InputFails \/ InputTaskLost \/ PlayThrows
    BY <2>5, <2>6 DEF InputFails, InputTaskLost, AtInput, PlayThrows, dispatchVars, sequenceVars, readVars
  <2>7. CASE ScheduleThrows
    BY <2>5, <2>7 DEF ScheduleThrows, SnapshotReturns, sequenceVars
  <2>8. CASE Returns
    <3>1. caller = "inputs" /\ caller' = "none" /\ UNCHANGED <<dispatchVars, dialog>>
          /\ (FinishRun \/ UNCHANGED <<run, ownTask>>)
      BY <2>8 DEF Returns, FinishOrKeep, runVars
    <3> QED
      BY <1>1, <3>1 DEF dispatchVars, sequenceVars, readVars, ControlActive
  <2>9. CASE PlayReturns
    <3>1. caller = "play" /\ ui = "idle" /\ dialog' = "none" /\ caller' = "inputs" /\ UNCHANGED <<dispatchVars, runVars>>
      BY <2>9 DEF PlayReturns, CloseDialogs
    <3> QED
      BY <3>1 DEF dispatchVars, sequenceVars, readVars, runVars, ControlActive
  <2>10. CASE HubPlayReturns
    <3>1. caller = "hubPlay" /\ caller' = "none" /\ UNCHANGED <<dispatchVars, runVars>>
      BY <2>10 DEF HubPlayReturns
    <3> QED
      BY <3>1 DEF dispatchVars, sequenceVars, readVars, runVars, ControlActive
  <2>11. CASE ScheduleReturns
    <3>1. /\ ui' = "idle" /\ ~snapshot' /\ dialog' = "none" /\ caller' = "inputs"
          /\ UNCHANGED <<sequenceVars, runVars>>
      BY <2>11 DEF ScheduleReturns, SnapshotReturns
    <3> QED
      BY <3>1 DEF sequenceVars, runVars, ControlActive
  <2>12. CASE HubScheduleReturns
    <3>1. /\ caller = "hubSchedule" /\ ~snapshot' /\ caller' = "none"
          /\ UNCHANGED <<sequenceVars, runVars, dialog>>
      BY <2>12 DEF HubScheduleReturns, SnapshotReturns
    <3> QED
      BY <3>1 DEF sequenceVars, runVars, ControlActive
  <2> QED
    BY <1>3, <2>1, <2>2, <2>3, <2>4, <2>6, <2>7, <2>8, <2>9, <2>10, <2>11, <2>12 DEF RequestStep
<1>4. CASE SequenceStep
  BY <1>4, SequenceMoves DEF ControlActive
<1>5. CASE TimerStep
  <2>1. /\ Pumping
        /\ active' => active
        /\ ui' = "read" => ui = "read" /\ UNCHANGED active
        /\ UNCHANGED snapshot /\ UNCHANGED controlVars
    BY <1>5, TimerMoves
  <2>2. caller # "inputs"
    BY <2>1, WhilePumping
  <2>3. UNCHANGED <<run, ownTask, caller, dialog>>
    BY <2>1 DEF controlVars, runVars
  <2>4. UNCHANGED snapshot /\ (active' => active) /\ (ui' = "read" => ui = "read" /\ active' = active)
    BY <2>1
  <2> QED
    BY <2>2, <2>3, <2>4 DEF ControlActive
<1>6. CASE OwnPollBegins \/ OwnPollAnswered \/ OwnPollErrs \/ OwnPollIdle
  BY <1>6 DEF OwnPollBegins, OwnPollAnswered, OwnPollErrs, OwnPollIdle, runVars, dispatchVars, sequenceVars, readVars,
     ControlActive
<1>7. CASE OwnTaskEnds \/ Tick
  <2>1. UNCHANGED <<dispatchVars, dialog, caller>> /\ ownTask' = 0 /\ (FinishRun \/ UNCHANGED run)
    BY <1>7 DEF OwnTaskEnds, Tick, FinishRun
  <2> QED
    BY <1>1, <2>1 DEF dispatchVars, sequenceVars, readVars, ControlActive
<1>8. CASE StopRun
  BY <1>1, <1>8, StopMoves, WhilePumping DEF ControlActive, Retained, ControlTypeOK
<1>9. CASE UserOpens
  <2>1. ownTask # 0 /\ caller \in {"none", "inputs", "hubSchedule"} => FALSE
    BY <1>9, WhilePumping DEF UserOpens, ControlTypeOK
  <2>2. UNCHANGED <<dispatchVars, runVars, caller>>
    BY <1>9 DEF UserOpens
  <2> QED
    BY <2>1, <2>2 DEF dispatchVars, sequenceVars, readVars, runVars, ControlActive
<1>10. CASE UserCloses
  <2>1. UNCHANGED <<dispatchVars, runVars, caller>> /\ dialog' = "none"
    BY <1>10 DEF UserCloses, CloseDialogs
  <2> QED
    BY <2>1 DEF dispatchVars, sequenceVars, readVars, runVars, ControlActive
<1>11. CASE UserRunsTask
  <2>1. ScheduledTask /\ UNCHANGED <<sequenceVars, ui, readVars, caller, run>> /\ dialog' = "none" /\ Pumping
    BY <1>11 DEF UserRunsTask, CloseDialogs
  <2>2. UNCHANGED <<active, snapshot>>
    BY <2>1 DEF sequenceVars, readVars
  <2>3. caller = "hubPlay" => UNCHANGED ownTask
    BY <2>1, WhilePumping DEF ScheduledTask
  <2> QED
    BY <2>1, <2>2, <2>3 DEF ScheduledTask, ControlActive
<1>12. CASE UserPlays
  <2>1. caller = "none" /\ dialog = "hub" /\ caller' = "hubPlay" /\ UNCHANGED <<runVars, readVars>> /\ active'
    BY <1>12 DEF UserPlays, Play, Pumping, Reading
  <2> QED
    BY <2>1 DEF runVars, readVars
<1>13. CASE UserSchedules
  <2>1. /\ caller = "none" /\ dialog = "hub" /\ caller' = "hubSchedule" /\ snapshot'
        /\ UNCHANGED <<runVars, sequenceVars>>
    BY <1>13 DEF UserSchedules, SnapshotReads, Pumping
  <2> QED
    BY <2>1 DEF runVars, sequenceVars
<1>14. CASE Quietly(PollAnswered \/ PollErrs) \/ Quietly(BackendStep) \/ UNCHANGED vars
  <2>1. UNCHANGED <<sequenceVars, readVars, ui, runVars, caller, dialog>>
    BY <1>14 DEF Quietly, PollAnswered, PollErrs, BackendStep, controlVars, vars, dispatchVars
  <2> QED
    BY <2>1 DEF sequenceVars, readVars, runVars, ControlActive
<1> QED
  BY <1>2, <1>3, <1>4, <1>5, <1>6, <1>7, <1>8, <1>9, <1>10, <1>11, <1>12, <1>13, <1>14 DEF Next

-----------------------------------------------------------------------------
(* What polls say, in one life of the daemon.                              *)

(* No number is given twice, and what has ended is not begun again. *)
LEMMA NumbersKept ==
  ASSUME TypeOK, ~MayRestart, [Step]_dispatchVars
  PROVE  /\ nextId <= nextId' /\ nextId \in Nat /\ nextId' \in Nat
         /\ \A id \in TaskId : id < nextId /\ work'[id].state = "active" => work[id].state = "active"
<1>1. BackendOK /\ nextId \in Nat
  BY TypeParts, BackendAssumption DEF BackendOK
<1>2. ASSUME NEW t, Accepts(t)
      PROVE  /\ nextId' = nextId + 1
             /\ \A id \in TaskId : id < nextId => work'[id] = work[id]
  BY <1>1, <1>2 DEF Accepts, BackendOK
<1>3. CASE Submitted \/ SubmitAnswerLost \/ (\E t \in Single : Accepts(t))
  BY <1>1, <1>2, <1>3 DEF Submitted, SubmitAnswerLost
<1>4. CASE TaskEnds
  <2>1. nextId' = nextId
    BY <1>4 DEF TaskEnds
  <2>2. PICK k \in TaskId, s \in {"finished", "failed"} : work' = [work EXCEPT ![k].state = s]
    BY <1>4 DEF TaskEnds
  <2>3. ASSUME NEW id \in TaskId, work'[id].state = "active" PROVE work[id].state = "active"
    <3>1. work[k] \in Task
      BY <1>1 DEF BackendOK
    <3>2. work'[k].state = s
      BY <1>1, <2>2, <3>1 DEF BackendOK, Task
    <3>3. id # k
      BY <2>3, <3>2
    <3> QED
      BY <1>1, <2>2, <2>3, <3>3 DEF BackendOK
  <2> QED
    BY <1>1, <2>1, <2>3
<1>5. CASE StopsAll
  <2>1. nextId' = nextId /\ \A id \in TaskId : work'[id].state # "active"
    BY <1>1, <1>5 DEF StopsAll, AllStopped, BackendOK, Task
  <2> QED
    BY <1>1, <2>1
<1>6. CASE UNCHANGED backendVars
  BY <1>1, <1>6 DEF backendVars
<1>7. ~Restart
  BY DEF Restart
<1> QED
  BY <1>3, <1>4, <1>5, <1>6, <1>7, BackendMoves DEF Others

(* The sequence waits for a task it had, for none, or for the one that the *)
(* daemon has just taken.                                                  *)
LEMMA TaskMoves ==
  ASSUME TypeOK, [Step]_dispatchVars
  PROVE  task' \in {task, 0} \/ (task' = nextId /\ nextId' = nextId + 1)
<1>1. CASE UNCHANGED sequenceVars
  BY <1>1 DEF sequenceVars
<1>2. CASE CompileStep \/ ReadStep \/ EmptyLast \/ EmptySegment \/ SubmitRefused \/ SubmitAnswerLost
  BY <1>1, <1>2
  DEF CompileStep, OpenIf, TakeElse, TakeEndIf, SkipToken, TakeAction, TakeSet, TakeWait, BreakAtWait,
      EndOfScript, Include, TokenFails, Fail, Finish, ReadStep, ReadReturns, ReadFails, EmptyLast,
      EmptySegment, SubmitRefused, SubmitAnswerLost
<1>3. CASE Submitted
  BY <1>3 DEF Submitted, Accepts
<1>4. CASE PollStep \/ Play \/ SnapshotReads \/ SnapshotReturns
  BY <1>1, <1>4
  DEF PollStep, BeginPoll, PollAnswered, PollErrs, TickIdle, TickLastFinished, TickFinished, TickFailed, Finish,
      Play, SnapshotReads, SnapshotReturns
<1>5. CASE StopSent \/ StopFails
  BY <1>1, <1>5 DEF StopSent, StopFails, Cancel
<1>6. CASE BackendStep \/ (\E t \in Single : Schedules(t)) \/ UNCHANGED dispatchVars
  BY <1>1, <1>6, StepOthers
<1> QED
  BY <1>2, <1>3, <1>4, <1>5, <1>6 DEF Step, DispatchNext, SubmitStep

(* The same of a run; it may also take over the sequence's. *)
LEMMA OwnTaskMoves ==
  ASSUME [Next]_vars
  PROVE  ownTask' \in {ownTask, task, 0} \/ (ownTask' = nextId /\ nextId' = nextId + 1)
<1>1. CASE UNCHANGED runVars \/ UNCHANGED ownTask \/ FinishRun \/ ownTask' = Retained
  BY <1>1 DEF runVars, FinishRun, Retained
<1>2. CASE StartRun \/ ContinueRun
  BY <1>1, <1>2 DEF StartRun, ContinueRun, BeginFeeding
<1>3. CASE RequestStep
  <2>1. CASE InputRunsTask
    BY <2>1 DEF InputRunsTask, ScheduledTask, Accepts
  <2>2. CASE RequestStep /\ ~InputRunsTask
    BY <1>1, <2>2 DEF RequestStep, InputPlays, InputSchedules, InputCancels, Returns, FinishOrKeep, InputFails, InputTaskLost,
       Throw, PlayReturns, PlayThrows, ScheduleReturns, ScheduleThrows, HubPlayReturns, HubScheduleReturns
  <2> QED
    BY <1>3, <2>1, <2>2
<1>4. CASE SetStep \/ SegmentStep \/ SendStep \/ UserOpens \/ UserCloses \/ UserPlays \/ UserSchedules
           \/ OwnPollBegins \/ OwnPollAnswered \/ OwnPollErrs \/ OwnPollIdle \/ OwnTaskEnds \/ Tick
  BY <1>1, <1>4 DEF SetStep, SegmentStep, SendStep, UserOpens, UserCloses, UserPlays, UserSchedules,
     OwnPollBegins, OwnPollAnswered, OwnPollErrs, OwnPollIdle, OwnTaskEnds, Tick
<1>5. CASE UserRunsTask
  BY <1>5 DEF UserRunsTask, ScheduledTask, Accepts
<1>6. CASE StopRun
  BY <1>1, <1>6 DEF StopRun, EndRun, StopKey
<1>7. CASE Plain
  BY <1>1, <1>7, PlainSteps DEF controlVars
<1> QED
  BY <1>2, <1>3, <1>4, <1>5, <1>6, <1>7 DEF Next, SequenceStep, Plain

(* A poll stays as it is, is taken, begun or answered. *)
LEMMA PollMoves ==
  ASSUME [Step]_dispatchVars
  PROVE  poll' \in {poll, NoPoll} \/ BeginPoll \/ PollAnswered \/ PollErrs
<1>1. CASE poll' \in {poll, NoPoll}
  BY <1>1
<1>2. CASE CompileStep \/ ReadStep \/ SubmitStep
  BY <1>1, <1>2
  DEF CompileStep, OpenIf, TakeElse, TakeEndIf, SkipToken, TakeAction, TakeSet, TakeWait, BreakAtWait,
      EndOfScript, Include, TokenFails, ReadStep, ReadReturns, ReadFails, SubmitStep, EmptyLast,
      EmptySegment, Submitted, SubmitRefused, SubmitAnswerLost, compileOther
<1>3. CASE TickIdle \/ TickLastFinished \/ TickFinished \/ TickFailed \/ Play \/ StopSent \/ StopFails
           \/ SnapshotReads \/ SnapshotReturns
  BY <1>1, <1>3
  DEF TickIdle, TickLastFinished, TickFinished, TickFailed, Play, StopSent, StopFails, SnapshotReads, SnapshotReturns
<1>4. CASE BackendStep \/ (\E t \in Single : Schedules(t)) \/ UNCHANGED dispatchVars
  BY <1>1, <1>4, StepOthers
<1> QED
  BY <1>2, <1>3, <1>4 DEF Step, DispatchNext, PollStep

(* So does the run's. *)
LEMMA OwnPollMoves ==
  ASSUME [Next]_vars
  PROVE  ownPoll' \in {ownPoll, NoPoll} \/ OwnPollBegins \/ OwnPollAnswered \/ OwnPollErrs
<1>1. CASE ownPoll' \in {ownPoll, NoPoll}
  BY <1>1
<1>2. CASE StartRun \/ ContinueRun
  BY <1>1, <1>2 DEF StartRun, ContinueRun, BeginFeeding
<1>3. CASE RequestStep
  BY <1>1, <1>3
  DEF RequestStep, InputPlays, InputSchedules, InputRunsTask, InputCancels, Returns, InputFails, InputTaskLost,
      Throw, PlayReturns, PlayThrows, ScheduleReturns, ScheduleThrows, HubPlayReturns, HubScheduleReturns
<1>4. CASE SetStep \/ SegmentStep \/ SendStep \/ UserOpens \/ UserCloses \/ UserRunsTask \/ UserPlays \/ UserSchedules
           \/ OwnPollIdle \/ OwnTaskEnds \/ Tick \/ StopRun
  BY <1>1, <1>4 DEF SetStep, SegmentStep, SendStep, UserOpens, UserCloses, UserRunsTask, UserPlays, UserSchedules,
     OwnPollIdle, OwnTaskEnds, OwnPollReady, Tick, StopRun
<1>5. CASE Plain
  BY <1>1, <1>5, PlainSteps DEF controlVars
<1> QED
  BY <1>2, <1>3, <1>4, <1>5 DEF Next, SequenceStep, Plain

(* What a poll says to have ended has ended. *)
LEMMA PollsKeep ==
  ASSUME ControlInv, PollsInv, ~MayRestart, [Next]_vars
  PROVE  PollsInv'
<1>1. TypeOK /\ ControlTypeOK /\ [Step]_dispatchVars
  BY ControlSteps DEF ControlInv, IInv
<1>2. /\ nextId <= nextId' /\ nextId \in Nat /\ nextId' \in Nat
      /\ \A id \in TaskId : id < nextId /\ work'[id].state = "active" => work[id].state = "active"
  BY <1>1, NumbersKept
<1>3. task \in Nat /\ ownTask \in Nat /\ \A id \in TaskId : id \in Nat
  BY <1>1, BackendAssumption DEF TypeOK, ControlTypeOK, TaskId
<1>4. task < nextId /\ ownTask < nextId /\ 0 < nextId
  BY <1>2, <1>3 DEF PollsInv
<1>5. task' < nextId'
  <2>1. CASE task' \in {task, 0}
    BY <1>2, <1>3, <1>4, <2>1
  <2>2. CASE task' = nextId /\ nextId' = nextId + 1
    BY <1>2, <2>2
  <2> QED
    BY <1>1, <2>1, <2>2, TaskMoves
<1>6. ownTask' < nextId'
  <2>1. CASE ownTask' \in {ownTask, task, 0}
    BY <1>2, <1>3, <1>4, <2>1
  <2>2. CASE ownTask' = nextId /\ nextId' = nextId + 1
    BY <1>2, <2>2
  <2> QED
    BY <2>1, <2>2, OwnTaskMoves
<1>7. poll' # NoPoll =>
        /\ poll'.task < nextId'
        /\ poll'.reply \in {"finished", "failed", "stopped"} => work'[poll'.task].state # "active"
  <2>1. CASE poll' \in {poll, NoPoll}
    <3> SUFFICES ASSUME poll' = poll, poll # NoPoll
                 PROVE  /\ poll.task < nextId'
                        /\ poll.reply \in {"finished", "failed", "stopped"} => work'[poll.task].state # "active"
      BY <2>1
    <3>1. poll.task \in TaskId /\ poll.task \in Nat /\ poll.task < nextId
      BY <1>1, <1>3 DEF TypeOK, PollsInv
    <3> QED
      BY <1>2, <3>1 DEF PollsInv
  <2>2. CASE BeginPoll
    BY <1>2, <1>3, <1>4, <2>2 DEF BeginPoll
  <2>3. CASE PollAnswered \/ PollErrs
    <3>1. poll \in [task : TaskId, generation : Nat, reply : Reply] /\ poll # NoPoll
      BY <1>1, <2>3 DEF PollAnswered, PollErrs, TypeOK
    <3>2. UNCHANGED backendVars /\ \E reply \in {work[poll.task].state, "error"} : poll' = [poll EXCEPT !.reply = reply]
      BY <2>3 DEF PollAnswered, PollErrs
    <3>3. poll'.task = poll.task /\ poll'.reply \in {work[poll.task].state, "error"}
      BY <3>1, <3>2
    <3>4. work' = work /\ nextId' = nextId /\ poll.task < nextId
      BY <3>1, <3>2 DEF backendVars, PollsInv
    <3> QED
      BY <3>3, <3>4
  <2> QED
    BY <1>1, <2>1, <2>2, <2>3, PollMoves
<1>8. ownPoll' # NoPoll =>
        /\ ownPoll'.task < nextId'
        /\ ownPoll'.reply \in {"finished", "failed", "stopped"} => work'[ownPoll'.task].state # "active"
  <2>1. CASE ownPoll' \in {ownPoll, NoPoll}
    <3> SUFFICES ASSUME ownPoll' = ownPoll, ownPoll # NoPoll
                 PROVE  /\ ownPoll.task < nextId'
                        /\ ownPoll.reply \in {"finished", "failed", "stopped"} => work'[ownPoll.task].state # "active"
      BY <2>1
    <3>1. ownPoll.task \in TaskId /\ ownPoll.task \in Nat /\ ownPoll.task < nextId
      BY <1>1, <1>3 DEF ControlTypeOK, PollsInv
    <3> QED
      BY <1>2, <3>1 DEF PollsInv
  <2>2. CASE OwnPollBegins
    BY <1>2, <1>3, <1>4, <2>2 DEF OwnPollBegins
  <2>3. CASE OwnPollAnswered \/ OwnPollErrs
    <3>1. ownPoll \in [task : TaskId, reply : Reply] /\ ownPoll # NoPoll
      BY <1>1, <2>3 DEF OwnPollAnswered, OwnPollErrs, ControlTypeOK
    <3>2. UNCHANGED backendVars /\ \E reply \in {work[ownPoll.task].state, "error"} : ownPoll' = [ownPoll EXCEPT !.reply = reply]
      BY <2>3 DEF OwnPollAnswered, OwnPollErrs, dispatchVars
    <3>3. ownPoll'.task = ownPoll.task /\ ownPoll'.reply \in {work[ownPoll.task].state, "error"}
      BY <3>1, <3>2
    <3>4. work' = work /\ nextId' = nextId /\ ownPoll.task < nextId
      BY <3>1, <3>2 DEF backendVars, PollsInv
    <3> QED
      BY <3>3, <3>4
  <2> QED
    BY <2>1, <2>2, <2>3, OwnPollMoves
<1> QED
  BY <1>5, <1>6, <1>7, <1>8 DEF PollsInv

-----------------------------------------------------------------------------
(* One flow per run.                                                       *)

(* Numbers that were given stay given. *)
LEMMA NumbersGrow ==
  ASSUME NEW m \in Nat, NEW n \in Nat, m <= n
  PROVE  1..(m - 1) \subseteq 1..(n - 1)
OBVIOUS

(* What is at work for a run was so before, or the daemon has just taken   *)
(* and confirmed it.                                                       *)
LEMMA AtWorkMoves ==
  ASSUME ControlInv, FlowsInv, ~MayRestart, [Next]_vars
  PROVE  /\ owned' \subseteq 1..(nextId' - 1)
         /\ \A id \in TaskId : id \in owned' \ unheard' /\ work'[id].state = "active" =>
              /\ id # 0 /\ ControlActive
              /\ \/ /\ AtWork(id)
                    /\ id = ownTask \/ (active /\ id = task)
                    /\ ~(caller \in {"play", "schedule"} /\ ~active)
                 \/ id = nextId /\ (InputRunsTask \/ (SendStep /\ Submitted))
<1>1. TypeOK /\ ControlTypeOK /\ [Step]_dispatchVars
  BY ControlSteps DEF ControlInv, IInv
<1>2. /\ nextId <= nextId' /\ nextId \in Nat /\ nextId' \in Nat
      /\ \A id \in TaskId : id < nextId /\ work'[id].state = "active" => work[id].state = "active"
  BY <1>1, NumbersKept
<1>3. owned \subseteq 1..(nextId - 1) /\ unheard \subseteq owned
  BY <1>1 DEF FlowsInv, ControlTypeOK
<1>4. owned' \subseteq 1..(nextId' - 1)
  <2>1. CASE owned' = owned \/ owned' = {}
    <3>1. 1..(nextId - 1) \subseteq 1..(nextId' - 1)
      BY <1>2, NumbersGrow
    <3> QED
      BY <1>3, <2>1, <3>1
  <2>2. CASE nextId' = nextId + 1 /\ owned' = owned \cup {nextId}
    <3>1. nextId \in 1..(nextId' - 1)
      <4>1. nextId >= 1
        BY <1>1 DEF TypeOK
      <4> QED
        BY <1>2, <2>2, <4>1
    <3> QED
      BY <1>2, <1>3, <2>2, <3>1
  <2> QED
    BY <2>1, <2>2, OwnedMoves DEF ownedVars
<1>5. ASSUME NEW id \in TaskId, id \in owned' \ unheard', work'[id].state = "active"
      PROVE  /\ id # 0 /\ ControlActive
             /\ \/ /\ AtWork(id)
                   /\ id = ownTask \/ (active /\ id = task)
                   /\ ~(caller \in {"play", "schedule"} /\ ~active)
                \/ id = nextId /\ (InputRunsTask \/ (SendStep /\ Submitted))
  <2>1. id # 0
    BY TaskNumbers
  <2>2. ASSUME id \in owned \ unheard
        PROVE  /\ ControlActive /\ AtWork(id)
               /\ id = ownTask \/ (active /\ id = task)
               /\ ~(caller \in {"play", "schedule"} /\ ~active)
    <3>1. id < nextId
      BY <1>2, <1>3, <2>2
    <3>2. AtWork(id)
      BY <1>2, <1>5, <2>2, <3>1 DEF AtWork
    <3> QED
      BY <3>2 DEF FlowsInv
  <2>3. \/ id \in owned \ unheard
        \/ id = nextId /\ ControlActive /\ (InputRunsTask \/ (SendStep /\ Submitted))
    BY <1>5, OwnedMoves DEF ownedVars
  <2> QED
    BY <2>1, <2>2, <2>3
<1> QED
  BY <1>4, <1>5

(* Whatever is at work for a run, the run goes on waiting for. *)
LEMMA WaitGoesOn ==
  ASSUME ControlInv, PollsInv, [Next]_vars,
         NEW id \in TaskId, id # 0, ControlActive, AtWork(id), work'[id].state = "active",
         id = ownTask \/ (active /\ id = task),
         ~(caller \in {"play", "schedule"} /\ ~active)
  PROVE  /\ ControlActive'
         /\ id = ownTask' \/ (active' /\ id = task')
         /\ ~(caller' \in {"play", "schedule"} /\ ~active')
<1> DEFINE Goal == /\ ControlActive'
                   /\ id = ownTask' \/ (active' /\ id = task')
                   /\ ~(caller' \in {"play", "schedule"} /\ ~active')
<1>1. ~NothingPends
  BY DEF NothingPends
<1>2. ownTask # 0 => ~active /\ caller # "hubPlay"
  BY DEF ControlInv, CallerInv
<1>3. CASE UNCHANGED <<run, ownTask, task, active>> /\ caller' \in {caller, "none", "inputs", "hubSchedule"}
  BY <1>3 DEF ControlActive
<1>4. CASE UNCHANGED <<dispatchVars, runVars>> /\ caller' \in {caller, "none", "inputs", "hubSchedule"}
  BY <1>3, <1>4 DEF dispatchVars, sequenceVars, runVars
<1>5. CASE StartRun \/ ContinueRun
  BY <1>1, <1>5 DEF StartRun, ContinueRun, Admissible
<1>6. CASE RequestStep
  <2>1. CASE InputPlays \/ InputSchedules \/ InputRunsTask
    BY <1>1, <2>1 DEF InputPlays, InputSchedules, InputRunsTask, AtInput
  <2>2. CASE InputCancels \/ PlayReturns \/ HubPlayReturns
    BY <1>4, <2>2 DEF InputCancels, PlayReturns, HubPlayReturns
  <2>3. CASE Returns
    BY <1>1, <1>4, <2>3 DEF Returns, FinishOrKeep
  <2>4. ASSUME Throw PROVE UNCHANGED runVars /\ caller' = "none"
    BY <1>1, <2>4 DEF Throw
  <2>5. CASE InputFails \/ PlayThrows
    BY <1>4, <2>4, <2>5 DEF InputFails, PlayThrows
  <2>6. CASE InputTaskLost
    BY <1>3, <2>4, <2>6 DEF InputTaskLost, sequenceVars, runVars
  <2>7. CASE ScheduleReturns \/ HubScheduleReturns
    BY <1>3, <2>7 DEF ScheduleReturns, HubScheduleReturns, SnapshotReturns, sequenceVars, runVars
  <2>8. CASE ScheduleThrows
    BY <1>3, <2>4, <2>8 DEF ScheduleThrows, SnapshotReturns, sequenceVars, runVars
  <2> QED
    BY <1>6, <2>1, <2>2, <2>3, <2>5, <2>6, <2>7, <2>8 DEF RequestStep
<1>7. CASE SequenceStep
  <2>1. ui # "idle" /\ (active' => active) /\ UNCHANGED <<caller, run, ownTask>>
    BY <1>7, SequenceMoves
  <2>2. task = 0
    BY <2>1 DEF ControlInv, IInv, TypeOK, FlowInv, CodeFitsSequence
  <2> QED
    BY <1>2, <2>1, <2>2 DEF ControlActive
<1>8. CASE TimerStep
  <2>1. (active' => active) /\ UNCHANGED controlVars
    BY <1>8, TimerMoves
  <2>2. CASE UNCHANGED sequenceVars
    BY <1>3, <2>1, <2>2 DEF controlVars, runVars, sequenceVars
  <2>3. CASE TickLastFinished \/ TickFinished \/ TickFailed
    <3>1. active /\ poll.task = task /\ poll # NoPoll /\ poll.reply \in {"finished", "failed", "stopped"}
      BY <2>3 DEF TickLastFinished, TickFinished, TickFailed, PollReady, Current
    <3>2. work[task].state # "active"
      BY <3>1 DEF PollsInv
    <3> QED
      BY <1>2, <3>1, <3>2 DEF AtWork
  <2> QED
    BY <1>8, <2>2, <2>3 DEF TimerStep, BeginPoll, TickIdle
<1>9. CASE OwnPollBegins \/ OwnPollAnswered \/ OwnPollErrs \/ OwnPollIdle
  BY <1>4, <1>9 DEF OwnPollBegins, OwnPollAnswered, OwnPollErrs, OwnPollIdle
<1>10. CASE OwnTaskEnds
  <2>1. ownTask # 0 /\ ownPoll # NoPoll /\ ownPoll.task = ownTask /\ ownPoll.reply \in {"finished", "failed", "stopped"}
    BY <1>10 DEF OwnTaskEnds, OwnPollReady
  <2>2. work[ownTask].state # "active"
    BY <2>1 DEF PollsInv
  <2> QED
    BY <1>2, <2>1, <2>2 DEF AtWork
<1>11. CASE Tick
  BY <1>1, <1>11 DEF Tick
<1>12. CASE StopRun
  <2>1. Retained = id
    BY <1>2 DEF Retained
  <2>2. ~StopsAll
    <3>1. ASSUME StopsAll PROVE work'[id].state # "active"
      BY <3>1 DEF StopsAll, AllStopped, ControlInv, IInv, TypeOK
    <3> QED
      BY <3>1
  <2>3. Pumping /\ ~active' /\ UNCHANGED caller /\ UNCHANGED run /\ ownTask' = id
    BY <1>12, <2>1, <2>2, StopMoves
  <2>4. ~(caller \in {"play", "schedule"} /\ active)
    <3>1. ASSUME caller \in {"play", "schedule"}, active PROVE FALSE
      <4>1. ui = "read"
        BY <2>3, <3>1, WhilePumping DEF ControlInv, ControlTypeOK
      <4> QED
        BY <1>2, <2>3, <3>1, <4>1, WhilePumping
    <3> QED
      BY <3>1
  <2> QED
    BY <2>3, <2>4 DEF ControlActive
<1>13. CASE UserOpens \/ UserCloses
  BY <1>4, <1>13 DEF UserOpens, UserCloses
<1>14. CASE UserRunsTask
  <2>1. ScheduledTask /\ UNCHANGED <<sequenceVars, run, caller>> /\ dialog # "none"
    BY <1>14 DEF UserRunsTask
  <2>2. ASSUME ~active PROVE FALSE
    <3>1. ownTask # 0 /\ caller \in {"hubPlay", "none", "inputs", "hubSchedule"}
      BY <2>2 DEF ControlInv, ControlTypeOK
    <3> QED
      BY <1>2, <2>1, <3>1 DEF ControlInv, CallerInv
  <2> QED
    BY <1>3, <2>1, <2>2 DEF ScheduledTask, sequenceVars
<1>15. CASE UserPlays
  <2>1. caller = "none" /\ dialog = "hub" /\ ~active
    BY <1>15 DEF UserPlays, Play, Pumping, Reading
  <2> QED
    BY <2>1 DEF ControlInv, CallerInv
<1>16. CASE UserSchedules
  BY <1>3, <1>16 DEF UserSchedules, SnapshotReads, sequenceVars, runVars
<1>17. CASE Quietly(PollAnswered \/ PollErrs) \/ Quietly(BackendStep) \/ UNCHANGED vars
  BY <1>3, <1>17 DEF Quietly, PollAnswered, PollErrs, BackendStep, controlVars, vars, dispatchVars, sequenceVars, runVars
<1> QED
  BY <1>5, <1>6, <1>7, <1>8, <1>9, <1>10, <1>11, <1>12, <1>13, <1>14, <1>15, <1>16, <1>17 DEF Next

(* The run waits for what the daemon has just confirmed. *)
LEMMA WaitBegins ==
  ASSUME ControlInv, [Next]_vars, ControlActive, InputRunsTask \/ (SendStep /\ Submitted)
  PROVE  /\ ControlActive'
         /\ nextId = ownTask' \/ (active' /\ nextId = task')
         /\ ~(caller' \in {"play", "schedule"} /\ ~active')
<1>1. CASE InputRunsTask
  BY <1>1 DEF InputRunsTask, AtInput, NothingPends, ScheduledTask, ControlActive
<1>2. CASE SendStep /\ Submitted
  <2>1. active' /\ task' = nextId /\ ui = "submit" /\ active
    BY <1>2 DEF Submitted, ControlInv, IInv, FlowInv, CodeFitsSequence
  <2>2. UNCHANGED run
    BY <1>2 DEF SendStep, runVars
  <2> QED
    BY <2>1, <2>2 DEF ControlActive
<1> QED
  BY <1>1, <1>2

(* One flow per run. *)
LEMMA FlowsKeep ==
  ASSUME ControlInv, PollsInv, FlowsInv, ~MayRestart, [Next]_vars
  PROVE  FlowsInv'
<1>1. ASSUME NEW id \in TaskId, id \in owned' \ unheard', work'[id].state = "active"
      PROVE  /\ ControlActive'
             /\ id = ownTask' \/ (active' /\ id = task')
             /\ ~(caller' \in {"play", "schedule"} /\ ~active')
  BY <1>1, AtWorkMoves, WaitGoesOn, WaitBegins
<1>2. owned' \subseteq 1..(nextId' - 1)
  BY AtWorkMoves
<1> QED
  BY <1>1, <1>2 DEF FlowsInv, AtWork


-----------------------------------------------------------------------------
(* The environment.                                                        *)

(* The end of a run puts back what was there before it. *)
LEMMA FinishRestores ==
  ASSUME ControlTypeOK, EnvironmentInv, ControlActive, FinishRun
  PROVE  ~ControlActive' /\ temporary' = FALSE /\ env' = "own" /\ disk' = "own"
<1>1. ~ControlActive' /\ temporary' = FALSE
  BY DEF FinishRun, ControlActive
<1>2. run.saved = "own" /\ disk = "own" /\ env \in {"own", "override"}
  BY DEF EnvironmentInv, ControlTypeOK, Environment
<1>3. CASE run.noReplace
  BY <1>1, <1>2, <1>3 DEF FinishRun
<1>4. CASE ~run.noReplace
  <2>1. ~temporary
    BY <1>4 DEF EnvironmentInv
  <2>2. env = "own"
    BY <1>2, <2>1 DEF EnvironmentInv
  <2> QED
    BY <1>1, <1>2, <1>4, <2>2 DEF FinishRun
<1> QED
  BY <1>3, <1>4

(* What is saved is never an override. *)
LEMMA SavedIsOwn ==
  ASSUME ControlTypeOK, EnvironmentInv
  PROVE  /\ Saved(env) = "own"
         /\ temporary = FALSE => env = "own"
         /\ CloseDialogs => disk' = "own" /\ dialog' = "none"
<1>1. disk = "own" /\ env \in {"own", "override"} /\ temporary \in BOOLEAN
  BY DEF EnvironmentInv, ControlTypeOK, Environment
<1>2. env = "override" => temporary
  BY DEF EnvironmentInv
<1>3. Saved(env) = "own"
  BY <1>1, <1>2 DEF Saved
<1> QED
  BY <1>1, <1>2, <1>3 DEF CloseDialogs

(* No step leaves an override behind, or saves one, if the user does not   *)
(* act on a dialog that waits for an include.                              *)
LEMMA EnvironmentKeeps ==
  ASSUME ControlInv, EnvironmentInv, ~ActsWhileReading, [Next]_vars
  PROVE  EnvironmentInv'
<1>0. ControlTypeOK /\ disk = "own"
  BY DEF ControlInv, EnvironmentInv
<1>1. snapshot <=> caller \in {"schedule", "hubSchedule"}
  BY DEF ControlInv, CallerInv
<1>2. ASSUME FinishRun, ControlActive, ~active', ~(snapshot' /\ ~cancelled')
      PROVE  EnvironmentInv'
  BY <1>0, <1>2, FinishRestores DEF EnvironmentInv
<1>3. ASSUME UNCHANGED <<run, temporary>>, disk' = "own",
             env' = "override" => temporary,
             source' = "override" /\ active' => temporary,
             source' = "override" /\ snapshot' /\ ~cancelled' => temporary,
             snapshot' /\ ~cancelled' => dialog' # "none"
      PROVE  EnvironmentInv'
  BY <1>3 DEF EnvironmentInv, ControlActive
<1>4. ASSUME UNCHANGED <<run, temporary>>, disk' = "own", UNCHANGED <<env, source>>, active' => active,
             ~(snapshot' /\ ~cancelled') \/ (UNCHANGED <<snapshot, cancelled>> /\ (dialog' # "none" \/ UNCHANGED dialog))
      PROVE  EnvironmentInv'
  <2>1. \/ ~(snapshot' /\ ~cancelled')
        \/ (snapshot' => snapshot) /\ (~cancelled' => ~cancelled) /\ (dialog' # "none" \/ UNCHANGED dialog)
    BY <1>4
  <2> QED
    BY <1>3, <1>4, <2>1 DEF EnvironmentInv
<1>5. ASSUME UNCHANGED <<dispatchVars, runVars, env, source>>, disk' = "own", ~snapshot
      PROVE  EnvironmentInv'
  BY <1>4, <1>5 DEF dispatchVars, sequenceVars, readVars, runVars
<1>6. ASSUME Throw, UNCHANGED active, ~snapshot' PROVE EnvironmentInv'
  <2>1. CASE ControlActive /\ NothingPends /\ FinishRun
    BY <1>2, <1>6, <2>1 DEF NothingPends
  <2>2. CASE UNCHANGED <<runVars, env>> /\ disk' \in {disk, Saved(env)} /\ UNCHANGED source
    BY <1>0, <1>4, <1>6, <2>2, SavedIsOwn DEF runVars
  <2> QED
    BY <1>6, <2>1, <2>2 DEF Throw
<1>7. CASE StartRun
  <2>1. PICK noReplace \in BOOLEAN :
          /\ run' = [noReplace |-> noReplace, saved |-> env]
          /\ temporary' = noReplace
          /\ env' = IF noReplace THEN "override" ELSE env
          /\ UNCHANGED <<dispatchVars, source>>
    BY <1>7 DEF StartRun, BeginFeeding
  <2>2. ~ControlActive /\ ~active /\ ~snapshot /\ UNCHANGED disk
    BY <1>7 DEF StartRun, Admissible, NothingPends, Reading
  <2>3. ~temporary /\ env = "own"
    BY <1>0, <2>2, SavedIsOwn DEF EnvironmentInv, ControlTypeOK
  <2>4. ~active' /\ ~snapshot'
    BY <2>1, <2>2 DEF dispatchVars, sequenceVars, readVars
  <2>5. run'.saved = "own" /\ run'.noReplace = noReplace
    BY <2>1, <2>3
  <2>6. ControlActive'
    <3>1. run' \in [noReplace : BOOLEAN, saved : Environment]
      BY <2>1, <2>3 DEF Environment
    <3> QED
      BY <3>1, ControlAssumption DEF ControlActive
  <2>7. temporary' <=> run'.noReplace
    BY <2>1, <2>5
  <2>8. env' = "override" => temporary'
    BY <2>1, <2>3
  <2> QED
    BY <1>0, <2>2, <2>4, <2>5, <2>6, <2>7, <2>8 DEF EnvironmentInv
<1>8. CASE ContinueRun
  <2>1. /\ temporary' = run.noReplace /\ UNCHANGED <<run, source, dispatchVars>>
        /\ env' = IF run.noReplace THEN "override" ELSE env
        /\ disk' = IF dialog = "hub" /\ ~run.noReplace THEN env ELSE disk
        /\ ControlActive /\ ~snapshot /\ ~active
    BY <1>8 DEF ContinueRun, BeginFeeding, Admissible, NothingPends, Reading
  <2>2. run.noReplace \in BOOLEAN /\ temporary \in BOOLEAN
    BY <1>0, <2>1 DEF ControlTypeOK, ControlActive
  <2>3. temporary' = temporary /\ run.noReplace = temporary
    BY <2>1, <2>2 DEF EnvironmentInv
  <2>4. disk' = "own"
    BY <1>0, <2>1, <2>2, <2>3, SavedIsOwn
  <2>5. env' = "override" => temporary
    BY <2>1, <2>3 DEF EnvironmentInv
  <2>6. ~snapshot' /\ ~active'
    BY <2>1 DEF dispatchVars, readVars, sequenceVars
  <2> QED
    BY <1>3, <2>1, <2>3, <2>4, <2>5, <2>6
<1>9. CASE RequestStep
  <2>1. CASE InputPlays \/ InputSchedules
    <3>1. UNCHANGED <<run, temporary, env, disk, dialog>> /\ source' = env /\ dialog # "none"
      BY <2>1 DEF InputPlays, InputSchedules, runVars
    <3>2. snapshot' => dialog' # "none"
      BY <3>1
    <3> QED
      BY <1>0, <1>3, <3>1, <3>2 DEF EnvironmentInv
  <2>2. CASE InputRunsTask
    <3>1. /\ caller = "inputs" /\ CloseDialogs
          /\ UNCHANGED <<sequenceVars, readVars, run, temporary, env, source>>
      BY <2>2 DEF InputRunsTask, AtInput
    <3> QED
      BY <1>0, <1>1, <1>4, <3>1, SavedIsOwn DEF sequenceVars, readVars
  <2>3. CASE InputCancels
    <3>1. caller = "inputs" /\ CloseDialogs /\ UNCHANGED <<dispatchVars, runVars, env, source>>
      BY <2>3 DEF InputCancels, AtInput
    <3> QED
      BY <1>0, <1>1, <1>5, <3>1, SavedIsOwn
  <2>4. CASE Returns
    <3>1. caller = "inputs" /\ UNCHANGED <<dispatchVars, dialog, source>>
      BY <2>4 DEF Returns
    <3>2. UNCHANGED <<active, snapshot>> /\ ~snapshot
      BY <1>1, <3>1 DEF dispatchVars, sequenceVars, readVars
    <3>3. CASE ControlActive /\ NothingPends /\ FinishRun
      BY <1>2, <3>2, <3>3 DEF NothingPends
    <3>4. CASE UNCHANGED <<runVars, env>> /\ disk' = Saved(env)
      BY <1>0, <1>5, <3>1, <3>2, <3>4, SavedIsOwn
    <3> QED
      BY <2>4, <3>3, <3>4 DEF Returns, FinishOrKeep
  <2>5. CASE InputFails \/ InputTaskLost \/ PlayThrows
    <3>1. caller \in {"inputs", "play"} /\ Throw /\ UNCHANGED <<sequenceVars, readVars>>
      BY <2>5 DEF InputFails, InputTaskLost, AtInput, PlayThrows, dispatchVars
    <3> QED
      BY <1>1, <1>6, <3>1 DEF sequenceVars, readVars
  <2>6. CASE ScheduleThrows
    BY <1>6, <2>6 DEF ScheduleThrows, SnapshotReturns, sequenceVars
  <2>7. CASE PlayReturns
    <3>1. caller = "play" /\ CloseDialogs /\ UNCHANGED <<dispatchVars, runVars, env, source>>
      BY <2>7 DEF PlayReturns
    <3> QED
      BY <1>0, <1>1, <1>5, <3>1, SavedIsOwn
  <2>8. CASE HubPlayReturns
    <3>1. caller = "hubPlay" /\ disk' = Saved(env) /\ UNCHANGED <<dispatchVars, runVars, env, source>>
      BY <2>8 DEF HubPlayReturns
    <3> QED
      BY <1>0, <1>1, <1>5, <3>1, SavedIsOwn
  <2>9. CASE ScheduleReturns \/ HubScheduleReturns
    <3>1. /\ snapshot /\ ~snapshot' /\ UNCHANGED <<active, run, temporary, source>>
          /\ UNCHANGED env \/ (~cancelled /\ Sets(source))
          /\ disk' \in {disk, Saved(env')}
      BY <2>9 DEF ScheduleReturns, HubScheduleReturns, SnapshotReturns, sequenceVars, runVars
    <3>2. env' = env \/ (env' = "override" /\ temporary)
      BY <3>1 DEF Sets, EnvironmentInv
    <3>3. disk' = "own"
      <4>1. CASE env' = env
        BY <1>0, <3>1, <4>1, SavedIsOwn
      <4>2. CASE temporary
        BY <1>0, <3>1, <4>2 DEF Saved
      <4> QED
        BY <3>2, <4>1, <4>2
    <3> QED
      BY <1>3, <3>1, <3>2, <3>3 DEF EnvironmentInv
  <2> QED
    BY <1>9, <2>1, <2>2, <2>3, <2>4, <2>5, <2>6, <2>7, <2>8, <2>9 DEF RequestStep
<1>10. CASE SequenceStep
  <2>1. (active' => active) /\ UNCHANGED <<snapshot, run, temporary, dialog, source>>
    BY <1>10, SequenceMoves
  <2>2. UNCHANGED cancelled \/ ~snapshot
    BY <1>10
    DEF SequenceStep, Quietly, SetStep, SegmentStep, SendStep, TokenStep, OpenIf, TakeElse, TakeEndIf, SkipToken, TakeAction,
        TakeSet, TakeWait, Include, MayInclude, TokenFails, BreakAtWait, EndOfScript, ReadStep, ReadReturns, ReadFails,
        EmptyLast, EmptySegment, SubmitRefused, Submitted, SubmitAnswerLost, compileOther, readVars
  <2>3. CASE UNCHANGED env /\ disk' \in {disk, Saved(env)}
    BY <1>0, <1>4, <2>1, <2>2, <2>3, SavedIsOwn
  <2>4. CASE SetStep
    <3>1. /\ env' = IF source = "override" THEN "override" ELSE env
          /\ UNCHANGED disk
      BY <2>4 DEF SetStep
    <3>2. active
      BY <2>4 DEF SetStep, TakeSet, AtToken, ControlInv, IInv, FlowInv, CodeFitsSequence
    <3>3. env' = "override" => temporary
      BY <3>1, <3>2 DEF EnvironmentInv
    <3> QED
      BY <1>0, <1>3, <2>1, <2>2, <3>1, <3>3 DEF EnvironmentInv
  <2>5. CASE SequenceStep /\ ~SetStep
    BY <2>3, <2>5 DEF SequenceStep, Quietly, SegmentStep, SendStep, controlVars
  <2> QED
    BY <1>10, <2>4, <2>5
<1>11. CASE TimerStep
  <2>1. (active' => active) /\ UNCHANGED snapshot /\ UNCHANGED controlVars
    BY <1>11, TimerMoves
  <2>2. UNCHANGED cancelled
    BY <1>11 DEF TimerStep, BeginPoll, TickIdle, TickLastFinished, TickFinished, TickFailed, readVars
  <2> QED
    BY <1>0, <1>4, <2>1, <2>2 DEF controlVars, runVars
<1>12. CASE OwnPollBegins \/ OwnPollAnswered \/ OwnPollErrs \/ OwnPollIdle
  <2>1. UNCHANGED <<dispatchVars, runVars, dialog, env, disk, source>>
    BY <1>12 DEF OwnPollBegins, OwnPollAnswered, OwnPollErrs, OwnPollIdle
  <2> QED
    BY <1>0, <1>4, <2>1 DEF dispatchVars, sequenceVars, readVars, runVars
<1>13. CASE OwnTaskEnds \/ Tick
  <2>1. UNCHANGED <<active, snapshot, cancelled, dialog, source>>
    BY <1>13 DEF OwnTaskEnds, Tick, dispatchVars, sequenceVars, readVars
  <2>2. CASE FinishRun /\ ControlActive /\ dialog = "none" /\ ~active
    BY <1>2, <2>1, <2>2 DEF EnvironmentInv
  <2>3. CASE UNCHANGED <<run, temporary, env, disk>>
    BY <1>0, <1>4, <2>1, <2>3
  <2> QED
    BY <1>13, <2>2, <2>3 DEF OwnTaskEnds, OwnPollReady, Tick, NothingPends
<1>14. CASE StopRun
  <2>1. ~active' /\ ~(snapshot' /\ ~cancelled') /\ UNCHANGED source
    BY <1>14, StopMoves
  <2>2. CASE FinishRun /\ ControlActive
    BY <1>2, <2>1, <2>2
  <2>3. CASE UNCHANGED <<run, temporary, env>> /\ disk' \in {disk, Saved(env)}
    BY <1>0, <1>4, <2>1, <2>3, SavedIsOwn
  <2> QED
    BY <1>14, <2>2, <2>3 DEF StopRun, EndRun, StopKey, runVars
<1>15. CASE UserOpens
  <2>1. UNCHANGED <<dispatchVars, runVars, env, disk, source>> /\ dialog' # "none"
    BY <1>15 DEF UserOpens
  <2> QED
    BY <1>0, <1>4, <2>1 DEF dispatchVars, sequenceVars, readVars, runVars
<1>16. CASE UserCloses
  <2>1. UNCHANGED <<dispatchVars, runVars, env, source>> /\ CloseDialogs /\ ~snapshot
    BY <1>16 DEF UserCloses, Reading
  <2> QED
    BY <1>0, <1>5, <2>1, SavedIsOwn
<1>17. CASE UserRunsTask
  <2>1. UNCHANGED <<sequenceVars, readVars, run, temporary, env, source>> /\ CloseDialogs /\ ~snapshot
    BY <1>17 DEF UserRunsTask, Reading
  <2> QED
    BY <1>0, <1>4, <2>1, SavedIsOwn DEF sequenceVars, readVars
<1>18. CASE UserPlays \/ UserSchedules
  <2>1. UNCHANGED <<run, temporary, env, disk, dialog>> /\ source' = env /\ dialog # "none"
    BY <1>18 DEF UserPlays, UserSchedules, runVars
  <2> QED
    BY <1>0, <1>3, <2>1 DEF EnvironmentInv
<1>19. CASE Quietly(PollAnswered \/ PollErrs) \/ Quietly(BackendStep) \/ UNCHANGED vars
  <2>1. UNCHANGED <<sequenceVars, readVars>> /\ UNCHANGED controlVars
    BY <1>19 DEF Quietly, PollAnswered, PollErrs, BackendStep, vars, dispatchVars
  <2> QED
    BY <1>0, <1>4, <2>1 DEF sequenceVars, readVars, controlVars, runVars
<1> QED
  BY <1>7, <1>8, <1>9, <1>10, <1>11, <1>12, <1>13, <1>14, <1>15, <1>16, <1>17, <1>18, <1>19 DEF Next

-----------------------------------------------------------------------------
(* The theorems.                                                           *)

(* At the start there is no run and no task. *)
LEMMA ControlBegins ==
  ASSUME Init
  PROVE  ControlInv /\ PollsInv /\ FlowsInv /\ EnvironmentInv
<1>1. IInv
  BY InvariantHolds DEF Init
<1>2. ControlTypeOK
  <2>1. feeding = (caller \in {"inputs", "play", "schedule"})
    <3>1. (caller \in {"inputs", "play", "schedule"}) = FALSE
      BY DEF Init
    <3> QED
      BY <3>1, Zenon DEF Init
  <2>2. 0 \in 0..MaxTasks
    BY BackendAssumption
  <2>3. temporary \in BOOLEAN
    BY DEF Init
  <2> QED
    BY <2>1, <2>2, <2>3 DEF Init, ControlTypeOK, Environment
<1>3. CallerInv
  BY DEF Init, DispatchInit, CallerInv
<1>4. PollsInv /\ FlowsInv /\ EnvironmentInv
  BY DEF Init, DispatchInit, BackendInit, PollsInv, FlowsInv, AtWork, EnvironmentInv, ControlActive
<1> QED
  BY <1>1, <1>2, <1>3, <1>4 DEF ControlInv

(* No step of a run disturbs the sequence, the types or the callers. *)
LEMMA ControlKeeps ==
  ASSUME ControlInv, [Next]_vars
  PROVE  ControlInv'
<1>1. IInv'
  BY ControlSteps, InvariantKept DEF ControlInv
<1>2. ControlTypeOK' /\ CallerInv'
  BY ControlTyped, CallerKeeps DEF ControlInv, IInv
<1> QED
  BY <1>1, <1>2 DEF ControlInv


(* Below the control API, too, a sequence has one task at a time, its      *)
(* tasks are the pieces of its script, its progress is exact, what it      *)
(* includes is sound, and every variable has its type.                     *)
THEOREM SequencesStayRight ==
  Spec => [](OneTaskAtATime /\ TasksFollowTheScript /\ ProgressIsExact /\ ExpansionIsSound /\ ControlTypeOK)
<1>1. ControlInv => ProgressIsExact /\ ExpansionIsSound
  BY ProgressFollows, StructureMatches DEF ControlInv, IInv, ExpansionIsSound, TextIsStructured
<1>2. ControlInv => OneTaskAtATime /\ TasksFollowTheScript /\ ControlTypeOK
  BY DEF ControlInv, IInv, FlowInv
<1> QED
  BY <1>1, <1>2, ControlBegins, ControlKeeps, PTL DEF Spec

(* And a sequence that was stopped sends nothing any more, whatever the    *)
(* runs and the user do.                                                   *)
THEOREM StoppedStaysSilent == Spec => StoppedSendsNothing
<1>1. ControlInv /\ [Next]_vars => [Silent]_dispatchVars
  BY ControlSteps, StoppedIsSilent DEF ControlInv
<1>2. [Silent]_dispatchVars =>
        [/\ \A id \in TaskId :
               work'[id].play > 0 /\ work'[id] # work[id] /\ work'[id].state = "active"
                 => work'[id].play \notin stopped
         /\ plays \in stopped /\ plays' = plays => sequence' = sequence]_dispatchVars
  BY DEF Silent
<1>3. Init => ControlInv
  BY ControlBegins
<1>4. ControlInv /\ [Next]_vars => ControlInv'
  BY ControlKeeps
<1> QED
  BY <1>1, <1>2, <1>3, <1>4, PTL DEF Spec, StoppedSendsNothing

(* No two tasks of a run are at work at once, be they of its inputs or its *)
(* sequences, however answers are lost and stops fail.  A number stands    *)
(* for one task only as long as the daemon is not restarted.               *)
THEOREM RunHasOneFlow ==
  ASSUME ~MayRestart
  PROVE  Spec => []OneFlowPerRun
<1> DEFINE Inv == ControlInv /\ PollsInv /\ FlowsInv
<1>1. Init => Inv
  BY ControlBegins
<1>2. Inv /\ [Next]_vars => Inv'
  BY ControlKeeps, PollsKeep, FlowsKeep
<1>3. Inv => OneFlowPerRun
  <2> SUFFICES ASSUME Inv,
                      NEW a \in owned \ unheard, NEW b \in owned \ unheard,
                      work[a].state = "active", work[b].state = "active"
               PROVE  a = b
    BY DEF OneFlowPerRun, ControlInv
  <2>1. a \in TaskId /\ b \in TaskId /\ a # 0 /\ b # 0
    <3>1. owned \subseteq TaskId
      BY DEF ControlInv, ControlTypeOK
    <3> QED
      BY <3>1, TaskNumbers
  <2>2. (a = ownTask \/ (active /\ a = task)) /\ (b = ownTask \/ (active /\ b = task))
    BY <2>1 DEF FlowsInv, AtWork
  <2>3. ownTask # 0 => ~active
    BY DEF ControlInv, CallerInv
  <2> QED
    BY <2>1, <2>2, <2>3
<1> HIDE DEF Inv
<1> QED
  BY <1>1, <1>2, <1>3, PTL DEF Spec

(* A run does not end before its tasks have: when none is active, nothing  *)
(* that was confirmed to the last one is at work.                          *)
THEOREM RunsEndLast ==
  ASSUME ~MayRestart
  PROVE  Spec => []RunOutlastsItsTasks
<1> DEFINE Inv == ControlInv /\ PollsInv /\ FlowsInv
<1>1. Init => Inv
  BY ControlBegins
<1>2. Inv /\ [Next]_vars => Inv'
  BY ControlKeeps, PollsKeep, FlowsKeep
<1>3. Inv => RunOutlastsItsTasks
  BY DEF ControlInv, ControlTypeOK, FlowsInv, AtWork, RunOutlastsItsTasks
<1> HIDE DEF Inv
<1> QED
  BY <1>1, <1>2, <1>3, PTL DEF Spec

(* When no run is active, nothing of an override is left, and none is ever *)
(* saved, as long as the user leaves the dialogs alone that wait for an    *)
(* include; that he need not is the finding of the run control_saved.      *)
LEMMA EnvironmentHolds ==
  ASSUME ~ActsWhileReading
  PROVE  Spec => [](ControlTypeOK /\ EnvironmentInv)
<1>1. Init => ControlInv /\ EnvironmentInv
  BY ControlBegins
<1>2. ControlInv /\ EnvironmentInv /\ [Next]_vars => ControlInv' /\ EnvironmentInv'
  BY ControlKeeps, EnvironmentKeeps
<1>3. ControlInv => ControlTypeOK
  BY DEF ControlInv
<1> QED
  BY <1>1, <1>2, <1>3, PTL DEF Spec

(* An override is gone when its run has ended, in whatever way it did. *)
THEOREM OverridesEnd ==
  ASSUME ~ActsWhileReading
  PROVE  Spec => []OverridesAreTemporary
<1>1. ControlTypeOK /\ EnvironmentInv => OverridesAreTemporary
  BY DEF ControlTypeOK, EnvironmentInv, OverridesAreTemporary, Environment
<1> QED
  BY <1>1, EnvironmentHolds, PTL

(* And no save on the way wrote it to the disk. *)
THEOREM OverridesStayUnsaved ==
  ASSUME ~ActsWhileReading
  PROVE  Spec => []OverridesNeverSaved
<1>1. EnvironmentInv => OverridesNeverSaved
  BY DEF EnvironmentInv, OverridesNeverSaved
<1> QED
  BY <1>1, EnvironmentHolds, PTL


=============================================================================
