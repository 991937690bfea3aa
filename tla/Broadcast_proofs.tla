-------------------------- MODULE Broadcast_proofs --------------------------
(***************************************************************************)
(* What Broadcast promises for any network, any routes in it that do not   *)
(* lead a node to itself, any messages, and any number of faults.          *)
(*                                                                         *)
(* A thread that waits is waited for in turn, so what is known of one      *)
(* thread rests on what is known of the others: that the answer to a call  *)
(* finds its caller waiting for it (Awaited) and that a node's own message *)
(* is never taken for a call (Disciplined) are proved together.            *)
(***************************************************************************)
EXTENDS Broadcast, SequenceLemmas

-----------------------------------------------------------------------------
(* A thread that is busy.                                                  *)
Job == [on : {"call"}, call : Call, todo : Seq(Nodes), wait : BOOLEAN]

NetTypes ==
    /\ sent \subseteq Messages
    /\ table \in [Nodes -> SUBSET (Messages \cup {NoId})]
    /\ inbox \in [Nodes -> Seq(Call)]
    /\ work \in [Nodes -> Job \cup {Free}]
    /\ got \subseteq Nodes \X Messages /\ dropped \subseteq Nodes \X Messages
    /\ second \in [Nodes -> Nat] /\ forgets \in [Nodes -> Nat]
    /\ faults \in 0..MaxFaults
    /\ \A n \in Nodes : forgets[n] <= faults

(* Only a call of the origin has an id.                                    *)
IdOfOrigin(c) == c.id # NoId => c.id = c.msg /\ Origin[c.msg] = c.from

(* What a thread works on: a broadcast of its own, which nobody waits for, *)
(* or a call of another node; it never calls itself.                       *)
JobOf(n, w) ==
    /\ w.todo \in Seq(Nodes \ {n})
    /\ w.wait => w.todo # <<>>
    /\ w.call.from = n => w.call.live /\ Origin[w.call.msg] = n
    /\ IdOfOrigin(w.call)

CallTo(n, c) == c.from # n /\ IdOfOrigin(c)

Disciplined ==
    /\ \A n \in Nodes : work[n] # Free => JobOf(n, work[n])
    /\ \A n \in Nodes : \A k \in DOMAIN inbox[n] : CallTo(n, inbox[n][k])

(* Where the calls are for which an answer counts: place 0 is in the       *)
(* peer's hands.                                                           *)
InQueue(n, p, k) ==
    k \in DOMAIN inbox[p] /\ inbox[p][k].from = n /\ inbox[p][k].live
InHand(n, p) ==
    p # n /\ work[p] # Free /\ work[p].call.from = n /\ work[p].call.live
LiveAt(n, p, k) == InQueue(n, p, k) \/ (k = 0 /\ InHand(n, p))

Awaits(n, p) == work[n] # Free /\ work[n].wait /\ p = Head(work[n].todo)

Awaited ==
    /\ \A n, p \in Nodes : \A k \in Nat : LiveAt(n, p, k) =>
          Awaits(n, p) /\ \A j \in Nat : LiveAt(n, p, j) => j = k
    /\ \A n, p \in Nodes : Awaits(n, p) => \E k \in Nat : LiveAt(n, p, k)

BcInv == NetTypes /\ Disciplined /\ Awaited

-----------------------------------------------------------------------------
(* What the thread of a node and the requests are made of.                 *)
LEMMA Parts ==
    ASSUME NetTypes
    PROVE  /\ \A n \in Nodes : work[n] # Free =>
                 /\ work[n] \in Job
                 /\ work[n].call \in Call /\ work[n].todo \in Seq(Nodes)
                 /\ work[n].wait \in BOOLEAN
           /\ \A n \in Nodes : IsFree(n) <=> work[n] = Free
           /\ \A n \in Nodes : Waiting(n) <=> work[n] # Free /\ work[n].wait
           /\ \A n \in Nodes : \A k \in DOMAIN inbox[n] : inbox[n][k] \in Call
           /\ \A n \in Nodes : inbox[n] \in Seq(Call)
BY DEF NetTypes, Job, IsFree, Waiting

LEMMA CallParts ==
    ASSUME NEW c \in Call
    PROVE  /\ c.msg \in Messages /\ c.id \in Messages \cup {NoId}
           /\ c.bcast \in BOOLEAN /\ c.from \in Nodes /\ c.live \in BOOLEAN
BY DEF Call

LEMMA ServingIsJob ==
    ASSUME NEW c \in Call, NEW todo \in Seq(Nodes)
    PROVE  /\ Serving(c, todo) \in Job /\ Serving(c, todo) # Free
           /\ Serving(c, todo).call = c /\ Serving(c, todo).todo = todo
           /\ Serving(c, todo).wait = FALSE
<1>1. Serving(c, todo).on = "call" /\ "call" # "nothing" /\ Free.on = "nothing"
  BY DEF Serving, Free
<1> QED
  BY <1>1 DEF Serving, Job

(* A node may send to any of its routes, and they are nodes.               *)
LEMMA RoutesAreNodes ==
    ASSUME NEW n \in Nodes
    PROVE  Routes[n] \in Seq(Nodes \ {n}) /\ Routes[n] \in Seq(Nodes)
BY RoutesAssumption

LEMMA RequestParts ==
    ASSUME NEW m \in Messages
    PROVE  /\ Request(m) \in Call /\ Request(m).from = Origin[m]
           /\ Request(m).msg = m /\ Request(m).live
           /\ Request(m).id # NoId => Request(m).id = m
           /\ Origin[m] \in Nodes /\ m # NoId
           /\ Request(m).bcast /\ Request(m).id = NoId => FALSE
           /\ IdOfOrigin(Request(m))
BY MessagesAssumption DEF Request, Call, IdOfOrigin

(* The request a node sends on is one its peers may get.                   *)
LEMMA OutgoingParts ==
    ASSUME NetTypes, Disciplined, NEW n \in Nodes, work[n] # Free
    PROVE  /\ Outgoing(n) \in Call
           /\ Outgoing(n).from = n /\ Outgoing(n).live
           /\ IdOfOrigin(Outgoing(n))
<1> DEFINE c == work[n].call
<1>1. c \in Call /\ JobOf(n, work[n])
  BY Parts DEF Disciplined
<1>2. CASE c.from = n
  BY <1>1, <1>2 DEF Outgoing, JobOf
<1>3. CASE c.from # n
  <2> DEFINE o == [c EXCEPT !.id = NoId, !.from = n, !.live = TRUE]
  <2>1. Outgoing(n) = o
    BY <1>3 DEF Outgoing
  <2>2. o \in Call /\ o.from = n /\ o.live /\ o.id = NoId
    BY <1>1 DEF Call
  <2> QED
    BY <2>1, <2>2 DEF IdOfOrigin
<1> QED
  BY <1>2, <1>3

-----------------------------------------------------------------------------
(* A thread that goes on with its next peer.                               *)
Released(w) == [w EXCEPT !.wait = FALSE, !.todo = Tail(@)]

LEMMA ReleasedParts ==
    ASSUME NEW n \in Nodes, NEW w \in Job, JobOf(n, w), w.wait
    PROVE  /\ Released(w) \in Job /\ Released(w) # Free
           /\ Released(w).call = w.call /\ ~Released(w).wait
           /\ Released(w).todo = Tail(w.todo)
           /\ JobOf(n, Released(w))
<1>1. w.todo \in Seq(Nodes) /\ w.todo \in Seq(Nodes \ {n}) /\ w.todo # <<>>
  BY DEF Job, JobOf
<1>2. Tail(w.todo) \in Seq(Nodes) /\ Tail(w.todo) \in Seq(Nodes \ {n})
  BY <1>1, TailIs
<1> DEFINE t == Tail(w.todo)
<1>3. /\ Released(w).on = "call" /\ Released(w).call = w.call
      /\ Released(w).wait = FALSE /\ Released(w).todo = t
      /\ Released(w) \in Job
  <2>1. t \in Seq(Nodes)
    BY <1>2
  <2> QED
    BY <2>1 DEF Released, Job
<1>4. Released(w) # Free
  <2>1. Free.on = "nothing" /\ "call" # "nothing"
    BY DEF Free
  <2> QED
    BY <1>3, <2>1
<1> QED
  BY <1>2, <1>3, <1>4 DEF JobOf

(* What becomes of the threads when n's goes on.                           *)
LEMMA ReleasedAt ==
    ASSUME NetTypes, NEW n \in Nodes
    PROVE  [work EXCEPT ![n].wait = FALSE, ![n].todo = Tail(@)]
             = [work EXCEPT ![n] = Released(work[n])]
BY DEF NetTypes, Released

LEMMA GoingOn ==
    ASSUME NetTypes, Disciplined, NEW n \in Nodes, work[n] # Free, work[n].wait
    PROVE  LET w == [work EXCEPT ![n].wait = FALSE, ![n].todo = Tail(@)]
           IN  /\ w \in [Nodes -> Job \cup {Free}]
               /\ w[n] # Free /\ w[n].call = work[n].call /\ ~w[n].wait
               /\ \A q \in Nodes \ {n} : w[q] = work[q]
               /\ \A q \in Nodes : w[q] # Free => JobOf(q, w[q])
<1> DEFINE r == Released(work[n])
           w == [work EXCEPT ![n] = r]
<1>1. work[n] \in Job /\ JobOf(n, work[n])
  BY Parts DEF Disciplined
<1>2. /\ r \in Job /\ r # Free /\ r.call = work[n].call /\ ~r.wait
      /\ JobOf(n, r)
  BY <1>1, ReleasedParts
<1>3. work \in [Nodes -> Job \cup {Free}]
  BY DEF NetTypes
<1>4. \A q \in Nodes : work[q] # Free => JobOf(q, work[q])
  BY DEF Disciplined
<1>5. w = [work EXCEPT ![n].wait = FALSE, ![n].todo = Tail(@)]
  BY ReleasedAt
<1> HIDE DEF r
<1>6. /\ w \in [Nodes -> Job \cup {Free}] /\ w[n] = r
      /\ \A q \in Nodes \ {n} : w[q] = work[q]
  BY <1>2, <1>3
<1> HIDE DEF w
<1>7. \A q \in Nodes : w[q] # Free => JobOf(q, w[q])
  BY <1>2, <1>4, <1>6
<1> QED
  BY <1>2, <1>5, <1>6, <1>7

(* A thread whose deadline has passed is done with its loop.               *)
Cut(w) == [w EXCEPT !.wait = FALSE, !.todo = <<>>]

LEMMA CutParts ==
    ASSUME NEW n \in Nodes, NEW w \in Job, JobOf(n, w)
    PROVE  /\ Cut(w) \in Job /\ Cut(w) # Free
           /\ Cut(w).call = w.call /\ ~Cut(w).wait /\ Cut(w).todo = <<>>
           /\ JobOf(n, Cut(w))
<1>1. /\ Cut(w).on = "call" /\ Cut(w).call = w.call
      /\ Cut(w).wait = FALSE /\ Cut(w).todo = <<>>
      /\ Cut(w) \in Job
  <2> DEFINE t == <<>>
  <2>1. Cut(w) = [w EXCEPT !.wait = FALSE, !.todo = t]
    BY DEF Cut
  <2>2. t \in Seq(Nodes) /\ t = <<>>
    OBVIOUS
  <2> HIDE DEF t
  <2> QED
    BY <2>1, <2>2 DEF Job
<1>2. Cut(w) # Free
  <2>1. Free.on = "nothing" /\ "call" # "nothing"
    BY DEF Free
  <2> QED
    BY <1>1, <2>1
<1>3. <<>> \in Seq(Nodes \ {n})
  OBVIOUS
<1> QED
  BY <1>1, <1>2, <1>3 DEF JobOf

LEMMA CuttingShort ==
    ASSUME NetTypes, Disciplined, NEW n \in Nodes, work[n] # Free
    PROVE  /\ CutShort(n) \in [Nodes -> Job \cup {Free}]
           /\ CutShort(n)[n] \in Job /\ JobOf(n, CutShort(n)[n])
           /\ CutShort(n)[n] # Free /\ CutShort(n)[n].call = work[n].call
           /\ ~CutShort(n)[n].wait
           /\ CutShort(n) = [work EXCEPT ![n] = CutShort(n)[n]]
           /\ \A q \in Nodes \ {n} : CutShort(n)[q] = work[q]
           /\ \A q \in Nodes : CutShort(n)[q] # Free => JobOf(q, CutShort(n)[q])
<1> DEFINE r == Cut(work[n])
           w == [work EXCEPT ![n] = r]
<1>1. work[n] \in Job /\ JobOf(n, work[n])
  BY Parts DEF Disciplined
<1>2. /\ r \in Job /\ r # Free /\ r.call = work[n].call /\ ~r.wait
      /\ JobOf(n, r)
  BY <1>1, CutParts
<1>3. work \in [Nodes -> Job \cup {Free}]
  BY DEF NetTypes
<1>4. \A q \in Nodes : work[q] # Free => JobOf(q, work[q])
  BY DEF Disciplined
<1>5. w = CutShort(n)
  BY <1>3 DEF CutShort, Cut
<1> HIDE DEF r
<1>6. /\ w \in [Nodes -> Job \cup {Free}] /\ w[n] = r
      /\ \A q \in Nodes \ {n} : w[q] = work[q]
      /\ w = [work EXCEPT ![n] = r]
  BY <1>2, <1>3
<1> HIDE DEF w
<1>7. \A q \in Nodes : w[q] # Free => JobOf(q, w[q])
  BY <1>2, <1>4, <1>6
<1> QED
  BY <1>2, <1>5, <1>6, <1>7

(* The calls that were not made are of nodes and messages.                 *)
LEMMA MissedParts ==
    ASSUME NEW n \in Nodes, NEW peers \in Seq(Nodes), work[n].call \in Call
    PROVE  Missed(n, peers) \subseteq Nodes \X Messages
<1>1. work[n].call.msg \in Messages
  BY CallParts
<1>2. \A p \in Range(peers) : p \in Nodes
  BY DEF Range
<1> QED
  BY <1>1, <1>2 DEF Missed

(* An answer that counts finds its caller waiting for it.                  *)
LEMMA AnswerIsAwaited ==
    ASSUME BcInv, NEW n \in Nodes, NEW p \in Nodes, NEW k \in Nat,
           LiveAt(n, p, k)
    PROVE  /\ work[n] # Free /\ work[n].wait /\ p = Head(work[n].todo)
           /\ \A q \in Nodes, j \in Nat : LiveAt(n, q, j) => q = p /\ j = k
BY DEF BcInv, Awaited, Awaits

(* What an answer does to the threads.                                     *)
LEMMA AnsweredParts ==
    ASSUME BcInv, NEW p \in Nodes, NEW c \in Call, c.from # p,
           NEW k \in Nat, c.live => LiveAt(c.from, p, k)
    PROVE  /\ Answered(work, c) \in [Nodes -> Job \cup {Free}]
           /\ \A q \in Nodes :
                 /\ ~(c.live /\ q = c.from) => Answered(work, c)[q] = work[q]
                 /\ Answered(work, c)[q] = Free <=> work[q] = Free
                 /\ work[q] # Free => Answered(work, c)[q].call = work[q].call
           /\ c.live => ~Answered(work, c)[c.from].wait
           /\ \A q \in Nodes : Answered(work, c)[q] # Free =>
                                   JobOf(q, Answered(work, c)[q])
<1> DEFINE w == [work EXCEPT ![c.from].wait = FALSE, ![c.from].todo = Tail(@)]
<1>1. /\ NetTypes /\ Disciplined /\ c.from \in Nodes
      /\ work \in [Nodes -> Job \cup {Free}]
      /\ \A q \in Nodes : work[q] # Free => JobOf(q, work[q])
  BY CallParts DEF BcInv, NetTypes, Disciplined
<1>2. CASE ~c.live
  BY <1>1, <1>2 DEF Answered
<1>3. CASE c.live
  <2>1. work[c.from] # Free /\ work[c.from].wait
    BY <1>1, <1>3, AnswerIsAwaited
  <2>2. /\ w \in [Nodes -> Job \cup {Free}]
        /\ w[c.from] # Free /\ w[c.from].call = work[c.from].call
        /\ ~w[c.from].wait
        /\ \A q \in Nodes \ {c.from} : w[q] = work[q]
        /\ \A q \in Nodes : w[q] # Free => JobOf(q, w[q])
    BY <1>1, <2>1, GoingOn
  <2>3. Answered(work, c) = w
    BY <1>3 DEF Answered
  <2> HIDE DEF w
  <2> QED
    BY <1>1, <1>3, <2>1, <2>2, <2>3
<1> QED
  BY <1>2, <1>3

-----------------------------------------------------------------------------
(* What every proof of a step starts from.                                 *)
LEMMA InvParts ==
    ASSUME BcInv
    PROVE  /\ sent \subseteq Messages
           /\ table \in [Nodes -> SUBSET (Messages \cup {NoId})]
           /\ inbox \in [Nodes -> Seq(Call)]
           /\ work \in [Nodes -> Job \cup {Free}]
           /\ got \subseteq Nodes \X Messages /\ dropped \subseteq Nodes \X Messages
           /\ second \in [Nodes -> Nat] /\ forgets \in [Nodes -> Nat]
           /\ faults \in 0..MaxFaults
           /\ \A n \in Nodes : forgets[n] <= faults
           /\ \A n \in Nodes : work[n] # Free => JobOf(n, work[n])
           /\ \A n \in Nodes : \A k \in DOMAIN inbox[n] : CallTo(n, inbox[n][k])
BY DEF BcInv, NetTypes, Disciplined

(* The parts of the invariant that a step leaves alone.                    *)
BooksTyped ==
    /\ sent \subseteq Messages
    /\ table \in [Nodes -> SUBSET (Messages \cup {NoId})]
    /\ got \subseteq Nodes \X Messages /\ dropped \subseteq Nodes \X Messages
    /\ second \in [Nodes -> Nat] /\ forgets \in [Nodes -> Nat]
    /\ faults \in 0..MaxFaults
    /\ \A n \in Nodes : forgets[n] <= faults

QueuesTyped ==
    /\ inbox \in [Nodes -> Seq(Call)]
    /\ \A n \in Nodes : \A k \in DOMAIN inbox[n] : CallTo(n, inbox[n][k])

ThreadsTyped ==
    /\ work \in [Nodes -> Job \cup {Free}]
    /\ \A n \in Nodes : work[n] # Free => JobOf(n, work[n])

LEMMA InvIs == BcInv <=> BooksTyped /\ QueuesTyped /\ ThreadsTyped /\ Awaited
BY DEF BcInv, NetTypes, Disciplined, BooksTyped, QueuesTyped, ThreadsTyped

LEMMA InvIsNext ==
    ASSUME BooksTyped', QueuesTyped', ThreadsTyped', Awaited'
    PROVE  BcInv'
BY DEF BcInv, NetTypes, Disciplined, BooksTyped, QueuesTyped, ThreadsTyped

LEMMA BooksUnchanged ==
    ASSUME BooksTyped,
           UNCHANGED <<sent, table, got, second, forgets, faults, dropped>>
    PROVE  BooksTyped'
BY DEF BooksTyped

LEMMA QueuesUnchanged ==
    ASSUME QueuesTyped, UNCHANGED inbox
    PROVE  QueuesTyped'
BY DEF QueuesTyped

(* The first request is taken from a queue.                                *)
LEMMA QueueShorter ==
    ASSUME QueuesTyped, NEW n \in Nodes, inbox[n] # <<>>,
           inbox' = [inbox EXCEPT ![n] = Tail(@)]
    PROVE  /\ QueuesTyped'
           /\ Head(inbox[n]) \in Call /\ CallTo(n, Head(inbox[n]))
           /\ \A q, p \in Nodes, k \in Nat :
                 InQueue(q, p, k)' <=> IF p = n THEN k # 0 /\ InQueue(q, n, k + 1)
                                       ELSE InQueue(q, p, k)
           /\ Head(inbox[n]).live => InQueue(Head(inbox[n]).from, n, 1)
<1> DEFINE s == inbox[n]
           t == Tail(inbox[n])
<1>1. /\ s \in Seq(Call) /\ s # <<>>
      /\ inbox \in [Nodes -> Seq(Call)]
      /\ \A p \in Nodes : \A k \in DOMAIN inbox[p] : CallTo(p, inbox[p][k])
  BY DEF QueuesTyped
<1>2. /\ Head(s) = s[1] /\ Head(s) \in Call /\ 1 \in DOMAIN s
      /\ t \in Seq(Call)
      /\ \A k \in Nat : k \in DOMAIN t <=> k # 0 /\ k + 1 \in DOMAIN s
      /\ \A k \in DOMAIN t : t[k] = s[k + 1]
  <2> HIDE DEF s
  <2>1. /\ Head(s) = s[1] /\ Head(s) \in Call /\ 1 \in DOMAIN s
        /\ Tail(s) \in Seq(Call)
        /\ \A k \in Nat : k \in DOMAIN Tail(s) <=> k # 0 /\ k + 1 \in DOMAIN s
        /\ \A k \in DOMAIN Tail(s) : Tail(s)[k] = s[k + 1]
    BY <1>1, TailIs
  <2>2. t = Tail(s)
    BY DEF s
  <2> HIDE DEF t
  <2> QED
    BY <2>1, <2>2
<1>3. /\ inbox' \in [Nodes -> Seq(Call)]
      /\ inbox'[n] = t /\ \A p \in Nodes \ {n} : inbox'[p] = inbox[p]
  BY <1>1, <1>2
<1>4. DOMAIN t \subseteq Nat
  BY <1>2
<1>5. inbox[n] = s
  OBVIOUS
<1> HIDE DEF s, t
<1>6. \A k \in DOMAIN t : CallTo(n, t[k])
  BY <1>1, <1>2, <1>4, <1>5
<1>7. QueuesTyped'
  BY <1>1, <1>3, <1>6 DEF QueuesTyped, CallTo, IdOfOrigin
<1>8. ASSUME NEW q \in Nodes, NEW p \in Nodes, NEW k \in Nat
      PROVE  InQueue(q, p, k)' <=> IF p = n THEN k # 0 /\ InQueue(q, n, k + 1)
                                   ELSE InQueue(q, p, k)
  <2>1. CASE p = n
    BY <1>2, <1>3, <1>5, <2>1 DEF InQueue
  <2>2. CASE p # n
    BY <1>3, <2>2 DEF InQueue
  <2> QED
    BY <2>1, <2>2
<1>9. CallTo(n, Head(s))
  BY <1>1, <1>2, <1>5
<1> QED
  BY <1>2, <1>5, <1>7, <1>8, <1>9 DEF InQueue

(* A request joins the queue of a peer.                                    *)
LEMMA QueueLonger ==
    ASSUME QueuesTyped, NEW p \in Nodes, NEW c \in Call, CallTo(p, c), c.live,
           inbox' = [inbox EXCEPT ![p] = Append(@, c)]
    PROVE  /\ QueuesTyped'
           /\ \A q, r \in Nodes, k \in Nat :
                 InQueue(q, r, k)' <=>
                     \/ InQueue(q, r, k)
                     \/ r = p /\ q = c.from /\ k = Len(inbox[p]) + 1
<1> DEFINE s == inbox[p]
           t == Append(inbox[p], c)
<1>1. /\ s \in Seq(Call)
      /\ inbox \in [Nodes -> Seq(Call)]
      /\ \A n \in Nodes : \A k \in DOMAIN inbox[n] : CallTo(n, inbox[n][k])
  BY DEF QueuesTyped
<1>2. /\ t \in Seq(Call) /\ Len(s) \in Nat
      /\ \A k \in Nat : k \in DOMAIN t <=> k \in DOMAIN s \/ k = Len(s) + 1
      /\ \A k \in DOMAIN s : t[k] = s[k]
      /\ t[Len(s) + 1] = c
      /\ Len(s) + 1 \notin DOMAIN s
      /\ DOMAIN t \subseteq Nat
  BY <1>1
<1>3. /\ inbox' \in [Nodes -> Seq(Call)]
      /\ inbox'[p] = t /\ \A r \in Nodes \ {p} : inbox'[r] = inbox[r]
  BY <1>1, <1>2
<1>4. inbox[p] = s
  OBVIOUS
<1> HIDE DEF s, t
<1>5. \A k \in DOMAIN t : CallTo(p, t[k])
  BY <1>1, <1>2, <1>4
<1>6. QueuesTyped'
  BY <1>1, <1>3, <1>5 DEF QueuesTyped, CallTo, IdOfOrigin
<1>7. ASSUME NEW q \in Nodes, NEW r \in Nodes, NEW k \in Nat
      PROVE  InQueue(q, r, k)' <=>
                 \/ InQueue(q, r, k)
                 \/ r = p /\ q = c.from /\ k = Len(inbox[p]) + 1
  <2>1. CASE r = p
    BY <1>2, <1>3, <1>4, <2>1 DEF InQueue
  <2>2. CASE r # p
    BY <1>3, <2>2 DEF InQueue
  <2> QED
    BY <2>1, <2>2
<1> QED
  BY <1>6, <1>7

(* A request in a queue is given up by its caller.                         *)
LEMMA QueueStale ==
    ASSUME QueuesTyped, NEW p \in Nodes, NEW k \in DOMAIN inbox[p],
           inbox' = [inbox EXCEPT ![p] = Stale(@, k)]
    PROVE  /\ QueuesTyped'
           /\ \A q, r \in Nodes, j \in Nat :
                 InQueue(q, r, j)' <=> InQueue(q, r, j) /\ ~(r = p /\ j = k)
<1> DEFINE s == inbox[p]
           d == [s[k] EXCEPT !.live = FALSE]
           t == [s EXCEPT ![k] = d]
<1>1. /\ s \in Seq(Call) /\ s[k] \in Call /\ k \in DOMAIN s
      /\ inbox \in [Nodes -> Seq(Call)]
      /\ \A n \in Nodes : \A j \in DOMAIN inbox[n] : CallTo(n, inbox[n][j])
  BY DEF QueuesTyped
<1>2. /\ d \in Call /\ d.from = s[k].from /\ d.id = s[k].id
      /\ d.msg = s[k].msg /\ ~d.live
  BY <1>1 DEF Call
<1>3. Stale(s, k) = t
  BY DEF Stale
<1>4. inbox[p] = s
  OBVIOUS
<1> HIDE DEF s, d
<1>5. /\ t \in Seq(Call) /\ DOMAIN t = DOMAIN s /\ t[k] = d
      /\ \A j \in DOMAIN s : j # k => t[j] = s[j]
  BY <1>1, <1>2
<1> HIDE DEF t
<1>6. /\ inbox' \in [Nodes -> Seq(Call)]
      /\ inbox'[p] = t /\ \A r \in Nodes \ {p} : inbox'[r] = inbox[r]
  BY <1>1, <1>3, <1>4, <1>5
<1>7. CallTo(p, d)
  BY <1>1, <1>2, <1>4 DEF CallTo, IdOfOrigin
<1>8. \A j \in DOMAIN t : CallTo(p, t[j])
  BY <1>1, <1>4, <1>5, <1>7
<1>9. QueuesTyped'
  BY <1>1, <1>6, <1>8 DEF QueuesTyped, CallTo, IdOfOrigin
<1>10. ASSUME NEW q \in Nodes, NEW r \in Nodes, NEW j \in Nat
       PROVE  InQueue(q, r, j)' <=> InQueue(q, r, j) /\ ~(r = p /\ j = k)
  <2>1. CASE r = p
    BY <1>2, <1>4, <1>5, <1>6, <2>1 DEF InQueue
  <2>2. CASE r # p
    BY <1>6, <2>2 DEF InQueue
  <2> QED
    BY <2>1, <2>2
<1> QED
  BY <1>9, <1>10

(* A request in a queue is cancelled.                                      *)
LEMMA QueueWithout ==
    ASSUME QueuesTyped, NEW p \in Nodes, NEW k \in DOMAIN inbox[p],
           inbox' = [inbox EXCEPT ![p] = RemoveAt(@, k)]
    PROVE  /\ QueuesTyped'
           /\ \A q, r \in Nodes, j \in Nat :
                 InQueue(q, r, j)' <=>
                     IF r # p THEN InQueue(q, r, j)
                     ELSE IF j < k THEN InQueue(q, p, j) ELSE InQueue(q, p, j + 1)
<1> DEFINE s == inbox[p]
           t == RemoveAt(inbox[p], k)
<1>1. /\ s \in Seq(Call) /\ k \in DOMAIN s
      /\ inbox \in [Nodes -> Seq(Call)]
      /\ \A n \in Nodes : \A j \in DOMAIN inbox[n] : CallTo(n, inbox[n][j])
  BY DEF QueuesTyped
<1>2. inbox[p] = s /\ RemoveAt(s, k) = t
  OBVIOUS
<1> HIDE DEF s, t
<1>3. /\ t \in Seq(Call)
      /\ Len(t) = Len(s) - 1
      /\ \A j \in 1..(Len(s) - 1) : t[j] = IF j < k THEN s[j] ELSE s[j + 1]
  <2>1. /\ RemoveAt(s, k) \in Seq(Call)
        /\ Len(RemoveAt(s, k)) = Len(s) - 1
        /\ \A j \in 1..(Len(s) - 1) :
              RemoveAt(s, k)[j] = IF j < k THEN s[j] ELSE s[j + 1]
    BY <1>1, RemovedAt
  <2> QED
    BY <1>2, <2>1
<1>4. /\ k \in 1..Len(s) /\ Len(s) \in Nat
      /\ DOMAIN s = 1..Len(s) /\ DOMAIN t = 1..(Len(s) - 1)
  BY <1>1, <1>3
<1>5. /\ inbox' \in [Nodes -> Seq(Call)]
      /\ inbox'[p] = t /\ \A r \in Nodes \ {p} : inbox'[r] = inbox[r]
  BY <1>1, <1>2, <1>3
<1>6. ASSUME NEW j \in DOMAIN t
      PROVE  CallTo(p, t[j])
  <2>1. j \in DOMAIN s /\ j + 1 \in DOMAIN s
    BY <1>4
  <2>2. t[j] = s[j] \/ t[j] = s[j + 1]
    BY <1>3, <1>4
  <2> QED
    BY <1>1, <1>2, <2>1, <2>2
<1>7. QueuesTyped'
  BY <1>1, <1>5, <1>6 DEF QueuesTyped, CallTo, IdOfOrigin
<1>8. ASSUME NEW q \in Nodes, NEW r \in Nodes, NEW j \in Nat
      PROVE  InQueue(q, r, j)' <=>
                 IF r # p THEN InQueue(q, r, j)
                 ELSE IF j < k THEN InQueue(q, p, j) ELSE InQueue(q, p, j + 1)
  <2>1. CASE r = p /\ j < k
    <3>1. j \in DOMAIN t <=> j \in DOMAIN s
      BY <1>4, <2>1
    <3>2. j \in DOMAIN t => t[j] = s[j]
      BY <1>3, <1>4, <2>1
    <3> QED
      BY <1>2, <1>5, <2>1, <3>1, <3>2 DEF InQueue
  <2>2. CASE r = p /\ ~(j < k)
    <3>1. j \in DOMAIN t <=> j + 1 \in DOMAIN s
      BY <1>4, <2>2
    <3>2. j \in DOMAIN t => t[j] = s[j + 1]
      BY <1>3, <1>4, <2>2
    <3> QED
      BY <1>2, <1>5, <2>2, <3>1, <3>2 DEF InQueue
  <2>3. CASE r # p
    BY <1>5, <2>3 DEF InQueue
  <2> QED
    BY <2>1, <2>2, <2>3
<1> QED
  BY <1>7, <1>8

(* One thread changes.                                                     *)
LEMMA ThreadSet ==
    ASSUME ThreadsTyped, NEW n \in Nodes, NEW w \in Job \cup {Free},
           w # Free => JobOf(n, w), work' = [work EXCEPT ![n] = w]
    PROVE  /\ ThreadsTyped'
           /\ work'[n] = w /\ \A q \in Nodes \ {n} : work'[q] = work[q]
<1>1. /\ work' \in [Nodes -> Job \cup {Free}]
      /\ work'[n] = w /\ \A q \in Nodes \ {n} : work'[q] = work[q]
  BY DEF ThreadsTyped
<1>2. \A q \in Nodes : work'[q] # Free => JobOf(q, work'[q])
  BY <1>1 DEF ThreadsTyped
<1> QED
  BY <1>1, <1>2 DEF ThreadsTyped, Free, JobOf, IdOfOrigin


-----------------------------------------------------------------------------
(* How Awaited fares when the live calls move: first, when n is done with  *)
(* the first request of its queue, which was f's and maybe live.           *)
LEMMA AwaitedServed ==
    ASSUME Awaited, NEW n \in Nodes, NEW f \in Nodes, NEW live \in BOOLEAN,
           \A q \in Nodes : ~LiveAt(q, n, 0),
           \A q \in Nodes : LiveAt(q, n, 1) <=> live /\ q = f,
           \A q, p \in Nodes : Awaits(q, p)' <=> Awaits(q, p) /\ ~(live /\ q = f),
           \A q, p \in Nodes, k \in Nat :
              LiveAt(q, p, k)' <=> IF p = n THEN k # 0 /\ LiveAt(q, n, k + 1)
                                   ELSE LiveAt(q, p, k)
    PROVE  Awaited'
<1>1. ASSUME NEW q \in Nodes, NEW p \in Nodes, NEW k \in Nat, LiveAt(q, p, k)'
      PROVE  Awaits(q, p)' /\ \A j \in Nat : LiveAt(q, p, j)' => j = k
  <2> DEFINE i == IF p = n THEN k + 1 ELSE k
  <2>1. i \in Nat /\ LiveAt(q, p, i) /\ (p = n => i # 1)
    BY <1>1
  <2>2. Awaits(q, p) /\ \A j \in Nat : LiveAt(q, p, j) => j = i
    BY <2>1 DEF Awaited
  <2>3. ~(live /\ q = f)
    <3> SUFFICES ASSUME live, q = f PROVE FALSE
      OBVIOUS
    <3>1. LiveAt(f, n, 1) /\ 1 \in Nat
      OBVIOUS
    <3>2. Awaits(f, n) /\ Awaits(f, p)
      BY <2>2, <3>1 DEF Awaited
    <3>3. p = n
      BY <3>2 DEF Awaits
    <3> QED
      BY <2>1, <2>2, <3>1, <3>3
  <2>4. \A j \in Nat : LiveAt(q, p, j)' => j = k
    BY <2>2
  <2> QED
    BY <2>2, <2>3, <2>4
<1>2. ASSUME NEW q \in Nodes, NEW p \in Nodes, Awaits(q, p)'
      PROVE  \E k \in Nat : LiveAt(q, p, k)'
  <2>1. Awaits(q, p) /\ ~(live /\ q = f)
    BY <1>2
  <2>2. PICK k \in Nat : LiveAt(q, p, k)
    BY <2>1 DEF Awaited
  <2>3. CASE p # n
    BY <2>2, <2>3
  <2>4. CASE p = n
    <3>1. k # 0 /\ k # 1
      BY <2>1, <2>2, <2>4
    <3>2. k - 1 \in Nat /\ k - 1 # 0 /\ (k - 1) + 1 = k
      BY <3>1
    <3>3. LiveAt(q, n, k - 1)'
      BY <2>2, <2>4, <3>2
    <3> QED
      BY <2>4, <3>2, <3>3
  <2> QED
    BY <2>3, <2>4
<1> QED
  BY <1>1, <1>2 DEF Awaited

(* When n takes the first request of its queue into its hands.             *)
LEMMA AwaitedTaken ==
    ASSUME Awaited, NEW n \in Nodes,
           \A q \in Nodes : ~LiveAt(q, n, 0),
           \A q, p \in Nodes : Awaits(q, p)' <=> Awaits(q, p),
           \A q, p \in Nodes, k \in Nat :
              LiveAt(q, p, k)' <=> IF p = n THEN LiveAt(q, n, k + 1)
                                   ELSE LiveAt(q, p, k)
    PROVE  Awaited'
<1>1. ASSUME NEW q \in Nodes, NEW p \in Nodes, NEW k \in Nat, LiveAt(q, p, k)'
      PROVE  Awaits(q, p)' /\ \A j \in Nat : LiveAt(q, p, j)' => j = k
  <2> DEFINE i == IF p = n THEN k + 1 ELSE k
  <2>1. i \in Nat /\ LiveAt(q, p, i)
    BY <1>1
  <2>2. Awaits(q, p) /\ \A j \in Nat : LiveAt(q, p, j) => j = i
    BY <2>1 DEF Awaited
  <2> QED
    BY <2>2
<1>2. ASSUME NEW q \in Nodes, NEW p \in Nodes, Awaits(q, p)'
      PROVE  \E k \in Nat : LiveAt(q, p, k)'
  <2>1. PICK k \in Nat : LiveAt(q, p, k)
    BY <1>2 DEF Awaited
  <2>2. CASE p # n
    BY <2>1, <2>2
  <2>3. CASE p = n
    <3>1. k - 1 \in Nat /\ (k - 1) + 1 = k
      BY <2>1, <2>3
    <3> QED
      BY <2>1, <2>3, <3>1
  <2> QED
    BY <2>2, <2>3
<1> QED
  BY <1>1, <1>2 DEF Awaited

(* When the call of f at place i of p, if it was live, is no longer.       *)
HeldFor(p, i, f, live) == \A q \in Nodes : LiveAt(q, p, i) <=> live /\ q = f
GoesOn(f, live) ==
    \A q, r \in Nodes : Awaits(q, r)' <=> Awaits(q, r) /\ ~(live /\ q = f)
Leaves(p, i) ==
    \A q, r \in Nodes, k \in Nat :
        LiveAt(q, r, k)' <=> LiveAt(q, r, k) /\ ~(r = p /\ k = i)

LEMMA AwaitedGone ==
    ASSUME Awaited, NEW f \in Nodes, NEW p \in Nodes, NEW i \in Nat,
           NEW live \in BOOLEAN,
           HeldFor(p, i, f, live), GoesOn(f, live), Leaves(p, i)
    PROVE  Awaited'
<1> USE DEF HeldFor, GoesOn, Leaves
<1>1. ASSUME NEW q \in Nodes, NEW r \in Nodes, NEW k \in Nat, LiveAt(q, r, k)'
      PROVE  Awaits(q, r)' /\ \A j \in Nat : LiveAt(q, r, j)' => j = k
  <2>1. LiveAt(q, r, k) /\ ~(r = p /\ k = i)
    BY <1>1
  <2>2. Awaits(q, r) /\ \A j \in Nat : LiveAt(q, r, j) => j = k
    BY <2>1 DEF Awaited
  <2>3. ~(live /\ q = f)
    <3> SUFFICES ASSUME live, q = f PROVE FALSE
      OBVIOUS
    <3>1. LiveAt(f, p, i)
      OBVIOUS
    <3>2. Awaits(f, p) /\ Awaits(f, r)
      BY <2>2, <3>1 DEF Awaited
    <3>3. r = p
      BY <3>2 DEF Awaits
    <3> QED
      BY <2>1, <2>2, <3>1, <3>3
  <2> QED
    BY <2>2, <2>3
<1>2. ASSUME NEW q \in Nodes, NEW r \in Nodes, Awaits(q, r)'
      PROVE  \E k \in Nat : LiveAt(q, r, k)'
  <2>1. Awaits(q, r) /\ ~(live /\ q = f)
    BY <1>2
  <2>2. PICK k \in Nat : LiveAt(q, r, k)
    BY <2>1 DEF Awaited
  <2> QED
    BY <2>1, <2>2
<1> QED
  BY <1>1, <1>2 DEF Awaited

(* When the one live call of f, at place i of p, leaves the queue.         *)
HeldOnlyFor(p, i, f) == \A q \in Nodes : LiveAt(q, p, i) <=> q = f
GivesUp(f) == \A q, r \in Nodes : Awaits(q, r)' <=> Awaits(q, r) /\ q # f
ClosesUp(p, i) ==
    \A q, r \in Nodes, k \in Nat :
        LiveAt(q, r, k)' <=> IF r # p \/ k < i THEN LiveAt(q, r, k)
                             ELSE LiveAt(q, p, k + 1)

LEMMA AwaitedCancelled ==
    ASSUME Awaited, NEW f \in Nodes, NEW p \in Nodes, NEW i \in Nat, i # 0,
           HeldOnlyFor(p, i, f), GivesUp(f), ClosesUp(p, i)
    PROVE  Awaited'
<1> USE DEF HeldOnlyFor, GivesUp, ClosesUp
<1>1. ASSUME NEW q \in Nodes, NEW r \in Nodes, NEW k \in Nat, LiveAt(q, r, k)'
      PROVE  Awaits(q, r)' /\ \A j \in Nat : LiveAt(q, r, j)' => j = k
  <2> DEFINE g == IF r # p \/ k < i THEN k ELSE k + 1
  <2>1. g \in Nat /\ LiveAt(q, r, g) /\ ~(r = p /\ g = i)
    BY <1>1
  <2>2. Awaits(q, r) /\ \A j \in Nat : LiveAt(q, r, j) => j = g
    BY <2>1 DEF Awaited
  <2>3. q # f
    <3> SUFFICES ASSUME q = f PROVE FALSE
      OBVIOUS
    <3>1. LiveAt(f, p, i)
      OBVIOUS
    <3>2. Awaits(f, p) /\ Awaits(f, r)
      BY <2>2, <3>1 DEF Awaited
    <3>3. r = p
      BY <3>2 DEF Awaits
    <3> QED
      BY <2>1, <2>2, <3>1, <3>3
  <2>4. \A j \in Nat : LiveAt(q, r, j)' => j = k
    BY <2>2
  <2> QED
    BY <2>2, <2>3, <2>4
<1>2. ASSUME NEW q \in Nodes, NEW r \in Nodes, Awaits(q, r)'
      PROVE  \E k \in Nat : LiveAt(q, r, k)'
  <2>1. Awaits(q, r) /\ q # f
    BY <1>2
  <2>2. PICK k \in Nat : LiveAt(q, r, k)
    BY <2>1 DEF Awaited
  <2>3. CASE r # p \/ k < i
    BY <2>2, <2>3
  <2>4. CASE r = p /\ ~(k < i)
    <3>1. k # i
      BY <2>1, <2>2, <2>4
    <3>2. k - 1 \in Nat /\ (k - 1) + 1 = k /\ ~(k - 1 < i)
      BY <2>4, <3>1
    <3>3. LiveAt(q, r, k - 1)'
      BY <2>2, <2>4, <3>2
    <3> QED
      BY <3>2, <3>3
  <2> QED
    BY <2>3, <2>4
<1> QED
  BY <1>1, <1>2 DEF Awaited

-----------------------------------------------------------------------------
(* The steps, one by one.                                                  *)
LEMMA FreeThread ==
    ASSUME BcInv, NEW n \in Nodes, IsFree(n)
    PROVE  /\ work[n] = Free
           /\ \A p \in Nodes : ~Awaits(n, p) /\ ~InHand(p, n)
BY DEF IsFree, Awaits, InHand

LEMMA SendStep ==
    ASSUME BcInv, NEW m \in Messages, Send(m)
    PROVE  BcInv'
<1> DEFINE n == Origin[m]
           w == Serving(Request(m), Routes[n])
<1>1. /\ BooksTyped /\ QueuesTyped /\ ThreadsTyped /\ Awaited
  BY InvIs
<1>2. /\ n \in Nodes /\ Request(m) \in Call /\ Request(m).from = n
      /\ Request(m).msg = m /\ Request(m).live /\ IdOfOrigin(Request(m))
  BY RequestParts
<1>3. /\ w \in Job /\ w # Free /\ w.call = Request(m)
      /\ w.todo = Routes[n] /\ w.wait = FALSE
  BY <1>2, RoutesAreNodes, ServingIsJob
<1>4. JobOf(n, w)
  BY <1>2, <1>3, RoutesAreNodes DEF JobOf
<1>5. work' = [work EXCEPT ![n] = w] /\ IsFree(n) /\ UNCHANGED inbox
  BY DEF Send
<1> HIDE DEF w
<1>6. /\ ThreadsTyped'
      /\ work'[n] = w /\ \A q \in Nodes \ {n} : work'[q] = work[q]
  BY <1>1, <1>2, <1>3, <1>4, <1>5, ThreadSet
<1>7. QueuesTyped'
  BY <1>1, <1>5, QueuesUnchanged
<1>8. BooksTyped'
  BY <1>1, <1>2 DEF BooksTyped, Send
<1>9. Awaited'
  <2>1. /\ work[n] = Free
        /\ \A p \in Nodes : ~Awaits(n, p) /\ ~InHand(p, n)
    BY <1>2, <1>5, FreeThread
  <2>2. \A q, p \in Nodes : Awaits(q, p)' <=> Awaits(q, p)
    BY <1>2, <1>3, <1>6, <2>1 DEF Awaits
  <2>3. \A q, p \in Nodes : InHand(q, p)' <=> InHand(q, p)
    BY <1>2, <1>3, <1>6, <2>1 DEF InHand
  <2>4. \A q, p \in Nodes, k \in Nat : InQueue(q, p, k)' <=> InQueue(q, p, k)
    BY <1>5 DEF InQueue
  <2>5. \A q, p \in Nodes, k \in Nat : LiveAt(q, p, k)' <=> LiveAt(q, p, k)
    BY <2>3, <2>4 DEF LiveAt
  <2> QED
    BY <1>1, <2>2, <2>5 DEF Awaited
<1> QED
  BY <1>6, <1>7, <1>8, <1>9, InvIsNext

LEMMA CallPeerStep ==
    ASSUME BcInv, NEW n \in Nodes, CallPeer(n)
    PROVE  BcInv'
<1> DEFINE w == [work[n] EXCEPT !.wait = TRUE]
           h == Head(work[n].todo)
           c == Outgoing(n)
<1>1. /\ BooksTyped /\ QueuesTyped /\ ThreadsTyped /\ Awaited
      /\ NetTypes /\ Disciplined
  BY InvIs DEF BcInv
<1>2. /\ work[n] # Free /\ ~work[n].wait /\ work[n].todo # <<>>
      /\ work[n] \in Job /\ JobOf(n, work[n])
  BY <1>1, Parts DEF CallPeer, Disciplined
<1>3. h \in Nodes \ {n}
  <2>1. work[n].todo \in Seq(Nodes \ {n})
    BY <1>2 DEF JobOf
  <2> QED
    BY <1>2, <2>1, TailIs
<1>4. c \in Call /\ c.from = n /\ c.live /\ CallTo(h, c)
  BY <1>1, <1>2, <1>3, OutgoingParts DEF CallTo
<1>5. /\ w \in Job /\ w # Free /\ w.call = work[n].call
      /\ w.todo = work[n].todo /\ w.wait = TRUE
  <2>1. w \in Job /\ w.call = work[n].call /\ w.todo = work[n].todo /\ w.wait = TRUE
        /\ w.on = "call"
    BY <1>2 DEF Job
  <2>2. Free.on = "nothing" /\ "call" # "nothing"
    BY DEF Free
  <2> QED
    BY <2>1, <2>2
<1>6. JobOf(n, w)
  BY <1>2, <1>5 DEF JobOf
<1>7. work' = [work EXCEPT ![n] = w]
  BY <1>1 DEF CallPeer, NetTypes
<1>8. inbox' = [inbox EXCEPT ![h] = Append(@, c)]
  BY DEF CallPeer
<1> HIDE DEF w, c
<1>9. /\ ThreadsTyped'
      /\ work'[n] = w /\ \A q \in Nodes \ {n} : work'[q] = work[q]
  BY <1>1, <1>5, <1>6, <1>7, ThreadSet
<1>10. /\ QueuesTyped'
       /\ \A q, r \in Nodes, k \in Nat :
             InQueue(q, r, k)' <=>
                 \/ InQueue(q, r, k)
                 \/ r = h /\ q = c.from /\ k = Len(inbox[h]) + 1
  BY <1>1, <1>3, <1>4, <1>8, QueueLonger
<1>11. BooksTyped'
  BY <1>1, BooksUnchanged DEF CallPeer
<1>12. Awaited'
  <2>1. \A r \in Nodes : ~Awaits(n, r)
    BY <1>2 DEF Awaits
  <2>2. \A q, r \in Nodes : Awaits(q, r)' <=> Awaits(q, r) \/ (q = n /\ r = h)
    BY <1>2, <1>5, <1>9 DEF Awaits
  <2>3. \A q, r \in Nodes : InHand(q, r)' <=> InHand(q, r)
    BY <1>2, <1>5, <1>9 DEF InHand
  <2>4. \A q, r \in Nodes, k \in Nat :
           LiveAt(q, r, k)' <=> LiveAt(q, r, k)
                                \/ (q = n /\ r = h /\ k = Len(inbox[h]) + 1)
    BY <1>4, <1>10, <2>3 DEF LiveAt
  <2>5. Len(inbox[h]) + 1 \in Nat
    BY <1>1, <1>3 DEF QueuesTyped
  <2> DEFINE i == Len(inbox[h]) + 1
  <2>6. i \in Nat /\ h \in Nodes /\ Awaited
    BY <1>1, <1>3, <2>5
  <2>7. \A q, r \in Nodes, k \in Nat :
           LiveAt(q, r, k)' <=> LiveAt(q, r, k) \/ (q = n /\ r = h /\ k = i)
    BY <2>4
  <2> HIDE DEF i, h
  <2>8. \A r \in Nodes, k \in Nat : ~LiveAt(n, r, k)
    BY <1>1, <2>1 DEF Awaited
  <2> QED
    BY <2>2, <2>6, <2>7, <2>8 DEF Awaited
<1> QED
  BY <1>9, <1>10, <1>11, <1>12, InvIsNext

(* The first request in the queue of a free thread is the only one that    *)
(* can be live for its caller.                                             *)
LEMMA FirstCall ==
    ASSUME BcInv, NEW n \in Nodes, IsFree(n), inbox[n] # <<>>
    PROVE  /\ Head(inbox[n]) \in Call /\ CallTo(n, Head(inbox[n]))
           /\ Head(inbox[n]).from \in Nodes /\ Head(inbox[n]).live \in BOOLEAN
           /\ \A q \in Nodes : ~LiveAt(q, n, 0)
           /\ \A q \in Nodes : LiveAt(q, n, 1) <=>
                 Head(inbox[n]).live /\ q = Head(inbox[n]).from
<1>1. /\ QueuesTyped /\ inbox[n] \in Seq(Call)
  BY InvIs DEF QueuesTyped
<1>2. /\ Head(inbox[n]) = inbox[n][1] /\ Head(inbox[n]) \in Call
      /\ 1 \in DOMAIN inbox[n] /\ 0 \notin DOMAIN inbox[n]
  BY <1>1, TailIs
<1>3. \A q \in Nodes : ~InHand(q, n)
  BY FreeThread
<1>4. CallTo(n, Head(inbox[n]))
  BY <1>1, <1>2 DEF QueuesTyped
<1>5. \A q \in Nodes : ~LiveAt(q, n, 0)
  BY <1>2, <1>3 DEF LiveAt, InQueue
<1>6. \A q \in Nodes : LiveAt(q, n, 1) <=>
         Head(inbox[n]).live /\ q = Head(inbox[n]).from
  BY <1>2, <1>3 DEF LiveAt, InQueue
<1> QED
  BY <1>2, <1>4, <1>5, <1>6, CallParts

(* A request is answered at once: a duplicate or a one-hop message.        *)
LEMMA ServedStep ==
    ASSUME BcInv, NEW n \in Nodes, IsFree(n), inbox[n] # <<>>,
           work' = Answered(work, Head(inbox[n])),
           inbox' = [inbox EXCEPT ![n] = Tail(@)]
    PROVE  QueuesTyped' /\ ThreadsTyped' /\ Awaited'
<1> DEFINE c == Head(inbox[n])
<1>1. QueuesTyped /\ ThreadsTyped /\ Awaited
  BY InvIs
<1>2. /\ c \in Call /\ CallTo(n, c) /\ c.from \in Nodes /\ c.live \in BOOLEAN
      /\ \A q \in Nodes : ~LiveAt(q, n, 0)
      /\ \A q \in Nodes : LiveAt(q, n, 1) <=> c.live /\ q = c.from
  BY FirstCall
<1>3. /\ QueuesTyped'
      /\ \A q, p \in Nodes, k \in Nat :
            InQueue(q, p, k)' <=> IF p = n THEN k # 0 /\ InQueue(q, n, k + 1)
                                  ELSE InQueue(q, p, k)
  BY <1>1, QueueShorter
<1> HIDE DEF c
<1>4. c.from # n /\ 1 \in Nat /\ (c.live => LiveAt(c.from, n, 1))
  BY <1>2 DEF CallTo
<1>5. work' = Answered(work, c)
  BY DEF c
<1>6. /\ work' \in [Nodes -> Job \cup {Free}]
      /\ \A q \in Nodes :
            /\ ~(c.live /\ q = c.from) => work'[q] = work[q]
            /\ work'[q] = Free <=> work[q] = Free
            /\ work[q] # Free => work'[q].call = work[q].call
      /\ c.live => ~work'[c.from].wait
      /\ \A q \in Nodes : work'[q] # Free => JobOf(q, work'[q])
  BY <1>2, <1>4, <1>5, AnsweredParts
<1>7. ThreadsTyped'
  BY <1>6 DEF ThreadsTyped, Free, JobOf, IdOfOrigin
<1>8. \A q, p \in Nodes : Awaits(q, p)' <=> Awaits(q, p) /\ ~(c.live /\ q = c.from)
  BY <1>6 DEF Awaits, Free
<1>9. \A q, p \in Nodes : InHand(q, p)' <=> InHand(q, p)
  BY <1>6 DEF InHand, Free
<1>10. \A q \in Nodes : ~InHand(q, n)
  BY FreeThread
<1>11. \A q, p \in Nodes, k \in Nat :
          LiveAt(q, p, k)' <=> IF p = n THEN k # 0 /\ LiveAt(q, n, k + 1)
                               ELSE LiveAt(q, p, k)
  BY <1>3, <1>9, <1>10 DEF LiveAt
<1>12. Awaited'
  <2> DEFINE f == c.from
             live == c.live
  <2>1. /\ f \in Nodes /\ live \in BOOLEAN
        /\ \A q \in Nodes : ~LiveAt(q, n, 0)
    BY <1>2
  <2>2. \A q \in Nodes : LiveAt(q, n, 1) <=> live /\ q = f
    BY <1>2
  <2>3. \A q, p \in Nodes : Awaits(q, p)' <=> Awaits(q, p) /\ ~(live /\ q = f)
    BY <1>8
  <2> HIDE DEF f, live
  <2> QED
    BY <1>1, <1>11, <2>1, <2>2, <2>3, AwaitedServed
<1> QED
  BY <1>3, <1>7, <1>12

LEMMA HandleBooks ==
    ASSUME BooksTyped, NEW n \in Nodes, NEW c \in Call, Handle(n, c),
           UNCHANGED <<sent, table, forgets, faults, dropped>>
    PROVE  BooksTyped'
<1>1. c.msg \in Messages
  BY CallParts
<1>2. got' \subseteq Nodes \X Messages
  BY <1>1 DEF Handle, BooksTyped
<1>3. second' \in [Nodes -> Nat]
  BY DEF Handle, BooksTyped
<1> QED
  BY <1>2, <1>3 DEF BooksTyped

LEMMA ServeDuplicateStep ==
    ASSUME BcInv, NEW n \in Nodes, ServeDuplicate(n)
    PROVE  BcInv'
<1>1. QueuesTyped' /\ ThreadsTyped' /\ Awaited'
  BY ServedStep DEF ServeDuplicate
<1>2. BooksTyped'
  BY InvIs, BooksUnchanged DEF ServeDuplicate
<1> QED
  BY <1>1, <1>2, InvIsNext

LEMMA ServeOneHopStep ==
    ASSUME BcInv, NEW n \in Nodes, ServeOneHop(n)
    PROVE  BcInv'
<1>1. QueuesTyped' /\ ThreadsTyped' /\ Awaited'
  BY ServedStep DEF ServeOneHop
<1>2. BooksTyped'
  <2>1. Head(inbox[n]) \in Call
    BY FirstCall DEF ServeOneHop
  <2> QED
    BY <2>1, InvIs, HandleBooks DEF ServeOneHop
<1> QED
  BY <1>1, <1>2, InvIsNext

LEMMA ServeBroadcastStep ==
    ASSUME BcInv, NEW n \in Nodes, ServeBroadcast(n)
    PROVE  BcInv'
<1> DEFINE c == Head(inbox[n])
           w == Serving(c, Onward(n, c))
<1>1. /\ BooksTyped /\ QueuesTyped /\ ThreadsTyped /\ Awaited
      /\ IsFree(n) /\ inbox[n] # <<>>
      /\ inbox' = [inbox EXCEPT ![n] = Tail(@)]
      /\ work' = [work EXCEPT ![n] = w]
  BY InvIs DEF ServeBroadcast
<1>2. /\ c \in Call /\ CallTo(n, c) /\ c.from \in Nodes /\ c.live \in BOOLEAN
      /\ \A q \in Nodes : ~LiveAt(q, n, 0)
      /\ \A q \in Nodes : LiveAt(q, n, 1) <=> c.live /\ q = c.from
  BY <1>1, FirstCall
<1>3. /\ QueuesTyped'
      /\ \A q, p \in Nodes, k \in Nat :
            InQueue(q, p, k)' <=> IF p = n THEN k # 0 /\ InQueue(q, n, k + 1)
                                  ELSE InQueue(q, p, k)
  BY <1>1, QueueShorter
<1>4. BooksTyped'
  <2>1. c.id \in Messages \cup {NoId} /\ table' = [table EXCEPT ![n] = @ \cup {c.id}]
    BY <1>2, CallParts DEF ServeBroadcast, Filed
  <2>2. table' \in [Nodes -> SUBSET (Messages \cup {NoId})]
    BY <1>1, <2>1 DEF BooksTyped
  <2> QED
    BY <1>1, <2>2 DEF BooksTyped, ServeBroadcast
<1>5. /\ Onward(n, c) \in Seq(Nodes) /\ Onward(n, c) \in Seq(Nodes \ {n})
  BY RoutesAreNodes DEF Onward
<1> HIDE DEF c
<1>6. /\ w \in Job /\ w # Free /\ w.call = c
      /\ w.todo = Onward(n, c) /\ w.wait = FALSE
  BY <1>2, <1>5, ServingIsJob
<1>7. JobOf(n, w)
  BY <1>2, <1>5, <1>6 DEF JobOf, CallTo
<1> HIDE DEF w
<1>8. /\ ThreadsTyped'
      /\ work'[n] = w /\ \A q \in Nodes \ {n} : work'[q] = work[q]
  BY <1>1, <1>6, <1>7, ThreadSet
<1>9. Awaited'
  <2>1. /\ work[n] = Free
        /\ \A p \in Nodes : ~Awaits(n, p) /\ ~InHand(p, n)
    BY <1>1, FreeThread
  <2>2. \A q, p \in Nodes : Awaits(q, p)' <=> Awaits(q, p)
    BY <1>6, <1>8, <2>1 DEF Awaits
  <2>3. \A q, p \in Nodes : p # n => (InHand(q, p)' <=> InHand(q, p))
    BY <1>8 DEF InHand
  <2>4. \A q \in Nodes : InHand(q, n)' <=> c.live /\ q = c.from
    BY <1>2, <1>6, <1>8 DEF InHand, Free, CallTo
  <2>5. \A q \in Nodes : InQueue(q, n, 1) <=> c.live /\ q = c.from
    BY <1>2 DEF LiveAt
  <2>6. \A q \in Nodes, k \in Nat :
           LiveAt(q, n, k)' <=> LiveAt(q, n, k + 1)
    <3> SUFFICES ASSUME NEW q \in Nodes, NEW k \in Nat
                 PROVE  LiveAt(q, n, k)' <=> LiveAt(q, n, k + 1)
      OBVIOUS
    <3>1. LiveAt(q, n, k + 1) <=> InQueue(q, n, k + 1)
      BY DEF LiveAt
    <3>2. CASE k = 0
      <4>1. ~InQueue(q, n, k)'
        BY <1>3, <3>2
      <4>2. LiveAt(q, n, k)' <=> InHand(q, n)'
        BY <3>2, <4>1 DEF LiveAt
      <4> QED
        BY <2>4, <2>5, <3>1, <3>2, <4>2
    <3>3. CASE k # 0
      <4>1. InQueue(q, n, k)' <=> InQueue(q, n, k + 1)
        BY <1>3, <3>3
      <4> QED
        BY <3>1, <3>3, <4>1 DEF LiveAt
    <3> QED
      BY <3>2, <3>3
  <2>7. \A q, p \in Nodes, k \in Nat :
           LiveAt(q, p, k)' <=> IF p = n THEN LiveAt(q, n, k + 1)
                                ELSE LiveAt(q, p, k)
    BY <1>3, <2>3, <2>6 DEF LiveAt
  <2> QED
    BY <1>1, <1>2, <2>2, <2>7, AwaitedTaken
<1> QED
  BY <1>3, <1>4, <1>8, <1>9, InvIsNext

LEMMA FinishStep ==
    ASSUME BcInv, NEW n \in Nodes, Finish(n)
    PROVE  BcInv'
<1> DEFINE c == work[n].call
<1>1. /\ BooksTyped /\ QueuesTyped /\ ThreadsTyped /\ Awaited
      /\ NetTypes /\ Disciplined
  BY InvIs DEF BcInv
<1>2. /\ work[n] # Free /\ ~work[n].wait /\ c \in Call /\ JobOf(n, work[n])
      /\ c.from \in Nodes /\ c.live \in BOOLEAN
  BY <1>1, Parts, CallParts DEF Finish, Disciplined
<1>3. UNCHANGED inbox
  BY DEF Finish
<1>4. QueuesTyped'
  BY <1>1, <1>3, QueuesUnchanged
<1>5. \A q, p \in Nodes, k \in Nat : InQueue(q, p, k)' <=> InQueue(q, p, k)
  BY <1>3 DEF InQueue
<1>6. \A p \in Nodes : ~Awaits(n, p)
  BY <1>2 DEF Awaits
<1>7. \A q \in Nodes : ~InQueue(q, n, 0)
  BY <1>1 DEF QueuesTyped, InQueue
<1>8. CASE c.from = n
  <2>1. /\ work' = [work EXCEPT ![n] = Free]
        /\ UNCHANGED <<sent, table, got, second, forgets, faults, dropped>>
    BY <1>8 DEF Finish
  <2>2. /\ ThreadsTyped'
        /\ work'[n] = Free /\ \A q \in Nodes \ {n} : work'[q] = work[q]
    BY <1>1, <2>1, ThreadSet
  <2>3. \A q, p \in Nodes : Awaits(q, p)' <=> Awaits(q, p)
    BY <1>6, <2>2 DEF Awaits, Free
  <2>4. \A q, p \in Nodes : InHand(q, p)' <=> InHand(q, p)
    BY <1>8, <2>2 DEF InHand, Free
  <2>5. \A q, p \in Nodes, k \in Nat : LiveAt(q, p, k)' <=> LiveAt(q, p, k)
    BY <1>5, <2>4 DEF LiveAt
  <2>6. Awaited'
    BY <1>1, <2>3, <2>5 DEF Awaited
  <2>7. BooksTyped'
    BY <1>1, <2>1, BooksUnchanged
  <2> QED
    BY <1>4, <2>2, <2>6, <2>7, InvIsNext
<1>9. CASE c.from # n
  <2>1. /\ work' = [Answered(work, c) EXCEPT ![n] = Free]
        /\ Handle(n, c)
        /\ UNCHANGED <<sent, table, forgets, faults, dropped>>
    BY <1>9 DEF Finish
  <2>2. \A q \in Nodes : LiveAt(q, n, 0) <=> c.live /\ q = c.from
    BY <1>2, <1>7, <1>9 DEF LiveAt, InHand
  <2> HIDE DEF c
  <2>3. c.live => LiveAt(c.from, n, 0)
    BY <1>2, <2>2
  <2> DEFINE a == Answered(work, c)
  <2>4. /\ a \in [Nodes -> Job \cup {Free}]
        /\ \A q \in Nodes :
              /\ ~(c.live /\ q = c.from) => a[q] = work[q]
              /\ a[q] = Free <=> work[q] = Free
              /\ work[q] # Free => a[q].call = work[q].call
        /\ c.live => ~a[c.from].wait
        /\ \A q \in Nodes : a[q] # Free => JobOf(q, a[q])
    <3>1. 0 \in Nat
      OBVIOUS
    <3> QED
      BY <1>2, <1>9, <2>3, <3>1, AnsweredParts
  <2>5. work' = [a EXCEPT ![n] = Free]
    BY <2>1
  <2> HIDE DEF a
  <2>6. /\ work' \in [Nodes -> Job \cup {Free}]
        /\ work'[n] = Free /\ \A q \in Nodes \ {n} : work'[q] = a[q]
    BY <2>4, <2>5
  <2>7. \A q \in Nodes : work'[q] # Free => JobOf(q, work'[q])
    BY <2>4, <2>6
  <2>8. ThreadsTyped'
    BY <2>6, <2>7 DEF ThreadsTyped, Free, JobOf, IdOfOrigin
  <2>9. \A q, p \in Nodes : Awaits(q, p)' <=> Awaits(q, p) /\ ~(c.live /\ q = c.from)
    BY <1>2, <1>6, <1>9, <2>4, <2>6 DEF Awaits, Free
  <2>10. \A q, p \in Nodes : InHand(q, p)' <=> InHand(q, p) /\ p # n
    BY <2>4, <2>6 DEF InHand, Free
  <2>11. \A q, p \in Nodes, k \in Nat :
            LiveAt(q, p, k)' <=> LiveAt(q, p, k) /\ ~(p = n /\ k = 0)
    BY <1>5, <1>7, <2>10 DEF LiveAt
  <2>12. Awaited'
    <3> DEFINE f == c.from
               live == c.live
    <3>1. f \in Nodes /\ live \in BOOLEAN /\ 0 \in Nat
      BY <1>2
    <3>2. HeldFor(n, 0, f, live)
      BY <2>2 DEF HeldFor
    <3>3. GoesOn(f, live)
      BY <2>9 DEF GoesOn
    <3>4. Leaves(n, 0)
      BY <2>11 DEF Leaves
    <3> HIDE DEF f, live
    <3> QED
      BY <1>1, <3>1, <3>2, <3>3, <3>4, AwaitedGone
  <2>13. BooksTyped'
    BY <1>1, <1>2, <2>1, HandleBooks
  <2> QED
    BY <1>4, <2>8, <2>12, <2>13, InvIsNext
<1> QED
  BY <1>8, <1>9

LEMMA ForgetStep ==
    ASSUME BcInv, NEW n \in Nodes, NEW id \in Messages \cup {NoId}, Forget(n, id)
    PROVE  BcInv'
<1>1. /\ BooksTyped /\ QueuesTyped /\ ThreadsTyped /\ Awaited
  BY InvIs
<1>2. UNCHANGED <<inbox, work>>
  BY DEF Forget
<1>3. /\ faults' = faults + 1 /\ faults < MaxFaults
      /\ table' = [table EXCEPT ![n] = @ \ {id}]
      /\ forgets' = [forgets EXCEPT ![n] = @ + 1]
      /\ UNCHANGED <<sent, got, second, dropped>>
  BY DEF Forget
<1>4. faults \in Nat /\ faults' \in 0..MaxFaults
  BY <1>1, <1>3, FaultsAssumption DEF BooksTyped
<1>5. /\ forgets' \in [Nodes -> Nat]
      /\ \A q \in Nodes : forgets'[q] <= faults'
  BY <1>1, <1>3, <1>4 DEF BooksTyped
<1>6. table' \in [Nodes -> SUBSET (Messages \cup {NoId})]
  BY <1>1, <1>3 DEF BooksTyped
<1>7. BooksTyped'
  BY <1>1, <1>3, <1>4, <1>5, <1>6 DEF BooksTyped
<1>8. QueuesTyped'
  BY <1>1, <1>2, QueuesUnchanged
<1>9. ThreadsTyped'
  BY <1>1, <1>2 DEF ThreadsTyped
<1>10. Awaited'
  BY <1>1, <1>2 DEF Awaited, Awaits, LiveAt, InQueue, InHand
<1> QED
  BY <1>7, <1>8, <1>9, <1>10, InvIsNext

LEMMA DeadlineStep ==
    ASSUME BcInv, NEW n \in Nodes, Deadline(n)
    PROVE  BcInv'
<1> DEFINE next == CutShort(n)
<1>1. /\ BooksTyped /\ QueuesTyped /\ ThreadsTyped /\ Awaited
      /\ NetTypes /\ Disciplined
  BY InvIs DEF BcInv
<1>2. /\ work[n] # Free /\ work[n].wait /\ JobOf(n, work[n])
      /\ work[n].call \in Call
  BY <1>1, Parts, CallParts DEF Deadline, Disciplined
<1>3. PICK p \in Nodes : p = Head(work[n].todo) /\ p # n
                          /\ Tail(work[n].todo) \in Seq(Nodes)
  <2>1. work[n].todo \in Seq(Nodes \ {n}) /\ work[n].todo # <<>>
    BY <1>2 DEF JobOf
  <2> QED
    BY <2>1, TailIs
<1> DEFINE late == Missed(n, Tail(work[n].todo))
           lost == Missed(n, <<p>>)
<1>4. Awaits(n, p)
  BY <1>2, <1>3 DEF Awaits
<1>5. /\ next \in [Nodes -> Job \cup {Free}]
      /\ next[n] # Free /\ next[n].call = work[n].call /\ ~next[n].wait
      /\ \A q \in Nodes \ {n} : next[q] = work[q]
      /\ \A q \in Nodes : next[q] # Free => JobOf(q, next[q])
  BY <1>1, <1>2, CuttingShort
<1>6. BooksTyped'
  <2>1. /\ faults' \in Nat /\ faults' >= faults /\ faults' <= MaxFaults
        /\ faults \in Nat
        /\ \/ dropped' = dropped \cup late
           \/ dropped' = dropped \cup late \cup lost
    <3>1. faults \in Nat
      BY <1>1, FaultsAssumption DEF BooksTyped
    <3>2. faults' \in {faults, faults + 1, faults + 1 + 1}
      BY DEF Deadline
    <3>3. faults' <= MaxFaults
      BY DEF Deadline
    <3>4. \/ dropped' = dropped \cup late
          \/ dropped' = dropped \cup late \cup lost
      BY <1>3 DEF Deadline
    <3> QED
      BY <3>1, <3>2, <3>3, <3>4
  <2>2. UNCHANGED <<sent, table, got, second, forgets>>
    BY DEF Deadline
  <2>3. \A q \in Nodes : forgets[q] <= faults'
    BY <1>1, <2>1 DEF BooksTyped
  <2>4. dropped' \subseteq Nodes \X Messages
    <3>1. late \subseteq Nodes \X Messages
      <4> DEFINE rest == Tail(work[n].todo)
      <4>1. rest \in Seq(Nodes)
        BY <1>3
      <4> HIDE DEF rest
      <4>2. Missed(n, rest) \subseteq Nodes \X Messages
        BY <1>2, <4>1, MissedParts
      <4> QED
        BY <4>2 DEF rest
    <3>2. lost \subseteq Nodes \X Messages
      <4> DEFINE one == <<p>>
      <4>1. one \in Seq(Nodes)
        BY <1>3
      <4> HIDE DEF one
      <4>2. Missed(n, one) \subseteq Nodes \X Messages
        BY <1>2, <4>1, MissedParts
      <4> QED
        BY <4>2 DEF one
    <3> HIDE DEF late, lost
    <3> QED
      BY <1>1, <2>1, <3>1, <3>2 DEF BooksTyped
  <2>5. faults' \in 0..MaxFaults
    BY <2>1, FaultsAssumption
  <2> QED
    BY <1>1, <2>2, <2>3, <2>4, <2>5 DEF BooksTyped
<1>7. PICK k \in Nat : LiveAt(n, p, k)
  BY <1>1, <1>3, <1>4 DEF Awaited
<1>8. \A q \in Nodes : LiveAt(q, p, k) <=> q = n
  <2> SUFFICES ASSUME NEW q \in Nodes, LiveAt(q, p, k) PROVE q = n
    BY <1>7
  <2>1. 0 \notin DOMAIN inbox[p]
    BY <1>1, <1>3 DEF QueuesTyped
  <2> QED
    BY <1>7, <2>1 DEF LiveAt, InQueue, InHand
<1>9. \A j \in Nat : LiveAt(n, p, j) => j = k
  BY <1>1, <1>3, <1>7 DEF Awaited
<1>10. \/ /\ Queued(n, p) = {}
          /\ work' = [next EXCEPT ![p].call.live = FALSE]
          /\ UNCHANGED inbox
       \/ \E j \in Queued(n, p) :
             /\ work' = next
             /\ \/ inbox' = [inbox EXCEPT ![p] = Stale(@, j)]
                \/ inbox' = [inbox EXCEPT ![p] = RemoveAt(@, j)]
  BY <1>3 DEF Deadline
<1> HIDE DEF next, late, lost
<1>11. CASE /\ Queued(n, p) = {}
            /\ work' = [next EXCEPT ![p].call.live = FALSE]
            /\ UNCHANGED inbox
  <2>1. k = 0 /\ InHand(n, p)
    <3>1. ~InQueue(n, p, k)
      BY <1>11 DEF Queued, InQueue
    <3> QED
      BY <1>7, <3>1 DEF LiveAt
  <2> DEFINE c == work[p].call
             d == [c EXCEPT !.live = FALSE]
             w == [work[p] EXCEPT !.call = d]
  <2>2. /\ work[p] # Free /\ c.from = n /\ c.live /\ c \in Call
        /\ work[p] \in Job /\ JobOf(p, work[p])
    BY <1>1, <1>3, <2>1, Parts DEF InHand, Disciplined
  <2>3. /\ d \in Call /\ d.from = n /\ d.id = c.id /\ d.msg = c.msg /\ ~d.live
    BY <2>2 DEF Call
  <2>4. /\ w \in Job /\ w.call = d /\ w.todo = work[p].todo
        /\ (w.wait <=> work[p].wait) /\ w.on = "call"
    <3> HIDE DEF d
    <3> QED
      BY <2>2, <2>3 DEF Job
  <2>5. w # Free
    <3>1. Free.on = "nothing" /\ "call" # "nothing"
      BY DEF Free
    <3> QED
      BY <2>4, <3>1
  <2>6. JobOf(p, w)
    <3> HIDE DEF d, w
    <3>1. IdOfOrigin(d)
      BY <2>2, <2>3 DEF JobOf, IdOfOrigin
    <3> QED
      BY <1>3, <2>2, <2>3, <2>4, <3>1 DEF JobOf
  <2>7. work' = [next EXCEPT ![p] = w]
    <3>1. next[p] = work[p]
      BY <1>3, <1>5
    <3> QED
      BY <1>5, <1>11, <3>1
  <2> HIDE DEF d, w
  <2>8. /\ work' \in [Nodes -> Job \cup {Free}]
        /\ work'[p] = w /\ \A q \in Nodes \ {p} : work'[q] = next[q]
    BY <1>3, <1>5, <2>4, <2>7
  <2>9. \A q \in Nodes : work'[q] # Free => JobOf(q, work'[q])
    BY <1>5, <2>6, <2>8
  <2>10. ThreadsTyped'
    BY <2>8, <2>9 DEF ThreadsTyped, Free, JobOf, IdOfOrigin
  <2>11. \A q, r \in Nodes : Awaits(q, r)' <=> Awaits(q, r) /\ ~(TRUE /\ q = n)
    <3>1. work'[n] = next[n]
      BY <1>3, <2>8
    <3>2. \A r \in Nodes : ~Awaits(n, r)'
      BY <1>5, <3>1 DEF Awaits
    <3>3. \A q \in Nodes \ {n, p} : work'[q] = work[q]
      BY <1>5, <2>8
    <3>4. \A r \in Nodes : Awaits(p, r)' <=> Awaits(p, r)
      <4>1. \A r \in Nodes : Awaits(p, r) <=> work[p].wait /\ r = Head(work[p].todo)
        BY <2>2 DEF Awaits
      <4>2. \A r \in Nodes : Awaits(p, r)' <=> w.wait /\ r = Head(w.todo)
        <5>1. work'[p] = w /\ w # Free /\ Free' = Free
          BY <2>5, <2>8 DEF Free
        <5> QED
          BY <5>1 DEF Awaits
      <4> QED
        BY <2>4, <4>1, <4>2
    <3>5. \A q, r \in Nodes :
             q # n /\ q # p => (Awaits(q, r)' <=> Awaits(q, r))
      <4> SUFFICES ASSUME NEW q \in Nodes, NEW r \in Nodes, q # n, q # p
                   PROVE  Awaits(q, r)' <=> Awaits(q, r)
        OBVIOUS
      <4>1. work'[q] = work[q] /\ Free' = Free
        BY <3>3 DEF Free
      <4> QED
        BY <4>1 DEF Awaits
    <3> QED
      BY <1>3, <3>2, <3>4, <3>5
  <2>12. \A q, r \in Nodes : InHand(q, r)' <=> InHand(q, r) /\ r # p
    <3>1. \A q \in Nodes : ~InHand(q, p)'
      BY <2>3, <2>4, <2>8 DEF InHand
    <3>2. work'[n] = next[n]
      BY <1>3, <2>8
    <3>3. \A q \in Nodes : InHand(q, n)' <=> InHand(q, n)
      BY <1>2, <1>5, <3>2 DEF InHand, Free
    <3>4. \A r \in Nodes \ {n, p} : work'[r] = work[r]
      BY <1>5, <2>8
    <3>5. \A q, r \in Nodes :
             r # n /\ r # p => (InHand(q, r)' <=> InHand(q, r))
      <4> SUFFICES ASSUME NEW q \in Nodes, NEW r \in Nodes, r # n, r # p
                   PROVE  InHand(q, r)' <=> InHand(q, r)
        OBVIOUS
      <4>1. work'[r] = work[r] /\ Free' = Free
        BY <3>4 DEF Free
      <4> QED
        BY <4>1 DEF InHand
    <3> QED
      BY <1>3, <3>1, <3>3, <3>5
  <2>13. \A q, r \in Nodes, j \in Nat : InQueue(q, r, j)' <=> InQueue(q, r, j)
    BY <1>11 DEF InQueue
  <2>14. \A q \in Nodes : ~InQueue(q, p, 0)
    BY <1>1, <1>3 DEF QueuesTyped, InQueue
  <2>15. \A q, r \in Nodes, j \in Nat :
            LiveAt(q, r, j)' <=> LiveAt(q, r, j) /\ ~(r = p /\ j = k)
    BY <2>1, <2>12, <2>13, <2>14 DEF LiveAt
  <2>16. \A q \in Nodes : LiveAt(q, p, k) <=> TRUE /\ q = n
    BY <1>8
  <2>17. Awaited'
    <3>1. HeldFor(p, k, n, TRUE)
      BY <2>16 DEF HeldFor
    <3>2. GoesOn(n, TRUE)
      BY <2>11 DEF GoesOn
    <3>3. Leaves(p, k)
      BY <2>15 DEF Leaves
    <3> QED
      BY <1>1, <1>3, <3>1, <3>2, <3>3, AwaitedGone
  <2>18. QueuesTyped'
    BY <1>1, <1>11, QueuesUnchanged
  <2> QED
    BY <1>6, <2>10, <2>17, <2>18, InvIsNext
<1>12. CASE \E j \in Queued(n, p) :
               /\ work' = next
               /\ \/ inbox' = [inbox EXCEPT ![p] = Stale(@, j)]
                  \/ inbox' = [inbox EXCEPT ![p] = RemoveAt(@, j)]
  <2>1. PICK j \in Queued(n, p) :
               /\ work' = next
               /\ \/ inbox' = [inbox EXCEPT ![p] = Stale(@, j)]
                  \/ inbox' = [inbox EXCEPT ![p] = RemoveAt(@, j)]
    BY <1>12
  <2>2. j = k /\ k \in DOMAIN inbox[p] /\ k # 0
    <3>1. j \in DOMAIN inbox[p] /\ InQueue(n, p, j)
      BY DEF Queued, InQueue
    <3>2. j \in Nat /\ j # 0
      BY <1>1, <1>3, <3>1 DEF QueuesTyped
    <3> QED
      BY <1>9, <3>1, <3>2 DEF LiveAt
  <2>3. ThreadsTyped'
    BY <1>5, <2>1 DEF ThreadsTyped, Free, JobOf, IdOfOrigin
  <2>4. \A q, r \in Nodes : Awaits(q, r)' <=> Awaits(q, r) /\ q # n
    BY <1>5, <2>1 DEF Awaits, Free
  <2>5. \A q, r \in Nodes : InHand(q, r)' <=> InHand(q, r)
    BY <1>2, <1>5, <2>1 DEF InHand, Free
  <2>6. CASE inbox' = [inbox EXCEPT ![p] = Stale(@, j)]
    <3>1. /\ QueuesTyped'
          /\ \A q, r \in Nodes, i \in Nat :
                InQueue(q, r, i)' <=> InQueue(q, r, i) /\ ~(r = p /\ i = k)
      BY <1>1, <1>3, <2>2, <2>6, QueueStale
    <3>2. \A q, r \in Nodes, i \in Nat :
             LiveAt(q, r, i)' <=> LiveAt(q, r, i) /\ ~(r = p /\ i = k)
      BY <2>2, <2>5, <3>1 DEF LiveAt
    <3>3. Awaited'
      <4>1. HeldFor(p, k, n, TRUE)
        BY <1>8 DEF HeldFor
      <4>2. GoesOn(n, TRUE)
        BY <2>4 DEF GoesOn
      <4>3. Leaves(p, k)
        BY <3>2 DEF Leaves
      <4> QED
        BY <1>1, <1>3, <4>1, <4>2, <4>3, AwaitedGone
    <3> QED
      BY <1>6, <2>3, <3>1, <3>3, InvIsNext
  <2>7. CASE inbox' = [inbox EXCEPT ![p] = RemoveAt(@, j)]
    <3>1. /\ QueuesTyped'
          /\ \A q, r \in Nodes, i \in Nat :
                InQueue(q, r, i)' <=>
                    IF r # p THEN InQueue(q, r, i)
                    ELSE IF i < k THEN InQueue(q, p, i) ELSE InQueue(q, p, i + 1)
      BY <1>1, <1>3, <2>2, <2>7, QueueWithout
    <3>2. \A q, r \in Nodes, i \in Nat :
             LiveAt(q, r, i)' <=> IF r # p \/ i < k THEN LiveAt(q, r, i)
                                  ELSE LiveAt(q, p, i + 1)
      BY <2>2, <2>5, <3>1 DEF LiveAt
    <3>3. Awaited'
      <4>1. HeldOnlyFor(p, k, n)
        BY <1>8 DEF HeldOnlyFor
      <4>2. GivesUp(n)
        BY <2>4 DEF GivesUp
      <4>3. ClosesUp(p, k)
        BY <3>2 DEF ClosesUp
      <4> QED
        BY <1>1, <1>3, <2>2, <4>1, <4>2, <4>3, AwaitedCancelled
    <3> QED
      BY <1>6, <2>3, <3>1, <3>3, InvIsNext
  <2> QED
    BY <2>1, <2>6, <2>7
<1> QED
  BY <1>10, <1>11, <1>12

LEMMA NoTimeLeftStep ==
    ASSUME BcInv, NEW n \in Nodes, NoTimeLeft(n)
    PROVE  BcInv'
<1> DEFINE w == CutShort(n)[n]
           late == Missed(n, work[n].todo)
<1>1. /\ BooksTyped /\ QueuesTyped /\ ThreadsTyped /\ Awaited
      /\ NetTypes /\ Disciplined
  BY InvIs DEF BcInv
<1>2. /\ work[n] # Free /\ ~work[n].wait
      /\ work[n].call \in Call /\ work[n].todo \in Seq(Nodes)
  BY <1>1, Parts DEF NoTimeLeft
<1>3. /\ w \in Job /\ JobOf(n, w) /\ w # Free /\ w.call = work[n].call
      /\ ~w.wait /\ work' = [work EXCEPT ![n] = w]
  BY <1>1, <1>2, CuttingShort DEF NoTimeLeft
<1> HIDE DEF w
<1>4. /\ ThreadsTyped'
      /\ work'[n] = w /\ \A q \in Nodes \ {n} : work'[q] = work[q]
  BY <1>1, <1>3, ThreadSet
<1>5. QueuesTyped' /\ UNCHANGED inbox
  BY <1>1, QueuesUnchanged DEF NoTimeLeft
<1>6. BooksTyped'
  <2>1. /\ faults < MaxFaults /\ faults' = faults + 1
        /\ dropped' = dropped \cup late
        /\ UNCHANGED <<sent, table, got, second, forgets>>
    BY DEF NoTimeLeft
  <2>2. late \subseteq Nodes \X Messages
    BY <1>2, MissedParts
  <2> HIDE DEF late
  <2>3. faults \in Nat /\ faults' \in 0..MaxFaults /\ faults <= faults'
    BY <1>1, <2>1, FaultsAssumption DEF BooksTyped
  <2>4. \A q \in Nodes : forgets'[q] <= faults'
    BY <1>1, <2>1, <2>3 DEF BooksTyped
  <2> QED
    BY <1>1, <2>1, <2>2, <2>3, <2>4 DEF BooksTyped
<1>7. Awaited'
  <2>1. \A q, p \in Nodes : Awaits(q, p)' <=> Awaits(q, p)
    BY <1>2, <1>3, <1>4 DEF Awaits, Free
  <2>2. \A q, p \in Nodes : InHand(q, p)' <=> InHand(q, p)
    BY <1>2, <1>3, <1>4 DEF InHand, Free
  <2>3. \A q, p \in Nodes, k \in Nat : InQueue(q, p, k)' <=> InQueue(q, p, k)
    BY <1>5 DEF InQueue
  <2>4. \A q, p \in Nodes, k \in Nat : LiveAt(q, p, k)' <=> LiveAt(q, p, k)
    BY <2>2, <2>3 DEF LiveAt
  <2> QED
    BY <1>1, <2>1, <2>4 DEF Awaited
<1> QED
  BY <1>4, <1>5, <1>6, <1>7, InvIsNext

-----------------------------------------------------------------------------
LEMMA InvInit ==
    ASSUME BcInit
    PROVE  BcInv
<1>1. \A n \in Nodes : work[n] = Free /\ inbox[n] = <<>>
  BY DEF BcInit
<1>2. NetTypes
  BY FaultsAssumption DEF BcInit, NetTypes
<1>3. Disciplined
  BY <1>1 DEF Disciplined
<1>4. Awaited
  BY <1>1 DEF Awaited, LiveAt, InQueue, InHand, Awaits
<1> QED
  BY <1>2, <1>3, <1>4 DEF BcInv

LEMMA InvNext ==
    ASSUME BcInv, [BcNext]_netVars
    PROVE  BcInv'
<1>1. ASSUME NEW m \in Messages, Send(m)
      PROVE  BcInv'
  BY <1>1, SendStep
<1>2. ASSUME NEW n \in Nodes, ThreadStep(n)
      PROVE  BcInv'
  BY <1>2, CallPeerStep, FinishStep, ServeDuplicateStep, ServeBroadcastStep,
     ServeOneHopStep DEF ThreadStep
<1>3. ASSUME NEW n \in Nodes, Deadline(n)
      PROVE  BcInv'
  BY <1>3, DeadlineStep
<1>4. ASSUME NEW n \in Nodes, NEW id \in Messages \cup {NoId}, Forget(n, id)
      PROVE  BcInv'
  BY <1>4, ForgetStep
<1>5. ASSUME NEW n \in Nodes, NoTimeLeft(n)
      PROVE  BcInv'
  BY <1>5, NoTimeLeftStep
<1>6. CASE UNCHANGED netVars
  BY <1>6 DEF netVars, BcInv, NetTypes, Disciplined, Awaited, Awaits, LiveAt,
              InQueue, InHand
<1> QED
  BY <1>1, <1>2, <1>3, <1>4, <1>5, <1>6 DEF BcNext

LEMMA InvAlways == BcSpec => []BcInv
<1>1. BcInit => BcInv
  BY InvInit
<1>2. BcInv /\ [BcNext]_netVars => BcInv'
  BY InvNext
<1> QED
  BY <1>1, <1>2, PTL DEF BcSpec

(* What a thread works on, what its queue holds and what it remembers have *)
(* their types, and only the origin's calls have an id.                    *)
THEOREM NetTypeCorrect == BcSpec => []BcTypeOK
<1>1. ASSUME BcInv PROVE BcTypeOK
  <2>1. /\ NetTypes /\ Disciplined
    BY <1>1 DEF BcInv
  <2>2. ASSUME NEW n \in Nodes, ~IsFree(n)
        PROVE  /\ work[n].call \in Call /\ work[n].todo \in Seq(Nodes)
               /\ work[n].wait \in BOOLEAN
               /\ work[n].call.from = n => Origin[work[n].call.msg] = n
    <3>1. work[n] # Free
      BY <2>2 DEF IsFree
    <3>2. JobOf(n, work[n])
      BY <2>1, <3>1 DEF Disciplined
    <3> QED
      BY <2>1, <3>1, <3>2, Parts DEF JobOf
  <2>3. ASSUME NEW n \in Nodes, NEW k \in DOMAIN inbox[n], inbox[n][k].id # NoId
        PROVE  /\ inbox[n][k].id = inbox[n][k].msg
               /\ Origin[inbox[n][k].msg] = inbox[n][k].from
    BY <2>1, <2>3 DEF Disciplined, CallTo, IdOfOrigin
  <2>4. forgets \in [Nodes -> 0..MaxFaults]
    <3>1. \A n \in Nodes : forgets[n] \in Nat /\ forgets[n] <= faults
                           /\ faults \in 0..MaxFaults
      BY <2>1 DEF NetTypes
    <3>2. \A n \in Nodes : forgets[n] \in 0..MaxFaults
      BY <3>1, FaultsAssumption
    <3> QED
      BY <2>1, <3>2 DEF NetTypes
  <2> QED
    BY <2>1, <2>2, <2>3, <2>4 DEF BcTypeOK, NetTypes
<1> QED
  BY <1>1, InvAlways, PTL

-----------------------------------------------------------------------------
(* A node that is to handle a second-hand broadcast has the empty id in    *)
(* its table, or has forgotten it.                                         *)
Handling(n) ==
    /\ work[n] # Free
    /\ work[n].call.bcast /\ work[n].call.id = NoId /\ work[n].call.from # n

SecondHandFiled ==
    \A n \in Nodes :
        second[n] + (IF Handling(n) THEN 1 ELSE 0)
            <= (IF NoId \in table[n] THEN 1 ELSE 0) + forgets[n]

(* For the steps that handle nothing and forget nothing.                   *)
LEMMA FiledStill ==
    ASSUME BcInv, SecondHandFiled, UNCHANGED <<second, forgets>>,
           \A n \in Nodes : NoId \in table[n] => NoId \in table'[n],
           \A n \in Nodes : Handling(n)' =>
               Handling(n) \/ (NoId \notin table[n] /\ NoId \in table'[n])
    PROVE  SecondHandFiled'
<1> SUFFICES ASSUME NEW n \in Nodes
             PROVE  second'[n] + (IF Handling(n)' THEN 1 ELSE 0)
                      <= (IF NoId \in table'[n] THEN 1 ELSE 0) + forgets'[n]
  BY DEF SecondHandFiled
<1>1. second[n] \in Nat /\ forgets[n] \in Nat
      /\ second'[n] = second[n] /\ forgets'[n] = forgets[n]
  BY InvParts
<1>2. second[n] + (IF Handling(n) THEN 1 ELSE 0)
        <= (IF NoId \in table[n] THEN 1 ELSE 0) + forgets[n]
  BY DEF SecondHandFiled
<1> QED
  BY <1>1, <1>2

LEMMA FiledNext ==
    ASSUME BcInv, SecondHandFiled, [BcNext]_netVars
    PROVE  SecondHandFiled'
<1>0. /\ table \in [Nodes -> SUBSET (Messages \cup {NoId})]
      /\ work \in [Nodes -> Job \cup {Free}]
      /\ second \in [Nodes -> Nat] /\ forgets \in [Nodes -> Nat]
      /\ NetTypes /\ Disciplined
      /\ Free' = Free
  BY InvParts DEF BcInv, Free
<1>1. ASSUME NEW m \in Messages, Send(m)
      PROVE  SecondHandFiled'
  <2> DEFINE n == Origin[m]
             w == Serving(Request(m), Routes[n])
  <2>1. n \in Nodes /\ m # NoId /\ Request(m).from = n /\ w.call = Request(m)
    <3>1. n \in Nodes /\ m # NoId /\ Request(m).from = n /\ Request(m) \in Call
      BY RequestParts
    <3>2. Routes[n] \in Seq(Nodes)
      BY <3>1, RoutesAreNodes
    <3> QED
      BY <3>1, <3>2, ServingIsJob
  <2>2. work' = [work EXCEPT ![n] = w] /\ UNCHANGED <<second, forgets>>
    BY <1>1 DEF Send
  <2>3. \A q \in Nodes : NoId \in table[q] => NoId \in table'[q]
    BY <1>0, <1>1, <2>1 DEF Send
  <2> HIDE DEF w
  <2>4. ASSUME NEW q \in Nodes, Handling(q)' PROVE Handling(q)
    <3>1. CASE q = n
      BY <1>0, <2>1, <2>2, <2>4, <3>1 DEF Handling
    <3>2. CASE q # n
      BY <1>0, <2>1, <2>2, <2>4, <3>2 DEF Handling
    <3> QED
      BY <3>1, <3>2
  <2> QED
    BY <2>2, <2>3, <2>4, FiledStill
<1>2. ASSUME NEW n \in Nodes, CallPeer(n)
      PROVE  SecondHandFiled'
  <2>1. /\ work' = [work EXCEPT ![n].wait = TRUE]
        /\ UNCHANGED <<table, second, forgets>> /\ work[n] # Free
    BY <1>0, <1>2, Parts DEF CallPeer
  <2>2. work'[n].call = work[n].call
    <3>1. work[n] \in Job
      BY <1>0, <2>1
    <3> QED
      BY <1>0, <2>1, <3>1 DEF Job
  <2>3. \A q \in Nodes \ {n} : work'[q] = work[q]
    BY <1>0, <2>1
  <2>4. \A q \in Nodes : Handling(q)' => Handling(q)
    BY <1>0, <2>1, <2>2, <2>3 DEF Handling
  <2> QED
    BY <2>1, <2>4, FiledStill
<1>3. ASSUME NEW n \in Nodes, ServeDuplicate(n) \/ ServeOneHop(n)
      PROVE  SecondHandFiled'
  <2> DEFINE c == Head(inbox[n])
  <2>1. IsFree(n) /\ inbox[n] # <<>> /\ work' = Answered(work, c)
        /\ UNCHANGED <<table, forgets>>
    BY <1>3 DEF ServeDuplicate, ServeOneHop
  <2>2. /\ c \in Call /\ CallTo(n, c)
        /\ \A q \in Nodes : LiveAt(q, n, 1) <=> c.live /\ q = c.from
        /\ c.from \in Nodes
    BY <2>1, FirstCall
  <2>3. UNCHANGED second
    <3>1. CASE ServeDuplicate(n)
      BY <3>1 DEF ServeDuplicate
    <3>2. CASE ServeOneHop(n)
      BY <1>0, <3>2 DEF ServeOneHop, Handle
    <3> QED
      BY <1>3, <3>1, <3>2
  <2> HIDE DEF c
  <2>4. \A q \in Nodes : /\ work'[q] = Free <=> work[q] = Free
                         /\ work[q] # Free => work'[q].call = work[q].call
    <3>1. c.from # n /\ 1 \in Nat /\ (c.live => LiveAt(c.from, n, 1))
      BY <2>2 DEF CallTo
    <3> QED
      BY <2>1, <2>2, <3>1, AnsweredParts
  <2>5. \A q \in Nodes : Handling(q)' => Handling(q)
    BY <1>0, <2>4 DEF Handling
  <2> QED
    BY <2>1, <2>3, <2>5, FiledStill
<1>4. ASSUME NEW n \in Nodes, ServeBroadcast(n)
      PROVE  SecondHandFiled'
  <2> DEFINE c == Head(inbox[n])
             w == Serving(c, Onward(n, c))
  <2>1. /\ c.id \notin table[n] /\ table' = [table EXCEPT ![n] = @ \cup {c.id}]
        /\ work' = [work EXCEPT ![n] = w] /\ UNCHANGED <<second, forgets>>
        /\ IsFree(n) /\ inbox[n] # <<>>
    BY <1>4 DEF ServeBroadcast, Filed
  <2>2. c \in Call
    BY <2>1, FirstCall
  <2>3. w.call = c
    BY <2>2, ServingIsJob, RoutesAreNodes DEF Onward
  <2> HIDE DEF w, c
  <2>4. \A q \in Nodes : NoId \in table[q] => NoId \in table'[q]
    BY <1>0, <2>1
  <2>5. ASSUME NEW q \in Nodes, Handling(q)'
        PROVE  Handling(q) \/ (NoId \notin table[q] /\ NoId \in table'[q])
    <3>1. CASE q = n
      <4>1. c.id = NoId
        BY <1>0, <2>1, <2>3, <2>5, <3>1 DEF Handling
      <4> QED
        BY <1>0, <2>1, <3>1, <4>1
    <3>2. CASE q # n
      BY <1>0, <2>1, <2>5, <3>2 DEF Handling
    <3> QED
      BY <3>1, <3>2
  <2> QED
    BY <2>1, <2>4, <2>5, FiledStill
<1>5. ASSUME NEW n \in Nodes, Deadline(n)
      PROVE  SecondHandFiled'
  <2> DEFINE next == CutShort(n)
  <2>1. PICK p : p = Head(work[n].todo)
    OBVIOUS
  <2>2. UNCHANGED <<table, second, forgets>> /\ Waiting(n)
        /\ (work' = next \/ work' = [next EXCEPT ![p].call.live = FALSE])
    BY <1>5, <2>1 DEF Deadline
  <2>3. work[n] # Free /\ work[n].wait /\ JobOf(n, work[n])
    BY <1>0, <2>2, Parts DEF Disciplined
  <2>4. /\ next \in [Nodes -> Job \cup {Free}]
        /\ next[n] # Free /\ next[n].call = work[n].call
        /\ \A q \in Nodes \ {n} : next[q] = work[q]
    BY <1>0, <2>3, CuttingShort
  <2> HIDE DEF next
  <2>5. \A q \in Nodes : /\ next[q] # Free => work[q] # Free
                         /\ work[q] # Free => next[q].call = work[q].call
    BY <2>3, <2>4
  <2>6. \A q \in Nodes : work'[q] # Free =>
           /\ work[q] # Free
           /\ work'[q].call.bcast <=> work[q].call.bcast
           /\ work'[q].call.id = work[q].call.id
           /\ work'[q].call.from = work[q].call.from
    <3> SUFFICES ASSUME NEW q \in Nodes, work'[q] # Free
                 PROVE  /\ work[q] # Free
                        /\ work'[q].call.bcast <=> work[q].call.bcast
                        /\ work'[q].call.id = work[q].call.id
                        /\ work'[q].call.from = work[q].call.from
      OBVIOUS
    <3>1. CASE work'[q] = next[q]
      BY <2>5, <3>1
    <3>2. CASE work'[q] # next[q]
      <4>1. work'[q] = [next[q] EXCEPT !.call.live = FALSE]
        BY <2>2, <2>4, <3>2
      <4>2. CASE next[q] = Free
        <5>1. [next[q] EXCEPT !.call.live = FALSE] = Free
          BY <4>2 DEF Free
        <5> QED
          BY <4>1, <5>1
      <4>3. CASE next[q] # Free
        <5>1. next[q] \in Job /\ next[q].call \in Call
          BY <2>4, <4>3 DEF Job
        <5>2. /\ work'[q].call.bcast <=> next[q].call.bcast
              /\ work'[q].call.id = next[q].call.id
              /\ work'[q].call.from = next[q].call.from
          BY <4>1, <5>1 DEF Job, Call
        <5> QED
          BY <2>5, <4>3, <5>2
      <4> QED
        BY <4>2, <4>3
    <3> QED
      BY <3>1, <3>2
  <2>7. \A q \in Nodes : Handling(q)' => Handling(q)
    BY <1>0, <2>6 DEF Handling
  <2> QED
    BY <2>2, <2>7, FiledStill
<1>6. ASSUME NEW n \in Nodes, Finish(n)
      PROVE  SecondHandFiled'
  <2> DEFINE c == work[n].call
  <2>1. /\ work[n] # Free /\ c \in Call /\ UNCHANGED <<table, inbox, forgets>>
        /\ c.from \in Nodes
    BY <1>0, <1>6, Parts, CallParts DEF Finish
  <2>2. CASE c.from = n
    <3>1. work' = [work EXCEPT ![n] = Free] /\ UNCHANGED second
      BY <1>6, <2>2 DEF Finish
    <3>2. \A q \in Nodes : Handling(q)' => Handling(q)
      BY <1>0, <3>1 DEF Handling
    <3> QED
      BY <2>1, <3>1, <3>2, FiledStill
  <2>3. CASE c.from # n
    <3>1. /\ work' = [Answered(work, c) EXCEPT ![n] = Free]
          /\ second' = [second EXCEPT ![n] = IF c.bcast /\ c.id = NoId
                                             THEN @ + 1 ELSE @]
      BY <1>6, <2>3 DEF Finish, Handle
    <3>2. Handling(n) <=> c.bcast /\ c.id = NoId
      BY <2>1, <2>3 DEF Handling
    <3>3. c.live => LiveAt(c.from, n, 0)
      BY <2>1, <2>3 DEF LiveAt, InHand
    <3> DEFINE a == Answered(work, c)
    <3>4. /\ a \in [Nodes -> Job \cup {Free}]
          /\ \A q \in Nodes : /\ a[q] = Free <=> work[q] = Free
                              /\ work[q] # Free => a[q].call = work[q].call
      <4> HIDE DEF c
      <4>1. 0 \in Nat
        OBVIOUS
      <4> QED
        BY <2>1, <2>3, <3>3, <4>1, AnsweredParts
    <3> HIDE DEF a
    <3>5. work'[n] = Free /\ \A q \in Nodes \ {n} : work'[q] = a[q]
      BY <3>1, <3>4 DEF a
    <3>6. ASSUME NEW q \in Nodes
          PROVE  second'[q] + (IF Handling(q)' THEN 1 ELSE 0)
                   <= (IF NoId \in table'[q] THEN 1 ELSE 0) + forgets'[q]
      <4>1. /\ second[q] \in Nat /\ forgets[q] \in Nat
            /\ second[q] + (IF Handling(q) THEN 1 ELSE 0)
                 <= (IF NoId \in table[q] THEN 1 ELSE 0) + forgets[q]
        BY <1>0 DEF SecondHandFiled
      <4>2. table'[q] = table[q] /\ forgets'[q] = forgets[q]
        BY <2>1
      <4>3. CASE q = n
        <5>1. ~Handling(q)'
          BY <1>0, <3>5, <4>3 DEF Handling
        <5>2. second'[q] = IF Handling(q) THEN second[q] + 1 ELSE second[q]
          BY <1>0, <3>1, <3>2, <4>3
        <5> QED
          BY <4>1, <4>2, <5>1, <5>2
      <4>4. CASE q # n
        <5>1. Handling(q)' => Handling(q)
          BY <1>0, <3>4, <3>5, <4>4 DEF Handling
        <5>2. second'[q] = second[q]
          BY <1>0, <3>1, <4>4
        <5> QED
          BY <4>1, <4>2, <5>1, <5>2
      <4> QED
        BY <4>3, <4>4
    <3> QED
      BY <3>6 DEF SecondHandFiled
  <2> QED
    BY <2>2, <2>3
<1>7. ASSUME NEW n \in Nodes, NEW id \in Messages \cup {NoId}, Forget(n, id)
      PROVE  SecondHandFiled'
  <2>1. /\ IsFree(n) /\ id \in table[n] /\ UNCHANGED <<work, second>>
        /\ table' = [table EXCEPT ![n] = @ \ {id}]
        /\ forgets' = [forgets EXCEPT ![n] = @ + 1]
    BY <1>7 DEF Forget
  <2>2. \A q \in Nodes : Handling(q)' <=> Handling(q)
    BY <1>0, <2>1 DEF Handling
  <2>3. ASSUME NEW q \in Nodes
        PROVE  second'[q] + (IF Handling(q)' THEN 1 ELSE 0)
                 <= (IF NoId \in table'[q] THEN 1 ELSE 0) + forgets'[q]
    <3>1. /\ second[q] \in Nat /\ forgets[q] \in Nat
          /\ second[q] + (IF Handling(q) THEN 1 ELSE 0)
               <= (IF NoId \in table[q] THEN 1 ELSE 0) + forgets[q]
      BY <1>0 DEF SecondHandFiled
    <3>2. CASE q = n
      <4>1. forgets'[q] = forgets[q] + 1 /\ second'[q] = second[q]
        BY <1>0, <2>1, <3>2
      <4> QED
        BY <2>2, <3>1, <4>1
    <3>3. CASE q # n
      <4>1. /\ forgets'[q] = forgets[q] /\ second'[q] = second[q]
            /\ table'[q] = table[q]
        BY <1>0, <2>1, <3>3
      <4> QED
        BY <2>2, <3>1, <4>1
    <3> QED
      BY <3>2, <3>3
  <2> QED
    BY <2>3 DEF SecondHandFiled
<1>8. ASSUME NEW n \in Nodes, NoTimeLeft(n)
      PROVE  SecondHandFiled'
  <2>1. /\ work' = CutShort(n) /\ UNCHANGED <<table, second, forgets>>
        /\ work[n] # Free
    BY <1>0, <1>8, Parts DEF NoTimeLeft
  <2>2. /\ work'[n] # Free /\ work'[n].call = work[n].call
        /\ \A q \in Nodes \ {n} : work'[q] = work[q]
    BY <1>0, <2>1, CuttingShort
  <2>3. \A q \in Nodes : Handling(q)' => Handling(q)
    BY <1>0, <2>1, <2>2 DEF Handling
  <2> QED
    BY <2>1, <2>3, FiledStill
<1>9. CASE UNCHANGED netVars
  BY <1>0, <1>9 DEF netVars, SecondHandFiled, Handling
<1> QED
  BY <1>1, <1>2, <1>3, <1>4, <1>5, <1>6, <1>7, <1>8, <1>9
     DEF BcNext, ThreadStep

(* However many copies of however many broadcasts reach a node second-hand,*)
(* in any network, it handles one, and one more for every time it forgets  *)
(* an id: forwarded requests share the empty one.                          *)
THEOREM SecondHandHandledOnce == BcSpec => []SecondHandOnce
<1>1. BcInit => SecondHandFiled
  BY DEF BcInit, SecondHandFiled, Handling
<1>2. BcInv /\ SecondHandFiled /\ [BcNext]_netVars => SecondHandFiled'
  BY FiledNext
<1>3. BcInv /\ SecondHandFiled => SecondHandOnce
  <2> SUFFICES ASSUME BcInv, SecondHandFiled, NEW n \in Nodes
               PROVE  second[n] <= 1 + forgets[n]
    BY DEF SecondHandOnce
  <2>1. second[n] \in Nat /\ forgets[n] \in Nat
    BY InvParts
  <2>2. second[n] + (IF Handling(n) THEN 1 ELSE 0)
          <= (IF NoId \in table[n] THEN 1 ELSE 0) + forgets[n]
    BY DEF SecondHandFiled
  <2> QED
    BY <2>1, <2>2
<1> QED
  BY <1>1, <1>2, <1>3, InvAlways, PTL DEF BcSpec

=============================================================================
