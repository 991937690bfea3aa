----------------------------- MODULE Broadcast -----------------------------
(***************************************************************************)
(* How a message floods the mergers: NetPluginImpl::sendToMergerBroadcast  *)
(* at its origin and MergerService::proceed at every node it reaches, each *)
(* with a table of the ids it has seen.                                    *)
(*                                                                         *)
(* A node's io thread does one thing at a time.  Forwarding is a           *)
(* synchronous call to one peer after the other, so a node that forwards   *)
(* serves nobody until the peer answers or the deadline passes; the peer   *)
(* may be waiting for the node in turn.  All the calls of a loop share one *)
(* ClientContext, and with it one deadline, 100 ms after its start: once it*)
(* has passed, the calls that are left fail without reaching anybody.      *)
(* Only the origin's calls carry the message's id: forwarded ones leave it *)
(* empty.                                                                  *)
(***************************************************************************)
EXTENDS Integers, Sequences, FiniteSets, SequencesExt

CONSTANTS
    Nodes,
    Routes,     \* the alive peers of a node's table, in bucket order; at most
                \* PARALLELISM_ALPHA a bucket, so that a broadcast has them all
    Messages,
    Origin,     \* the node that sends the message
    OneHop,     \* the messages of checkOneHopBroadcastMsgType
    NoId,       \* the message_id of a request that has none
    Forgetful,  \* bound: the nodes that run long enough to forget an id
    MaxFaults   \* bound: how many ids are forgotten, calls lost in a queue,
                \* and deadlines passed while no peer kept the node waiting
                \* by waiting itself

(* RoutingTable::addPeer never takes the node itself.                      *)
ASSUME RoutesAssumption ==
    /\ DOMAIN Routes = Nodes
    /\ \A n \in Nodes : Routes[n] \in Seq(Nodes \ {n})
ASSUME MessagesAssumption ==
    /\ Origin \in [Messages -> Nodes]
    /\ OneHop \subseteq Messages /\ NoId \notin Messages
ASSUME FaultsAssumption == MaxFaults \in Nat

VARIABLES
    sent,     \* the messages broadcast by their origin
    table,    \* m_broadcast_check_table of each node: the ids in it
    inbox,    \* the calls in each node's completion queue
    work,     \* what each node's io thread is doing
    got,      \* the pairs of node and message that reached a handler
    second,   \* how many forwarded calls each node handled
    forgets,  \* how often each node forgot an id
    faults,   \* how many of the things that MaxFaults bounds happened
    dropped   \* the pairs of peer and message of the calls that were not made
              \* in time, or cancelled before they were served

netVars == <<sent, table, inbox, work, got, second, forgets, faults, dropped>>

(* A request; live as long as its caller waits for the answer.             *)
Call == [msg : Messages, id : Messages \cup {NoId}, bcast : BOOLEAN,
         from : Nodes, live : BOOLEAN]
Free == [on |-> "nothing"]
Serving(call, todo) ==
    [on |-> "call", call |-> call, todo |-> todo, wait |-> FALSE]

IsFree(n) == work[n] = Free
Waiting(n) == ~IsFree(n) /\ work[n].wait

-----------------------------------------------------------------------------
BcInit ==
    /\ sent = {} /\ got = {} /\ dropped = {}
    /\ table = [n \in Nodes |-> {}]
    /\ inbox = [n \in Nodes |-> <<>>]
    /\ work = [n \in Nodes |-> Free]
    /\ second = [n \in Nodes |-> 0] /\ forgets = [n \in Nodes |-> 0] /\ faults = 0

(* Mutant of Request: the origin leaves the id empty as well.              *)
RequestWithoutId(m) ==
    [msg |-> m, id |-> NoId, bcast |-> m \notin OneHop, from |-> Origin[m],
     live |-> TRUE]

(* What sendToMergerBroadcast puts into the request.                       *)
Request(m) ==
    [msg |-> m, id |-> IF m \in OneHop THEN NoId ELSE m,
     bcast |-> m \notin OneHop, from |-> Origin[m], live |-> TRUE]

(* The outgoing channel's subscriber broadcasts a message of its own.      *)
Send(m) ==
    LET n == Origin[m]
    IN  /\ m \notin sent /\ IsFree(n)
        /\ sent' = sent \cup {m}
        /\ table' = IF m \in OneHop THEN table
                    ELSE [table EXCEPT ![n] = @ \cup {m}]
        /\ work' = [work EXCEPT ![n] = Serving(Request(m), Routes[n])]
        /\ UNCHANGED <<inbox, got, second, forgets, faults, dropped>>

(* Mutant of Outgoing: the request keeps the id it came with.              *)
OutgoingWithId(n) ==
    [work[n].call EXCEPT !.from = n, !.live = TRUE]

(* The request a node sends on: its own, or a forwarded one without an id. *)
Outgoing(n) ==
    IF work[n].call.from = n THEN work[n].call
    ELSE [work[n].call EXCEPT !.id = NoId, !.from = n, !.live = TRUE]

(* The thread calls the next peer and waits.                               *)
CallPeer(n) ==
    /\ ~IsFree(n) /\ ~Waiting(n) /\ work[n].todo # <<>>
    /\ inbox' = [inbox EXCEPT ![Head(work[n].todo)] = Append(@, Outgoing(n))]
    /\ work' = [work EXCEPT ![n].wait = TRUE]
    /\ UNCHANGED <<sent, table, got, second, forgets, faults, dropped>>

(* The answer to a call lets its caller go on with the next peer.          *)
Answered(w, c) ==
    IF c.live
    THEN [w EXCEPT ![c.from].wait = FALSE, ![c.from].todo = Tail(@)]
    ELSE w

(* The message handler publishes the message, in all modes but for a       *)
(* transaction in monitor mode.                                            *)
Handle(n, c) ==
    /\ got' = got \cup {<<n, c.msg>>}
    /\ second' = [second EXCEPT ![n] = IF c.bcast /\ c.id = NoId
                                       THEN @ + 1 ELSE @]

(* MergerService takes the next request.  One whose id is in the table is  *)
(* answered as a duplicate; another broadcast is filed before it is        *)
(* forwarded; one that is not to be forwarded is handled at once.          *)
ServeDuplicate(n) ==
    /\ IsFree(n) /\ inbox[n] # <<>>
    /\ LET c == Head(inbox[n])
       IN  /\ c.bcast /\ c.id \in table[n]
           /\ work' = Answered(work, c)
    /\ inbox' = [inbox EXCEPT ![n] = Tail(@)]
    /\ UNCHANGED <<sent, table, got, second, forgets, faults, dropped>>

(* Mutant of Filed: the empty id is not taken for an id.                   *)
FiledIfAny(n, id) ==
    IF id = NoId THEN table ELSE [table EXCEPT ![n] = @ \cup {id}]

Filed(n, id) == [table EXCEPT ![n] = @ \cup {id}]

(* Mutant of Onward: the loop over the peers ends after the first.         *)
OnwardToOne(n, c) == SubSeq(Routes[n], 1, 1)

Onward(n, c) == Routes[n]

ServeBroadcast(n) ==
    /\ IsFree(n) /\ inbox[n] # <<>>
    /\ LET c == Head(inbox[n])
       IN  /\ c.bcast /\ c.id \notin table[n]
           /\ table' = Filed(n, c.id)
           /\ work' = [work EXCEPT ![n] = Serving(c, Onward(n, c))]
    /\ inbox' = [inbox EXCEPT ![n] = Tail(@)]
    /\ UNCHANGED <<sent, got, second, forgets, faults, dropped>>

ServeOneHop(n) ==
    /\ IsFree(n) /\ inbox[n] # <<>>
    /\ LET c == Head(inbox[n])
       IN  /\ ~c.bcast
           /\ Handle(n, c)
           /\ work' = Answered(work, c)
    /\ inbox' = [inbox EXCEPT ![n] = Tail(@)]
    /\ UNCHANGED <<sent, table, forgets, faults, dropped>>

(* Every peer has been called: a message from another node is handled, and *)
(* its caller gets an answer.                                              *)
Finish(n) ==
    /\ ~IsFree(n) /\ ~Waiting(n) /\ work[n].todo = <<>>
    /\ LET c == work[n].call
       IN  IF c.from = n
           THEN /\ work' = [work EXCEPT ![n] = Free]
                /\ UNCHANGED <<got, second>>
           ELSE /\ Handle(n, c)
                /\ work' = [Answered(work, c) EXCEPT ![n] = Free]
    /\ UNCHANGED <<sent, table, inbox, forgets, faults, dropped>>

-----------------------------------------------------------------------------
(* The places in p's inbox of the calls of n for which an answer counts.   *)
Queued(n, p) ==
    {k \in DOMAIN inbox[p] : inbox[p][k].from = n /\ inbox[p][k].live}

(* An inbox with a call in it that nobody awaits any more.                 *)
Stale(s, k) == [s EXCEPT ![k].live = FALSE]

(* The thread is done with its loop: every call that is left fails at once.*)
CutShort(n) == [work EXCEPT ![n].wait = FALSE, ![n].todo = <<>>]
Missed(n, peers) == {<<p, work[n].call.msg>> : p \in Range(peers)}

(* Mutant of Deadline: a call waits as long as it takes.                   *)
NoDeadline(n) == FALSE

(* The deadline passes while the thread waits.  The peer, if it has not    *)
(* taken the request yet, serves it late or never sees it.                 *)
Deadline(n) ==
    /\ Waiting(n)
    /\ LET p == Head(work[n].todo)
           late == IF Waiting(p) THEN faults ELSE faults + 1
           missed == dropped \cup Missed(n, Tail(work[n].todo))
       IN  \/ /\ Queued(n, p) = {}
              /\ work' = [CutShort(n) EXCEPT ![p].call.live = FALSE]
              /\ faults' = late
              /\ dropped' = missed
              /\ UNCHANGED inbox
           \/ \E k \in Queued(n, p) :
                 /\ work' = CutShort(n)
                 /\ \/ /\ inbox' = [inbox EXCEPT ![p] = Stale(@, k)]
                       /\ faults' = late
                       /\ dropped' = missed
                    \/ /\ inbox' = [inbox EXCEPT ![p] = RemoveAt(@, k)]
                       /\ faults' = late + 1
                       /\ dropped' = missed \cup Missed(n, <<p>>)
    /\ faults' <= MaxFaults
    /\ UNCHANGED <<sent, table, got, second, forgets>>

(* The deadline passes before the next call is made.                       *)
NoTimeLeft(n) ==
    /\ ~IsFree(n) /\ ~Waiting(n) /\ work[n].todo # <<>>
    /\ faults < MaxFaults /\ faults' = faults + 1
    /\ work' = CutShort(n)
    /\ dropped' = dropped \cup Missed(n, work[n].todo)
    /\ UNCHANGED <<sent, table, inbox, got, second, forgets>>

(* refreshBroadcastCheckTable drops an id older than                       *)
(* KEEP_BROADCAST_MSG_TIME.                                                *)
Forget(n, id) ==
    /\ IsFree(n) /\ id \in table[n] /\ n \in Forgetful
    /\ faults < MaxFaults /\ faults' = faults + 1
    /\ table' = [table EXCEPT ![n] = @ \ {id}]
    /\ forgets' = [forgets EXCEPT ![n] = @ + 1]
    /\ UNCHANGED <<sent, inbox, work, got, second, dropped>>

ThreadStep(n) ==
    \/ CallPeer(n) \/ Finish(n)
    \/ ServeDuplicate(n) \/ ServeBroadcast(n) \/ ServeOneHop(n)

BcNext ==
    \/ \E m \in Messages : Send(m)
    \/ \E n \in Nodes : ThreadStep(n) \/ Deadline(n) \/ NoTimeLeft(n)
    \/ \E n \in Nodes : \E id \in Messages \cup {NoId} : Forget(n, id)

(* A thread that can go on does, its timer polls the completion queue over *)
(* and over, and no call outlives the deadline.  Nothing makes a node send,*)
(* forget, or take long between two calls.                                 *)
BcSpec ==
    /\ BcInit /\ [][BcNext]_netVars
    /\ \A n \in Nodes : WF_netVars(ThreadStep(n)) /\ WF_netVars(Deadline(n))

-----------------------------------------------------------------------------
(* Only a call of the origin itself has an id, and nothing but its own     *)
(* message keeps a thread busy that nobody waits for.                      *)
BcTypeOK ==
    /\ sent \subseteq Messages
    /\ table \in [Nodes -> SUBSET (Messages \cup {NoId})]
    /\ inbox \in [Nodes -> Seq(Call)]
    /\ \A n \in Nodes :
          \/ IsFree(n)
          \/ /\ work[n].call \in Call /\ work[n].todo \in Seq(Nodes)
             /\ work[n].wait \in BOOLEAN
             /\ work[n].call.from = n => Origin[work[n].call.msg] = n
    /\ \A n \in Nodes : \A k \in DOMAIN inbox[n] :
          inbox[n][k].id # NoId =>
              inbox[n][k].id = inbox[n][k].msg
              /\ Origin[inbox[n][k].msg] = inbox[n][k].from
    /\ got \subseteq Nodes \X Messages /\ dropped \subseteq Nodes \X Messages
    /\ second \in [Nodes -> Nat] /\ forgets \in [Nodes -> 0..MaxFaults]
    /\ faults \in 0..MaxFaults

(* However many copies of however many broadcasts reach a node second-hand,*)
(* it handles one, until it forgets the empty id they share.               *)
SecondHandOnce == \A n \in Nodes : second[n] <= 1 + forgets[n]

(* Although nodes that forward call each other in circles and wait for     *)
(* each other, the flood ends and every thread is free again.              *)
Quiet == \A n \in Nodes : IsFree(n) /\ inbox[n] = <<>>
FloodEnds == <>[]Quiet

(* A peer of the origin gets the broadcast, unless the deadline passed     *)
(* before it was called, or its call was cancelled in its queue.           *)
PeersGetBroadcasts ==
    \A m \in Messages : m \in sent ~>
        \A p \in Range(Routes[Origin[m]]) : <<p, m>> \in got \cup dropped

(* A broadcast that is the only one goes on, although its copies have no   *)
(* id: from a node that has handled it to every peer of that node, unless  *)
(* the deadline of the node's loop came before the peer.                   *)
Broadcasts == sent \ OneHop
LoneBroadcastGoesOn ==
    [](Cardinality(Broadcasts) <= 1) =>
        \A m \in Messages \ OneHop : \A n \in Nodes \ {Origin[m]} :
            \A p \in Range(Routes[n]) \ {Origin[m]} :
                <<n, m>> \in got ~> <<p, m>> \in got \cup dropped

=============================================================================
