------------------------ MODULE ContractEngine_proofs ------------------------
(***************************************************************************)
(* What ContractEngine promises for any contracts, any blocks, and however *)
(* the database changes meanwhile.                                         *)
(*                                                                         *)
(* All that is remembered from one transaction to the next only grows, and *)
(* what is remembered first stays: so what was true of a transaction when  *)
(* it was answered, and of a payer when its balance was checked, is true   *)
(* for the rest of the block.                                              *)
(***************************************************************************)
EXTENDS ContractEngine, SequenceLemmas

-----------------------------------------------------------------------------
(* f leaves out nothing that was remembered.                               *)
Remembers(f, g) ==
    /\ DOMAIN g \subseteq DOMAIN f
    /\ \A x \in DOMAIN g : f[x] = g[x]

LEMMA InsertedParts ==
    ASSUME NEW map, NEW more
    PROVE  /\ DOMAIN Inserted(map, more) = DOMAIN map \cup DOMAIN more
           /\ \A x \in DOMAIN map : Inserted(map, more)[x] = map[x]
           /\ \A x \in DOMAIN more \ DOMAIN map : Inserted(map, more)[x] = more[x]
           /\ Remembers(Inserted(map, more), map)
BY DEF Inserted, Remembers

LEMMA RemembersAll ==
    ASSUME NEW f, NEW g, NEW h, Remembers(h, g), Remembers(g, f)
    PROVE  Remembers(h, f) /\ Remembers(f, f)
BY DEF Remembers

-----------------------------------------------------------------------------
(* What is remembered of a payer is a number or nothing.                   *)
Amount(q, kind, u) ==
    <<kind, u>> \in DOMAIN q => q[<<kind, u>>] \in Int \cup {Empty}
Amounts(q) == \A u \in Users : Amount(q, "balance", u) /\ Amount(q, "wallet", u)

LEMMA AskedGrows ==
    ASSUME NEW queries, NEW asks, NEW q, q = Asked(queries, asks)
    PROVE  Remembers(q, queries) /\ DOMAIN q = DOMAIN queries \cup asks
<1> DEFINE a == [x \in asks |-> database[x[1]][x[2]]]
<1>1. q = Inserted(queries, a)
  BY DEF Asked, Answers
<1>2. DOMAIN a = asks
  OBVIOUS
<1> HIDE DEF a
<1> QED
  BY <1>1, <1>2, InsertedParts

LEMMA AskedAnswer ==
    ASSUME NEW queries, NEW asks, NEW q, q = Asked(queries, asks),
           NEW kind, NEW id, <<kind, id>> \in asks \ DOMAIN queries
    PROVE  q[<<kind, id>>] = database[kind][id]
<1> DEFINE a == [x \in asks |-> database[x[1]][x[2]]]
           k == <<kind, id>>
<1>1. q = Inserted(queries, a)
  BY DEF Asked, Answers
<1>2. DOMAIN a = asks
  OBVIOUS
<1>3. a[k] = database[kind][id]
  OBVIOUS
<1> HIDE DEF a
<1>4. k \in DOMAIN a \ DOMAIN queries
  BY <1>2
<1> HIDE DEF k
<1>5. q[k] = a[k]
  <2>1. \A x \in DOMAIN a \ DOMAIN queries : Inserted(queries, a)[x] = a[x]
    BY InsertedParts
  <2> QED
    BY <1>1, <1>4, <2>1
<1> QED
  BY <1>3, <1>5 DEF k

LEMMA AskedAmounts ==
    ASSUME database \in Databases, NEW queries, Amounts(queries), NEW asks
    PROVE  Amounts(Asked(queries, asks))
<1> DEFINE q == Asked(queries, asks)
<1>1. Remembers(q, queries) /\ DOMAIN q = DOMAIN queries \cup asks
  BY AskedGrows
<1> HIDE DEF q
<1>2. ASSUME NEW kind \in {"balance", "wallet"}, NEW u \in Users,
             <<kind, u>> \in DOMAIN q
      PROVE  q[<<kind, u>>] \in Int \cup {Empty}
  <2> DEFINE x == <<kind, u>>
  <2>2. Amount(queries, kind, u)
    BY DEF Amounts
  <2>3. database[kind][u] \in Int \cup {Empty}
    BY DatabasesAssumption
  <2> HIDE DEF x
  <2>4. CASE x \in DOMAIN queries
    <3>1. q[x] = queries[x]
      BY <1>1, <2>4 DEF Remembers
    <3> QED
      BY <2>2, <2>4, <3>1 DEF Amount, x
  <2>5. CASE x \notin DOMAIN queries
    <3>1. x \in asks
      BY <1>1, <1>2, <2>5 DEF x
    <3>2. q[x] = database[kind][u]
      BY <2>5, <3>1, AskedAnswer DEF x, q
    <3> QED
      BY <2>3, <3>2 DEF x
  <2> QED
    BY <2>4, <2>5
<1>3. Amounts(q)
  BY <1>2 DEF Amounts, Amount
<1> QED
  BY <1>3 DEF q

-----------------------------------------------------------------------------
(* The balance that a payer is taken to have, by a transaction that read   *)
(* the payer's scope, or did not.                                          *)
HeldBy(q, seen, u) ==
    IF q[<<"balance", u>>] # Empty THEN q[<<"balance", u>>]
    ELSE IF seen /\ q[<<"wallet", u>>] # Empty THEN q[<<"wallet", u>>] ELSE 0

(* A check of a payer's balance says what is still remembered.             *)
CheckOf(q, c) ==
    /\ c.payer \in Users /\ c.pays \in Int /\ c.pays > 0
    /\ c.read \in BOOLEAN /\ c.ok \in BOOLEAN
    /\ <<"balance", c.payer>> \in DOMAIN q
    /\ c.read => <<"wallet", c.payer>> \in DOMAIN q
    /\ c.ok <=> HeldBy(q, c.read, c.payer) >= c.pays

LEMMA CheckStill ==
    ASSUME NEW q, NEW old, Remembers(q, old), NEW c, CheckOf(old, c)
    PROVE  CheckOf(q, c)
<1>1. q[<<"balance", c.payer>>] = old[<<"balance", c.payer>>]
  BY DEF CheckOf, Remembers
<1>2. c.read => q[<<"wallet", c.payer>>] = old[<<"wallet", c.payer>>]
  BY DEF CheckOf, Remembers
<1>3. HeldBy(q, c.read, c.payer) = HeldBy(old, c.read, c.payer)
  BY <1>1, <1>2 DEF HeldBy
<1> QED
  BY <1>3 DEF CheckOf, Remembers

(* Two checks of one payer that disagree.                                  *)
LEMMA Disagreement ==
    ASSUME NEW q, Amounts(q), NEW c, CheckOf(q, c), NEW d, CheckOf(q, d),
           c.payer = d.payer, c.pays >= d.pays, c.ok, ~d.ok
    PROVE  /\ c.read /\ ~d.read
           /\ q[<<"balance", c.payer>>] = Empty
           /\ q[<<"wallet", c.payer>>] # Empty
<1> DEFINE b == q[<<"balance", c.payer>>]
           w == q[<<"wallet", c.payer>>]
           hc == HeldBy(q, c.read, c.payer)
           hd == HeldBy(q, d.read, c.payer)
<1>1. b \in Int \cup {Empty} /\ (c.read => w \in Int \cup {Empty})
  BY DEF Amounts, Amount, CheckOf
<1>2. /\ hc = IF b # Empty THEN b ELSE IF c.read /\ w # Empty THEN w ELSE 0
      /\ hd = IF b # Empty THEN b ELSE IF d.read /\ w # Empty THEN w ELSE 0
  BY DEF HeldBy
<1>3. hc >= c.pays /\ ~(hd >= d.pays)
  BY DEF CheckOf
<1>4. c.pays \in Int /\ d.pays \in Int /\ c.pays > 0
  BY DEF CheckOf
<1>5. c.read \in BOOLEAN /\ d.read \in BOOLEAN
  BY DEF CheckOf
<1> HIDE DEF b, w, hc, hd
<1>6. hc # hd
  <2>1. hc \in Int
    BY <1>1, <1>2
  <2> QED
    BY <1>3, <1>4, <2>1
<1>7. b = Empty
  BY <1>2, <1>6
<1>8. hc # 0
  BY <1>3, <1>4
<1>9. c.read /\ w # Empty
  BY <1>2, <1>7, <1>8
<1>10. ~d.read
  BY <1>2, <1>6, <1>7, <1>9
<1> QED
  BY <1>7, <1>9, <1>10 DEF b, w

-----------------------------------------------------------------------------
Fields == {"at", "block", "n", "results", "conds", "queries", "read", "used",
           "checks"}

(* A job that is not idle has these fields.                                *)
IsRunner(j) == DOMAIN j = Fields /\ j = [f \in Fields |-> j[f]]

(* The contract of a transaction was found.                                *)
WasFound(cs, tx) == tx.cid \in DOMAIN cs /\ cs[tx.cid]

(* What the answer to a transaction is worth.                              *)
ResultOf(cs, tx, k, r) ==
    /\ r.tx = k
    /\ r.status <=> r.sets # <<>>
    /\ ~r.status => r.user = MinUserFee /\ r.author = 0
    /\ r.status => WasFound(cs, tx)
    /\ tx.input = Malformed => r.why \in BeforeInput

Running == {"run", "user", "author", "set"}
PastInput == {"user", "author", "set"}

Progress(j) ==
    /\ j.block \in Blocks /\ j.block \in Seq(Range(j.block))
    /\ j.n \in 1..(Len(j.block) + 1)
    /\ j.at \in {"prepare", "done", "thrown"} \cup Running
    /\ j.at = "done" <=> j.n = Len(j.block) + 1

AnsweredSoFar(cs, j) ==
    /\ j.results \in Seq(Range(j.results)) /\ Len(j.results) = j.n - 1
    /\ \A k \in DOMAIN j.results : ResultOf(cs, j.block[k], k, j.results[k])

(* What the runner remembers of payers.                                    *)
Purses(j) == Amounts(j.queries) /\ \A c \in j.checks : CheckOf(j.queries, c)

(* What is known of the transaction that is up.                            *)
UpNow(cs, j) ==
    /\ j.at \in Running => WasFound(cs, j.block[j.n])
    /\ j.at \in PastInput => /\ j.block[j.n].input # Malformed
                             /\ j.read \subseteq DOMAIN j.queries

JobOK(cs, j) ==
    /\ IsRunner(j) /\ Progress(j)
    /\ AnsweredSoFar(cs, j)
    /\ Purses(j)
    /\ UpNow(cs, j)

Cached ==
    /\ DOMAIN contracts \subseteq DOMAIN Documents
    /\ \A cid \in DOMAIN contracts : contracts[cid] \in BOOLEAN

EngineInv ==
    /\ database \in Databases
    /\ Cached
    /\ job # Idle => JobOK(contracts, job)

LEMMA FoundStill ==
    ASSUME NEW cs, NEW old, Remembers(cs, old), NEW tx, WasFound(old, tx)
    PROVE  WasFound(cs, tx)
BY DEF WasFound, Remembers

LEMMA ResultStill ==
    ASSUME NEW cs, NEW old, Remembers(cs, old),
           NEW tx, NEW k, NEW r, ResultOf(old, tx, k, r)
    PROVE  ResultOf(cs, tx, k, r)
BY FoundStill DEF ResultOf

(* The same job with another runner's memory: nothing that was known of    *)
(* the payers is lost.                                                     *)
Continues(j) ==
    /\ IsRunner(j) /\ j.block = job.block /\ j.n = job.n
    /\ j.results = job.results
    /\ Purses(j)

LEMMA JobContinues ==
    ASSUME NEW cs, JobOK(cs, job)
    PROVE  Continues(job)
BY DEF JobOK, Continues

(* A runner that has asked more.                                           *)
LEMMA AskingContinues ==
    ASSUME NEW cs, JobOK(cs, job), database \in Databases,
           NEW j, IsRunner(j), j.block = job.block, j.n = job.n,
           j.results = job.results, j.checks = job.checks,
           NEW asks, j.queries = Asked(job.queries, asks)
    PROVE  Continues(j)
<1>1. Amounts(job.queries) /\ \A c \in job.checks : CheckOf(job.queries, c)
  BY DEF JobOK, Purses
<1>2. Amounts(j.queries)
  BY <1>1, AskedAmounts
<1>3. Remembers(j.queries, job.queries)
  BY AskedGrows
<1>4. \A c \in j.checks : CheckOf(j.queries, c)
  BY <1>1, <1>3, CheckStill
<1> QED
  BY <1>2, <1>4 DEF Continues, Purses

(* The fields of a job after an answer.                                    *)
LEMMA AnswerFields ==
    ASSUME NEW r, NEW runner, IsRunner(runner)
    PROVE  LET j == Answer(r, runner)
           IN  /\ IsRunner(j)
               /\ j.results = Append(job.results, r)
               /\ j.n = runner.n + 1
               /\ j.at = IF job.n = Len(job.block) THEN "done" ELSE "prepare"
               /\ j.block = runner.block
               /\ j.queries = runner.queries /\ j.checks = runner.checks
BY DEF Answer, Add, IsRunner, Fields

(* Answering the current transaction, whatever the runner did for it.      *)
LEMMA AnswerKeeps ==
    ASSUME JobOK(contracts, job), job.at \in {"prepare"} \cup Running,
           NEW cs, Remembers(cs, contracts),
           NEW runner, Continues(runner),
           NEW r, ResultOf(cs, job.block[job.n], job.n, r)
    PROVE  JobOK(cs, Answer(r, runner))
<1> DEFINE j == Answer(r, runner)
<1>1. /\ IsRunner(j)
      /\ j.results = Append(job.results, r)
      /\ j.n = job.n + 1
      /\ j.at = IF job.n = Len(job.block) THEN "done" ELSE "prepare"
      /\ j.block = job.block
      /\ j.queries = runner.queries /\ j.checks = runner.checks
  BY AnswerFields DEF Continues
<1> HIDE DEF j
<1>2. /\ job.block \in Blocks /\ job.block \in Seq(Range(job.block))
      /\ job.n \in 1..Len(job.block) /\ Len(job.block) \in Nat
  BY DEF JobOK, Progress, Running
<1>3. Progress(j)
  BY <1>1, <1>2 DEF Progress
<1>4. /\ j.results \in Seq(Range(j.results))
      /\ Len(j.results) = Len(job.results) + 1 /\ Len(job.results) \in Nat
      /\ DOMAIN j.results = DOMAIN job.results \cup {Len(job.results) + 1}
      /\ \A k \in DOMAIN job.results : j.results[k] = job.results[k]
      /\ j.results[Len(job.results) + 1] = r
      /\ Len(job.results) = job.n - 1
  <2>1. job.results \in Seq(Range(job.results)) /\ Len(job.results) = job.n - 1
    BY DEF JobOK, AnsweredSoFar
  <2> DEFINE old == job.results
  <2>2. /\ Append(old, r) \in Seq(Range(Append(old, r)))
        /\ Len(Append(old, r)) = Len(old) + 1 /\ Len(old) \in Nat
        /\ DOMAIN Append(old, r) = DOMAIN old \cup {Len(old) + 1}
        /\ \A k \in DOMAIN old : Append(old, r)[k] = old[k]
        /\ Append(old, r)[Len(old) + 1] = r
    <3> HIDE DEF old
    <3>1. old \in Seq(Range(old))
      BY <2>1 DEF old
    <3> QED
      BY <3>1, Appended
  <2> QED
    BY <1>1, <2>1, <2>2
<1>5. ASSUME NEW k \in DOMAIN j.results
      PROVE  ResultOf(cs, j.block[k], k, j.results[k])
  <2>1. CASE k \in DOMAIN job.results
    <3>1. ResultOf(contracts, job.block[k], k, job.results[k])
      BY <2>1 DEF JobOK, AnsweredSoFar
    <3>2. ResultOf(cs, job.block[k], k, job.results[k])
      BY <3>1, ResultStill
    <3> QED
      BY <1>1, <1>4, <2>1, <3>2
  <2>2. CASE k \notin DOMAIN job.results
    <3>1. k = job.n /\ j.results[k] = r
      BY <1>2, <1>4, <2>2
    <3> QED
      BY <1>1, <3>1
  <2> QED
    BY <2>1, <2>2
<1>6. AnsweredSoFar(cs, j)
  <2>1. Len(j.results) = j.n - 1
    BY <1>1, <1>2, <1>4
  <2>2. j.results \in Seq(Range(j.results))
    BY <1>4
  <2> QED
    BY <1>5, <2>1, <2>2 DEF AnsweredSoFar
<1>7. UpNow(cs, j)
  BY <1>1 DEF UpNow, Running, PastInput
<1>8. Purses(j)
  BY <1>1 DEF Purses, Continues
<1> QED
  BY <1>1, <1>3, <1>6, <1>7, <1>8 DEF JobOK, j

(* Going on with the current transaction.                                  *)
LEMMA GoingOnKeeps ==
    ASSUME JobOK(contracts, job), job.at \in {"prepare"} \cup Running,
           NEW cs, Remembers(cs, contracts),
           NEW j, Continues(j), j.at \in Running \cup {"thrown"},
           j.at \in Running => WasFound(cs, job.block[job.n]),
           j.at \in PastInput => /\ job.block[job.n].input # Malformed
                                 /\ j.read \subseteq DOMAIN j.queries
    PROVE  JobOK(cs, j)
<1>1. Progress(j)
  BY DEF JobOK, Progress, Continues, Running
<1>2. ASSUME NEW k \in DOMAIN job.results
      PROVE  ResultOf(cs, job.block[k], k, job.results[k])
  <2>1. ResultOf(contracts, job.block[k], k, job.results[k])
    BY DEF JobOK, AnsweredSoFar
  <2> QED
    BY <2>1, ResultStill
<1>3. AnsweredSoFar(cs, j)
  BY <1>2 DEF JobOK, AnsweredSoFar, Continues
<1> QED
  BY <1>1, <1>3 DEF JobOK, Continues, UpNow

-----------------------------------------------------------------------------
(* What is known of the transaction that is up.                            *)
LEMMA CurrentParts ==
    ASSUME EngineInv, job.at \in {"prepare"} \cup Running
    PROVE  /\ JobOK(contracts, job) /\ IsRunner(job)
           /\ CurrentTx = job.block[job.n]
           /\ CurrentTx.user \in Users /\ CurrentTx.author \in Users
           /\ CurrentTx.named => CurrentTx.cid \in DOMAIN Documents
           /\ Remembers(contracts, contracts)
<1>1. job # Idle
  BY DEF Idle, Running
<1>2. JobOK(contracts, job)
  BY <1>1 DEF EngineInv
<1>3. job.n \in DOMAIN job.block /\ job.block \in Blocks
  BY <1>2 DEF JobOK, Progress, Running
<1> QED
  BY <1>2, <1>3, BlocksAssumption DEF JobOK, CurrentTx, Remembers

(* Of a transaction that is being run, the document is known.              *)
LEMMA RunningParts ==
    ASSUME EngineInv, job.at \in Running
    PROVE  /\ WasFound(contracts, CurrentTx)
           /\ CurrentTx.cid \in DOMAIN Documents
           /\ job.at \in PastInput => /\ CurrentTx.input # Malformed
                                      /\ job.read \subseteq DOMAIN job.queries
BY CurrentParts DEF JobOK, UpNow, WasFound, EngineInv, Cached

(* A transaction that fails leaves the job as it should be.                *)
LEMMA FailingKeeps ==
    ASSUME JobOK(contracts, job), job.at \in {"prepare"} \cup Running,
           NEW cs, Remembers(cs, contracts),
           NEW runner, Continues(runner), NEW why,
           job.block[job.n].input = Malformed => why \in BeforeInput
    PROVE  JobOK(cs, Answer(Failed(why), runner))
<1> DEFINE r == Failed(why)
<1>1. ResultOf(cs, job.block[job.n], job.n, r)
  BY DEF ResultOf, Failed
<1> HIDE DEF r
<1>2. JobOK(cs, Answer(r, runner))
  BY <1>1, AnswerKeeps
<1> QED
  BY <1>2 DEF r

LEMMA ProcBlockStep ==
    ASSUME EngineInv, NEW b \in Blocks, ProcBlock(b)
    PROVE  EngineInv'
<1> DEFINE j == [at |-> "prepare", block |-> b, n |-> 1, results |-> <<>>,
                 conds |-> <<>>, queries |-> <<>>, read |-> {},
                 used |-> {}, checks |-> {}]
<1>1. job' = j /\ b # <<>> /\ UNCHANGED <<database, contracts>>
  BY DEF ProcBlock
<1>2. /\ IsRunner(j) /\ j.at = "prepare" /\ j.block = b /\ j.n = 1
      /\ j.results = <<>> /\ j.queries = <<>> /\ j.checks = {}
  BY DEF IsRunner, Fields
<1> HIDE DEF j
<1>3. b \in Seq(Range(b)) /\ Len(b) \in Nat /\ Len(b) # 0
  BY <1>1, BlocksAssumption
<1>4. Progress(j)
  BY <1>2, <1>3 DEF Progress
<1>5. AnsweredSoFar(contracts, j)
  BY <1>2 DEF AnsweredSoFar
<1>6. Purses(j)
  BY <1>2 DEF Purses, Amounts, Amount
<1>7. JobOK(contracts, j)
  BY <1>2, <1>4, <1>5, <1>6 DEF JobOK, UpNow, Running, PastInput
<1>8. database' \in Databases /\ Cached'
  BY <1>1 DEF EngineInv, Cached
<1> QED
  BY <1>1, <1>7, <1>8 DEF EngineInv

(* What getContract leaves in the cache.                                   *)
LEMMA ContractGot ==
    ASSUME EngineInv, NEW cid \in DOMAIN Documents, NEW cs, cs = GetContract(cid)
    PROVE  /\ Remembers(cs, contracts) /\ cid \in DOMAIN cs
           /\ DOMAIN cs \subseteq DOMAIN Documents
           /\ \A x \in DOMAIN cs : cs[x] \in BOOLEAN
<1> DEFINE found == [c \in {cid} |-> database["contract"][c]]
<1>1. cs = Inserted(contracts, found)
  BY DEF GetContract
<1>2. DOMAIN found = {cid} /\ found[cid] \in BOOLEAN
  BY DatabasesAssumption DEF EngineInv
<1> HIDE DEF found
<1>3. /\ DOMAIN Inserted(contracts, found) = DOMAIN contracts \cup DOMAIN found
      /\ \A x \in DOMAIN contracts : Inserted(contracts, found)[x] = contracts[x]
      /\ \A x \in DOMAIN found \ DOMAIN contracts :
            Inserted(contracts, found)[x] = found[x]
      /\ Remembers(Inserted(contracts, found), contracts)
  BY InsertedParts
<1>4. /\ DOMAIN cs = DOMAIN contracts \cup {cid}
      /\ \A x \in DOMAIN contracts : cs[x] = contracts[x]
      /\ cid \notin DOMAIN contracts => cs[cid] = found[cid]
      /\ Remembers(cs, contracts)
  BY <1>1, <1>2, <1>3
<1>5. ASSUME NEW x \in DOMAIN cs PROVE cs[x] \in BOOLEAN
  <2>1. CASE x \in DOMAIN contracts
    BY <1>4, <2>1 DEF EngineInv, Cached
  <2>2. CASE x \notin DOMAIN contracts
    BY <1>2, <1>4, <2>2
  <2> QED
    BY <2>1, <2>2
<1> QED
  BY <1>4, <1>5 DEF EngineInv, Cached

LEMMA PrepareStep ==
    ASSUME EngineInv, Prepare
    PROVE  EngineInv'
<1> DEFINE tx == CurrentTx
           read == [job EXCEPT !.queries = ReadUserAttributes(@, tx)]
           asks == {<<"info", u>> : u \in {tx.user, tx.receiver, tx.author}}
<1>1. /\ job.at = "prepare" /\ job.at \in {"prepare"} \cup Running
      /\ UNCHANGED database
      /\ contracts' = IF tx.named THEN GetContract(tx.cid) ELSE contracts
  BY DEF Prepare
<1>2. /\ JobOK(contracts, job) /\ IsRunner(job)
      /\ tx = job.block[job.n]
      /\ tx.named => tx.cid \in DOMAIN Documents
  BY <1>1, CurrentParts
<1>3. Continues(job)
  BY <1>2, JobContinues
<1>4. Continues(read)
  <2>1. /\ IsRunner(read) /\ read.queries = Asked(job.queries, asks)
        /\ read.block = job.block /\ read.n = job.n
        /\ read.results = job.results /\ read.checks = job.checks
    BY <1>2 DEF IsRunner, Fields, ReadUserAttributes
  <2>2. database \in Databases
    BY DEF EngineInv
  <2> HIDE DEF read, asks
  <2> QED
    BY <1>2, <2>1, <2>2, AskingContinues
<1>5. job' \in {Answer(Failed("INVALID_TX"), job), Answer(Failed("NO_CONTRACT"), job),
                Answer(Failed("NO_USER"), read)}
         \/ (job' = [read EXCEPT !.at = "run"] /\ tx.named /\ Found(contracts', tx))
  BY DEF Prepare
<1>6. PICK cs : cs = contracts'
  OBVIOUS
<1>7. /\ Remembers(cs, contracts)
      /\ DOMAIN cs \subseteq DOMAIN Documents
      /\ \A x \in DOMAIN cs : cs[x] \in BOOLEAN
      /\ tx.named => tx.cid \in DOMAIN cs
  <2>1. CASE ~tx.named
    BY <1>1, <1>6, <2>1 DEF EngineInv, Cached, Remembers
  <2>2. CASE tx.named
    <3>1. cs = GetContract(tx.cid)
      BY <1>1, <1>6, <2>2
    <3> HIDE DEF tx
    <3> QED
      BY <1>2, <2>2, <3>1, ContractGot
  <2> QED
    BY <2>1, <2>2
<1>8. ASSUME NEW why \in BeforeInput, NEW j, Continues(j),
             job' = Answer(Failed(why), j)
      PROVE  JobOK(cs, job')
  <2>1. JobOK(cs, Answer(Failed(why), j))
    BY <1>1, <1>2, <1>7, <1>8, FailingKeeps
  <2> QED
    BY <1>8, <2>1
<1>9. ASSUME job' = [read EXCEPT !.at = "run"], tx.named, Found(contracts', tx)
      PROVE  JobOK(cs, job')
  <2> DEFINE j == [read EXCEPT !.at = "run"]
  <2>1. /\ IsRunner(j) /\ j.at = "run" /\ j.queries = read.queries
        /\ j.block = read.block /\ j.n = read.n /\ j.results = read.results
        /\ j.checks = read.checks
    <3>1. IsRunner(read)
      BY <1>4 DEF Continues
    <3> HIDE DEF read
    <3> QED
      BY <3>1 DEF IsRunner, Fields
  <2> HIDE DEF j, read
  <2>2. Continues(j)
    BY <1>4, <2>1 DEF Continues, Purses
  <2>3. WasFound(cs, job.block[job.n])
    BY <1>2, <1>6, <1>7, <1>9 DEF WasFound, Found
  <2>4. JobOK(cs, j)
    BY <1>1, <1>2, <1>7, <2>1, <2>2, <2>3, GoingOnKeeps DEF Running, PastInput
  <2> QED
    BY <1>9, <2>4 DEF j, read
<1>10. JobOK(cs, job')
  <2> HIDE DEF read, tx
  <2>1. CASE job' = Answer(Failed("INVALID_TX"), job)
    BY <1>3, <1>8, <2>1 DEF BeforeInput
  <2>2. CASE job' = Answer(Failed("NO_CONTRACT"), job)
    BY <1>3, <1>8, <2>2 DEF BeforeInput
  <2>3. CASE job' = Answer(Failed("NO_USER"), read)
    BY <1>4, <1>8, <2>3 DEF BeforeInput
  <2> QED
    BY <1>5, <1>9, <2>1, <2>2, <2>3
<1>11. JobOK(contracts', job') /\ Cached'
  BY <1>6, <1>7, <1>10 DEF Cached
<1> QED
  BY <1>1, <1>11 DEF EngineInv

LEMMA RunStep ==
    ASSUME EngineInv, Run
    PROVE  EngineInv'
<1> DEFINE tx == CurrentTx
           doc == Documents[tx.cid]
           v0 == Values(tx, job.queries)
           c0 == Evaluated(job.conds, doc, v0)
           v1 == WithInput(v0, tx)
           c1 == Evaluated(c0, doc, v1)
           read == Reads(c1, doc, tx)
           queries == Asked(job.queries, read)
           v2 == WithScope(v1, tx, read, queries)
           c2 == Evaluated(c1, doc, v2)
           used == {<<c2[id], Holds(doc.conditions[id], v2)>> : id \in Consulted(doc)}
           input == [job EXCEPT !.conds = c0]
           get == [job EXCEPT !.conds = c2, !.queries = queries, !.read = read,
                              !.used = @ \cup used]
           charge == [get EXCEPT !.at = "user"]
<1>1. /\ job.at = "run" /\ job.at \in {"prepare"} \cup Running
      /\ tx.inPeriod => tx.input # Malformed
      /\ UNCHANGED <<database, contracts>>
  BY DEF Run, Running
<1>2. \/ job' = Answer(Failed("RUN_PERIOD"), job)
      \/ tx.inPeriod /\ job' = Answer(Failed("RUN_INPUT"), input)
      \/ tx.inPeriod /\ job' = Answer(Failed("RUN_FEE"), get)
      \/ tx.inPeriod /\ job' = charge
  BY DEF Run
<1> HIDE DEF c0, v0, v1, c1, read, v2, c2, used, doc
<1>3. /\ JobOK(contracts, job) /\ IsRunner(job) /\ tx = job.block[job.n]
      /\ Remembers(contracts, contracts)
  BY <1>1, CurrentParts
<1>4. WasFound(contracts, tx)
  BY <1>1, RunningParts DEF Running
<1>5. Continues(job)
  BY <1>3, JobContinues
<1>6. Continues(input)
  <2>1. /\ IsRunner(input) /\ input.block = job.block /\ input.n = job.n
        /\ input.results = job.results /\ input.queries = job.queries
        /\ input.checks = job.checks
    BY <1>3 DEF IsRunner, Fields
  <2> HIDE DEF input
  <2> QED
    BY <1>5, <2>1 DEF Continues, Purses
<1>7. /\ IsRunner(get) /\ get.block = job.block /\ get.n = job.n
      /\ get.results = job.results /\ get.checks = job.checks
      /\ get.queries = queries /\ get.read = read
  BY <1>3 DEF IsRunner, Fields
<1> HIDE DEF input, get
<1>8. Continues(get)
  <2>1. database \in Databases
    BY DEF EngineInv
  <2> QED
    BY <1>3, <1>7, <2>1, AskingContinues
<1>9. /\ IsRunner(charge) /\ charge.at = "user" /\ charge.block = get.block
      /\ charge.n = get.n /\ charge.results = get.results
      /\ charge.queries = get.queries /\ charge.checks = get.checks
      /\ charge.read = get.read
  BY <1>7 DEF IsRunner, Fields
<1> HIDE DEF charge
<1>10. Continues(charge)
  BY <1>8, <1>9 DEF Continues, Purses
<1>11. charge.read \subseteq DOMAIN charge.queries
  <2>1. DOMAIN queries = DOMAIN job.queries \cup read
    BY AskedGrows
  <2> HIDE DEF queries
  <2> QED
    BY <1>7, <1>9, <2>1
<1> HIDE DEF queries, tx
<1>12. ASSUME NEW why, NEW j, Continues(j), job' = Answer(Failed(why), j),
              why \in BeforeInput \/ tx.inPeriod
       PROVE  JobOK(contracts, job')
  <2>1. job.block[job.n].input = Malformed => why \in BeforeInput
    BY <1>1, <1>3, <1>12
  <2>2. JobOK(contracts, Answer(Failed(why), j))
    BY <1>1, <1>3, <1>12, <2>1, FailingKeeps
  <2> QED
    BY <1>12, <2>2
<1>13. ASSUME tx.inPeriod, job' = charge
       PROVE  JobOK(contracts, job')
  <2>1. JobOK(contracts, charge)
    <3>1. charge.at \in Running
      BY <1>9 DEF Running
    <3>2. /\ WasFound(contracts, job.block[job.n])
          /\ job.block[job.n].input # Malformed
      BY <1>1, <1>3, <1>4, <1>13
    <3> QED
      BY <1>1, <1>3, <1>10, <1>11, <3>1, <3>2, GoingOnKeeps
  <2> QED
    BY <1>13, <2>1
<1>14. JobOK(contracts, job')
  <2>1. "RUN_PERIOD" \in BeforeInput
    BY DEF BeforeInput
  <2> QED
    BY <1>2, <1>5, <1>6, <1>8, <1>12, <1>13, <2>1
<1>15. database' \in Databases /\ Cached' /\ contracts' = contracts
  BY <1>1 DEF EngineInv, Cached
<1> QED
  BY <1>14, <1>15 DEF EngineInv

LEMMA ThrowStep ==
    ASSUME EngineInv, InputThrows
    PROVE  EngineInv'
<1> DEFINE j == [job EXCEPT !.at = "thrown"]
<1>1. /\ job.at \in {"prepare"} \cup Running
      /\ job' = j /\ UNCHANGED <<database, contracts>>
  BY DEF InputThrows, Running
<1>2. JobOK(contracts, job) /\ IsRunner(job) /\ Remembers(contracts, contracts)
  BY <1>1, CurrentParts
<1>3. /\ IsRunner(j) /\ j.at = "thrown" /\ j.block = job.block /\ j.n = job.n
      /\ j.results = job.results /\ j.queries = job.queries
      /\ j.checks = job.checks
  BY <1>2 DEF IsRunner, Fields
<1> HIDE DEF j
<1>4. Continues(j)
  BY <1>2, <1>3, JobContinues DEF Continues, Purses
<1>5. JobOK(contracts, j)
  BY <1>1, <1>2, <1>3, <1>4, GoingOnKeeps DEF Running, PastInput
<1> QED
  BY <1>1, <1>5 DEF EngineInv, Cached

(* What is to be paid is a number.                                         *)
LEMMA PaysNumber ==
    ASSUME NEW cid \in DOMAIN Documents, NEW conds, NEW who
    PROVE  Pays(conds, Documents[cid], who) \in Int
<1> DEFINE fees == Documents[cid].fees
           hits == {k \in DOMAIN fees : fees[k].from = who /\ Obeyed(conds, fees[k])}
<1>1. fees \in Seq(Range(fees)) /\ \A k \in DOMAIN fees : fees[k].value \in Int
  BY FeesAssumption
<1>2. Len(fees) \in Nat /\ hits \in SUBSET (1..Len(fees)) /\ hits \subseteq DOMAIN fees
  <2> HIDE DEF fees
  <2>1. DOMAIN fees = 1..Len(fees) /\ Len(fees) \in Nat
    BY <1>1
  <2> QED
    BY <2>1
<1>3. Pays(conds, Documents[cid], who) = IF hits = {} THEN 0 ELSE fees[Max(hits)].value
  BY DEF Pays
<1> HIDE DEF fees, hits
<1>4. hits # {} => Max(hits) \in hits
  BY <1>2, MaxIsGreatest
<1> QED
  BY <1>1, <1>2, <1>3, <1>4

LEMMA ChargeStep ==
    ASSUME EngineInv, NEW who \in {"user", "author"}, Charge(who)
    PROVE  EngineInv'
<1> DEFINE u == CurrentTx[who]
           pays == Pays(job.conds, Documents[CurrentTx.cid], who)
           queries == AskedIfPaying(job.queries, pays, u)
           ok == Covers(queries, job.read, pays, u)
           check == [payer |-> u, pays |-> pays, ok |-> ok,
                     read |-> <<"wallet", u>> \in job.read]
           new == IF pays > 0 THEN {check} ELSE {}
           charged == [job EXCEPT !.queries = queries, !.checks = @ \cup new]
           next == IF who = "user" THEN "author" ELSE "set"
           on == [charged EXCEPT !.at = next]
<1>1. /\ job.at = who /\ job.at \in Running /\ job.at \in PastInput
      /\ job.at \in {"prepare"} \cup Running
      /\ job' \in {Answer(Failed("NOT_ENOUGH_FEE"), charged), on}
      /\ UNCHANGED <<database, contracts>>
  BY DEF Charge, Running, PastInput
<1>2. /\ JobOK(contracts, job) /\ IsRunner(job) /\ CurrentTx = job.block[job.n]
      /\ u \in Users /\ Remembers(contracts, contracts)
  BY <1>1, CurrentParts
<1>3. /\ WasFound(contracts, CurrentTx) /\ CurrentTx.cid \in DOMAIN Documents
      /\ CurrentTx.input # Malformed
      /\ job.read \subseteq DOMAIN job.queries
  BY <1>1, RunningParts
<1>4. pays \in Int
  BY <1>3, PaysNumber
<1>5. Amounts(job.queries) /\ \A c \in job.checks : CheckOf(job.queries, c)
  BY <1>2 DEF JobOK, Purses
<1>6. /\ Remembers(queries, job.queries) /\ Amounts(queries)
      /\ pays > 0 => <<"balance", u>> \in DOMAIN queries
  <2>1. database \in Databases
    BY DEF EngineInv
  <2>2. Remembers(job.queries, job.queries)
    BY DEF Remembers
  <2> HIDE DEF u, pays
  <2>3. CASE pays > 0
    <3> DEFINE b == <<"balance", u>>
    <3>1. queries = Asked(job.queries, {b})
      BY <2>3 DEF AskedIfPaying
    <3> HIDE DEF queries, b
    <3>2. /\ Remembers(queries, job.queries)
          /\ DOMAIN queries = DOMAIN job.queries \cup {b}
      BY <3>1, AskedGrows
    <3>3. Amounts(queries)
      BY <1>5, <2>1, <3>1, AskedAmounts
    <3> QED
      BY <3>2, <3>3 DEF b
  <2>4. CASE ~(pays > 0)
    BY <1>5, <2>2, <2>4 DEF AskedIfPaying
  <2> QED
    BY <2>3, <2>4
<1> HIDE DEF queries
<1>7. ASSUME pays > 0 PROVE CheckOf(queries, check)
  <2> DEFINE seen == <<"wallet", u>> \in job.read
  <2>1. /\ check.payer = u /\ check.pays = pays /\ check.ok = ok
        /\ check.read = seen
    BY Zenon
  <2>2. seen => <<"wallet", u>> \in DOMAIN queries
    BY <1>3, <1>6 DEF Remembers
  <2>3. HeldBy(queries, seen, u) = Balance(queries, job.read, u)
    BY DEF HeldBy, Balance
  <2>4. ok <=> HeldBy(queries, seen, u) >= pays
    BY <1>7, <2>3 DEF Covers
  <2>5. ok \in BOOLEAN /\ seen \in BOOLEAN
    BY DEF Covers
  <2> HIDE DEF check, seen, ok, pays, u
  <2>6. /\ check.payer \in Users /\ check.pays \in Int /\ check.pays > 0
        /\ <<"balance", check.payer>> \in DOMAIN queries
    BY <1>2, <1>4, <1>6, <1>7, <2>1
  <2>7. check.read \in BOOLEAN /\ check.ok \in BOOLEAN
    BY <2>1, <2>5, Zenon
  <2>8. check.read => <<"wallet", check.payer>> \in DOMAIN queries
    BY <2>1, <2>2, Zenon
  <2>9. check.ok <=> HeldBy(queries, check.read, check.payer) >= check.pays
    BY <2>1, <2>4, Zenon
  <2> QED
    BY <2>6, <2>7, <2>8, <2>9 DEF CheckOf
<1> HIDE DEF check
<1>8. /\ IsRunner(charged) /\ charged.block = job.block /\ charged.n = job.n
      /\ charged.results = job.results /\ charged.queries = queries
      /\ charged.read = job.read /\ charged.checks = job.checks \cup new
  BY <1>2 DEF IsRunner, Fields
<1>9. \A c \in charged.checks : CheckOf(queries, c)
  <2>1. \A c \in job.checks : CheckOf(queries, c)
    BY <1>5, <1>6, CheckStill
  <2> QED
    BY <1>7, <1>8, <2>1
<1> HIDE DEF charged, new, u, pays, ok
<1>10. Continues(charged)
  BY <1>6, <1>8, <1>9 DEF Continues, Purses
<1>11. /\ IsRunner(on) /\ on.at = next /\ on.block = charged.block
       /\ on.n = charged.n /\ on.results = charged.results
       /\ on.queries = charged.queries /\ on.checks = charged.checks
       /\ on.read = charged.read
  BY <1>8 DEF IsRunner, Fields
<1>12. next \in Running
  BY DEF Running
<1> HIDE DEF on, next
<1>13. Continues(on)
  BY <1>10, <1>11 DEF Continues, Purses
<1>14. JobOK(contracts, on)
  <2>1. on.read \subseteq DOMAIN on.queries
    BY <1>3, <1>6, <1>8, <1>11 DEF Remembers
  <2> QED
    BY <1>1, <1>2, <1>3, <1>11, <1>12, <1>13, <2>1, GoingOnKeeps
<1>15. JobOK(contracts, Answer(Failed("NOT_ENOUGH_FEE"), charged))
  BY <1>1, <1>2, <1>3, <1>10, FailingKeeps
<1>16. JobOK(contracts, job')
  BY <1>1, <1>14, <1>15
<1> QED
  BY <1>1, <1>16 DEF EngineInv, Cached

LEMMA SetStep ==
    ASSUME EngineInv, Set
    PROVE  EngineInv'
<1> DEFINE doc == Documents[CurrentTx.cid]
           sets == Sets(job.conds, doc)
           done == [tx |-> job.n, status |-> TRUE, why |-> "none",
                    user |-> Pays(job.conds, doc, "user"),
                    author |-> Pays(job.conds, doc, "author"), sets |-> sets]
<1>1. /\ job.at \in {"prepare"} \cup Running /\ job.at \in Running
      /\ job.at \in PastInput
      /\ \/ job' = Answer(Failed("RUN_SET"), job)
         \/ sets # <<>> /\ job' = Answer(done, job)
      /\ UNCHANGED <<database, contracts>>
  BY DEF Set, Running, PastInput
<1>2. /\ JobOK(contracts, job) /\ CurrentTx = job.block[job.n]
      /\ Remembers(contracts, contracts)
  BY <1>1, CurrentParts
<1>3. WasFound(contracts, CurrentTx) /\ CurrentTx.input # Malformed
  BY <1>1, RunningParts
<1>4. Continues(job)
  BY <1>2, JobContinues
<1>5. JobOK(contracts, Answer(Failed("RUN_SET"), job))
  BY <1>1, <1>2, <1>3, <1>4, FailingKeeps
<1>6. ASSUME sets # <<>> PROVE JobOK(contracts, Answer(done, job))
  <2>1. /\ done.tx = job.n /\ done.status /\ done.sets # <<>>
    BY <1>6
  <2> HIDE DEF done
  <2>2. ResultOf(contracts, job.block[job.n], job.n, done)
    BY <1>2, <1>3, <2>1 DEF ResultOf
  <2> QED
    BY <1>1, <1>2, <1>4, <2>2, AnswerKeeps
<1>7. JobOK(contracts, job')
  BY <1>1, <1>5, <1>6
<1> QED
  BY <1>1, <1>7 DEF EngineInv, Cached

-----------------------------------------------------------------------------
LEMMA EngineInvAlways == EngineSpec => []EngineInv
<1>1. EngineInit => EngineInv
  BY DEF EngineInit, EngineInv, Cached
<1>2. EngineInv /\ [EngineNext]_engineVars => EngineInv'
  <2> SUFFICES ASSUME EngineInv, [EngineNext]_engineVars
               PROVE  EngineInv'
    OBVIOUS
  <2>1. ASSUME NEW d \in Databases, DatabaseChanges(d)
        PROVE  EngineInv'
    <3>1. database' \in Databases /\ UNCHANGED <<contracts, job>>
      BY <2>1 DEF DatabaseChanges
    <3> QED
      BY <3>1 DEF EngineInv, Cached, Idle
  <2>2. CASE Restart
    BY <2>2 DEF Restart, EngineInv, Cached, Idle
  <2>3. CASE UNCHANGED engineVars
    BY <2>3 DEF engineVars, EngineInv, Cached, Idle
  <2> QED
    BY <2>1, <2>2, <2>3, ProcBlockStep, PrepareStep, RunStep, ThrowStep,
       ChargeStep, SetStep DEF EngineNext
<1> QED
  BY <1>1, <1>2, PTL DEF EngineSpec

(* What an invariant says of a job.                                        *)
LEMMA JobParts ==
    ASSUME EngineInv, job # Idle
    PROVE  /\ Progress(job) /\ Purses(job)
           /\ job.results \in Seq(Range(job.results))
           /\ Len(job.results) = job.n - 1
           /\ \A k \in DOMAIN job.results :
                 ResultOf(contracts, job.block[k], k, job.results[k])
BY DEF EngineInv, JobOK, AnsweredSoFar

LEMMA DoneIsNotIdle ==
    ASSUME Done
    PROVE  job # Idle
BY DEF Done, Idle

(* The cache of contracts and the job of procBlock are well formed, and    *)
(* only a transaction whose contract was found ever succeeds.              *)
THEOREM EngineTypeCorrect == EngineSpec => []EngineTypeOK
<1>1. ASSUME EngineInv PROVE EngineTypeOK
  <2>1. database \in Databases /\ Cached
    BY <1>1 DEF EngineInv
  <2>2. ASSUME job # Idle
        PROVE  /\ job.block \in Blocks /\ job.n \in 1..(Len(job.block) + 1)
               /\ job.at \in {"prepare", "run", "user", "author", "set", "done",
                              "thrown"}
               /\ Done <=> job.n = Len(job.block) + 1
               /\ \A r \in Successes : contracts[job.block[r.tx].cid]
    <3>1. /\ Progress(job)
          /\ \A k \in DOMAIN job.results :
                ResultOf(contracts, job.block[k], k, job.results[k])
      BY <1>1, <2>2, JobParts
    <3>2. ASSUME NEW r \in Successes
          PROVE  contracts[job.block[r.tx].cid]
      <4>1. PICK k \in DOMAIN job.results : r = job.results[k] /\ r.status
        BY DEF Successes, Range
      <4> QED
        BY <3>1, <4>1 DEF ResultOf, WasFound
    <3> QED
      BY <3>1, <3>2 DEF Progress, Done, Running
  <2> QED
    BY <2>1, <2>2 DEF EngineTypeOK, Cached
<1> QED
  BY <1>1, EngineInvAlways, PTL

(* A block that is answered has a result for each of its transactions, in  *)
(* their order, wherever each of them failed; one that fails pays the      *)
(* least fee and sets nothing, and one that succeeds sets something.  No   *)
(* transaction of it came as far as an input that throws.                  *)
THEOREM EveryTxAlwaysAnswered == EngineSpec => []EveryTxAnswered
<1>1. ASSUME EngineInv, Done
      PROVE  /\ Len(job.results) = Len(job.block)
             /\ \A k \in DOMAIN job.results :
                   LET r == job.results[k]
                   IN  /\ r.tx = k
                       /\ r.status <=> r.sets # <<>>
                       /\ ~r.status => r.user = MinUserFee /\ r.author = 0
                       /\ job.block[k].input = Malformed => r.why \in BeforeInput
  <2>1. /\ Progress(job) /\ Len(job.results) = job.n - 1
        /\ \A k \in DOMAIN job.results :
              ResultOf(contracts, job.block[k], k, job.results[k])
    BY <1>1, DoneIsNotIdle, JobParts
  <2>2. Len(job.results) = Len(job.block)
    BY <1>1, <2>1 DEF Progress, Done
  <2> QED
    BY <2>1, <2>2 DEF ResultOf
<1>2. EngineInv => EveryTxAnswered
  BY <1>1 DEF EveryTxAnswered
<1> QED
  BY <1>2, EngineInvAlways, PTL

(* However the database changes while a block is worked on, the verdicts   *)
(* on what one payer can pay agree throughout the block; the only          *)
(* exception is a payer of whom the database knew no balance when it was   *)
(* asked, and a transaction that had read the payer's scope itself.        *)
THEOREM VerdictsAlwaysAgree == EngineSpec => []VerdictsAgree
<1>1. ASSUME EngineInv, job # Idle, NEW c \in job.checks, NEW d \in job.checks,
             c.payer = d.payer, c.pays >= d.pays, c.ok, ~d.ok
      PROVE  /\ c.read /\ ~d.read
             /\ job.queries[<<"balance", c.payer>>] = Empty
             /\ job.queries[<<"wallet", c.payer>>] # Empty
  <2>1. /\ Amounts(job.queries)
        /\ CheckOf(job.queries, c) /\ CheckOf(job.queries, d)
    BY <1>1, JobParts DEF Purses
  <2> QED
    BY <1>1, <2>1, Disagreement
<1>2. EngineInv => VerdictsAgree
  BY <1>1 DEF VerdictsAgree
<1> QED
  BY <1>2, EngineInvAlways, PTL

=============================================================================
