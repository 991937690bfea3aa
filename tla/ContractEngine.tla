--------------------------- MODULE ContractEngine ---------------------------
(***************************************************************************)
(* How the contract engine answers a block: ContractEngine::procBlock with *)
(* the ContractRunner it makes for the block, and what is remembered from  *)
(* one transaction to the next -- the answers of the database, the results *)
(* of the contracts' conditions -- and, as long as the process lives, the  *)
(* contracts.  procBlock runs on the io thread; the main thread, which     *)
(* pushes the blocks of start(), may change the database meanwhile.        *)
(*                                                                         *)
(* A contract is what its directives test and yield; a condition holds     *)
(* when every value it looks at is Yes.  Values are named by what they     *)
(* come from.  Scopes are read by get only, not by the element var of a    *)
(* condition.  The database knows its world and chain.                     *)
(***************************************************************************)
EXTENDS Integers, Sequences, FiniteSets, SequencesExt

CONSTANTS
    Blocks,     \* the blocks to process: sequences of transactions, with
                \* their user, author, receiver, contract id, fee and input,
                \* and whether all ids and all other elements are there, in
                \* the contract's period
    Users,      \* the users and authors
    Databases,  \* the states the database can be in: the answer for each kind
                \* of query and each id
    Documents,  \* the contracts that may be stored, by id
    Vars,       \* what conditions look at: "user", "input" and "scope"
    Yes, Empty, \* the value a condition looks for, and no value
    Malformed,  \* an input that is not what parseInput takes for granted
    MinUserFee, \* MIN_USER_FEE
    NoId        \* a directive without a condition

(* A contract id that no contract has may lead to any document: the        *)
(* database never answers that it is there.                                *)
ASSUME BlocksAssumption ==
    \A b \in Blocks :
        /\ b \in Seq(Range(b))
        /\ \A k \in DOMAIN b : /\ b[k].user \in Users /\ b[k].author \in Users
                               /\ b[k].named => b[k].cid \in DOMAIN Documents
ASSUME DatabasesAssumption ==
    \A d \in Databases :
        /\ \A cid \in DOMAIN Documents : d["contract"][cid] \in BOOLEAN
        /\ \A u \in Users : /\ d["balance"][u] \in Int \cup {Empty}
                            /\ d["wallet"][u] \in Int \cup {Empty}
ASSUME FeesAssumption ==
    \A cid \in DOMAIN Documents :
        LET fees == Documents[cid].fees
        IN  /\ fees \in Seq(Range(fees))
            /\ \A k \in DOMAIN fees : fees[k].value \in Int

VARIABLES
    database,  \* what the read interface would answer now
    contracts, \* m_contract_cache: whether a contract was found, by id
    job        \* the block procBlock is working on, and its runner

engineVars == <<database, contracts, job>>

Idle == [at |-> "idle"]
Busy == job.at \notin {"idle", "done"}
Thrown == job.at = "thrown"
CurrentTx == job.block[job.n]

EngineInit ==
    /\ database \in Databases
    /\ contracts = <<>>
    /\ job = Idle

(* Another thread writes to the database.                                  *)
DatabaseChanges(d) ==
    /\ ~Thrown /\ d # database
    /\ database' = d
    /\ UNCHANGED <<contracts, job>>

(* procBlock begins: a new runner knows nothing yet.  It answers nothing   *)
(* for a block without transactions.                                       *)
ProcBlock(b) ==
    /\ ~Busy /\ b # <<>>
    /\ job' = [at |-> "prepare", block |-> b, n |-> 1, results |-> <<>>,
               conds |-> <<>>, queries |-> <<>>, read |-> {},
               used |-> {}, checks |-> {}]
    /\ UNCHANGED <<database, contracts>>

-----------------------------------------------------------------------------
(* What is in a map already stays when more is inserted.                   *)
Inserted(map, more) ==
    [x \in DOMAIN map \cup DOMAIN more |-> IF x \in DOMAIN map THEN map[x] ELSE more[x]]

(* What the database answers to queries, each a kind and an id.            *)
Answers(asks) == [q \in asks |-> database[q[1]][q[2]]]

(* Mutant of Asked: every query goes to the database.                      *)
AskedAgain(queries, asks) == Inserted(Answers(asks), queries)

(* queryAndCache: the database is asked once a block.                      *)
Asked(queries, asks) == Inserted(queries, Answers(asks))

(* getContract: what was found, or not found, at the first lookup.         *)
GetContract(cid) ==
    Inserted(contracts, [c \in {cid} |-> database["contract"][c]])

(* Mutant of Found: a contract that was not found is in the cache as well. *)
FoundInCache(cs, tx) == tx.cid \in DOMAIN cs /\ Documents[tx.cid].wellFormed

Found(cs, tx) == cs[tx.cid] /\ Documents[tx.cid].wellFormed

(* readUserAttributes looks all three up before it finds one missing.      *)
ReadUserAttributes(queries, tx) ==
    Asked(queries, {<<"info", u>> : u \in {tx.user, tx.receiver, tx.author}})

Known(queries, tx) ==
    \A u \in {tx.user, tx.receiver, tx.author} : queries[<<"info", u>>] # Empty

(* Mutant of Add: procBlock goes on with the next transaction at once.     *)
AddUnlessRefused(r) == IF r.why \in {"INVALID_TX", "NO_CONTRACT", "NO_USER"}
                       THEN job.results ELSE Append(job.results, r)

Add(r) == Append(job.results, r)

Failed(why) == [tx |-> job.n, status |-> FALSE, why |-> why, user |-> MinUserFee,
                author |-> 0, sets |-> <<>>]

(* The transaction is answered, and the next one is up.                    *)
Answer(r, runner) ==
    [runner EXCEPT !.results = Add(r), !.n = @ + 1,
                   !.at = IF job.n = Len(job.block) THEN "done" ELSE "prepare"]

(* The part of procBlock that may refuse a transaction before it is run.   *)
Prepare ==
    /\ job.at = "prepare"
    /\ LET tx == CurrentTx
           ready == tx.complete /\ tx.fee >= MinUserFee
           read == [job EXCEPT !.queries = ReadUserAttributes(@, tx)]
       IN  /\ contracts' = IF tx.named THEN GetContract(tx.cid) ELSE contracts
           /\ job' = IF ~tx.named THEN Answer(Failed("INVALID_TX"), job)
                     ELSE IF ~Found(contracts', tx)
                     THEN Answer(Failed("NO_CONTRACT"), job)
                     ELSE IF ~ready THEN Answer(Failed("INVALID_TX"), job)
                     ELSE IF ~Known(read.queries, tx)
                     THEN Answer(Failed("NO_USER"), read)
                     ELSE [read EXCEPT !.at = "run"]
    /\ UNCHANGED database

-----------------------------------------------------------------------------
Holds(cond, values) == \A x \in cond.looksAt : values[x] = Yes
Conditions(doc, values) ==
    [id \in DOMAIN doc.conditions |-> Holds(doc.conditions[id], values)]

(* ConditionManager::evalue of every condition.  It looks for changed      *)
(* values by a hash of some of them, and then evaluates again; but insert  *)
(* keeps the result of the first time, for this and every other contract   *)
(* with a condition of that id.                                            *)
Evaluated(conds, doc, values) == Inserted(conds, Conditions(doc, values))

(* getEvalResultById: a directive whose condition is unknown is obeyed.    *)
Obeyed(conds, dir) ==
    dir.if \in DOMAIN conds => conds[dir.if] = ~dir.neg

(* The values at first, after input, and after get.                        *)
Values(tx, queries) ==
    [x \in Vars |-> IF x = "user" THEN queries[<<"info", tx.user>>] ELSE Empty]
WithInput(values, tx) == [values EXCEPT !["input"] = tx.input]
WithScope(values, tx, read, queries) ==
    IF <<"scope", tx.cid>> \in read
    THEN [values EXCEPT !["scope"] = queries[<<"scope", tx.cid>>]] ELSE values

(* parseGet: an obeyed directive reads the scope of the contract, or what  *)
(* the scope of the user or of the author has under the name of the        *)
(* currency; the answer is in m_user_scope_table for this transaction.     *)
Reads(conds, doc, tx) ==
    {IF dir.of = "contract" THEN <<"scope", tx.cid>> ELSE <<"wallet", tx[dir.of]>> :
        dir \in {g \in Range(doc.gets) : Obeyed(conds, g)}}

(* parseGet of the fees: the last one obeyed counts.                       *)
Pays(conds, doc, from) ==
    LET hits == {k \in DOMAIN doc.fees : doc.fees[k].from = from
                                         /\ Obeyed(conds, doc.fees[k])}
    IN  IF hits = {} THEN 0 ELSE doc.fees[Max(hits)].value

(* getUserKeyCurrency: what the database answers, or, if it knows nothing, *)
(* what this transaction read of the scope.                                *)
Balance(queries, read, u) ==
    LET held == queries[<<"balance", u>>]
        seen == queries[<<"wallet", u>>]
    IN  IF held # Empty THEN held
        ELSE IF <<"wallet", u>> \in read /\ seen # Empty THEN seen ELSE 0

(* It is called only if there is something to pay.                         *)
AskedIfPaying(queries, pays, u) ==
    IF pays > 0 THEN Asked(queries, {<<"balance", u>>}) ELSE queries
Covers(queries, read, pays, u) == pays > 0 => Balance(queries, read, u) >= pays

(* parseSet: the queries of the directives that are obeyed and valid.      *)
Sets(conds, doc) ==
    SelectSeq([k \in DOMAIN doc.sets |-> k],
              LAMBDA k : doc.sets[k].valid /\ Obeyed(conds, doc.sets[k]))

(* The conditions that the fee and set directives ask for.                 *)
Consulted(doc) ==
    {dir.if : dir \in Range(doc.fees) \cup Range(doc.sets)}
        \cap DOMAIN doc.conditions

(* ContractRunner::run up to the fees, in its order: period, conditions,   *)
(* input, conditions, get, conditions, fee.                                *)
Run ==
    /\ job.at = "run"
    /\ CurrentTx.inPeriod => CurrentTx.input # Malformed
    /\ LET tx == CurrentTx
           doc == Documents[tx.cid]
           v0 == Values(tx, job.queries)
           c0 == Evaluated(job.conds, doc, v0)
           v1 == WithInput(v0, tx)
           c1 == Evaluated(c0, doc, v1)
           read == Reads(c1, doc, tx)
           queries == Asked(job.queries, read)
           v2 == WithScope(v1, tx, read, queries)
           c2 == Evaluated(c1, doc, v2)
           get == [job EXCEPT !.conds = c2, !.queries = queries, !.read = read,
                      !.used = @ \cup
                          {<<c2[id], Holds(doc.conditions[id], v2)>> :
                              id \in Consulted(doc)}]
       IN  job' =
             IF ~tx.inPeriod THEN Answer(Failed("RUN_PERIOD"), job)
             ELSE IF tx.input = Empty
             THEN Answer(Failed("RUN_INPUT"), [job EXCEPT !.conds = c0])
             ELSE IF doc.fees = <<>> THEN Answer(Failed("RUN_FEE"), get)
             ELSE [get EXCEPT !.at = "user"]
    /\ UNCHANGED <<database, contracts>>

(* Reading the input throws, and neither run() nor procBlock nor the timer *)
(* catches it: it leaves the io thread, which ends the process.            *)
InputThrows ==
    /\ job.at = "run"
    /\ CurrentTx.inPeriod /\ CurrentTx.input = Malformed
    /\ job' = [job EXCEPT !.at = "thrown"]
    /\ UNCHANGED <<database, contracts>>

(* The process is started again.                                           *)
Restart ==
    /\ Thrown
    /\ job' = Idle /\ contracts' = <<>>
    /\ UNCHANGED database

(* ContractRunner::run asks for the balance of the user, then for that of  *)
(* the author.                                                             *)
Charge(who) ==
    /\ job.at = who
    /\ LET u == CurrentTx[who]
           pays == Pays(job.conds, Documents[CurrentTx.cid], who)
           queries == AskedIfPaying(job.queries, pays, u)
           ok == Covers(queries, job.read, pays, u)
           check == [payer |-> u, pays |-> pays, ok |-> ok,
                     read |-> <<"wallet", u>> \in job.read]
           charged == [job EXCEPT !.queries = queries,
                          !.checks = @ \cup (IF pays > 0 THEN {check} ELSE {})]
       IN  job' = IF ~ok THEN Answer(Failed("NOT_ENOUGH_FEE"), charged)
                  ELSE [charged EXCEPT !.at = IF who = "user" THEN "author"
                                              ELSE "set"]
    /\ UNCHANGED <<database, contracts>>

(* The end of ContractRunner::run: the fees, and the queries of set.       *)
Set ==
    /\ job.at = "set"
    /\ LET doc == Documents[CurrentTx.cid]
           sets == Sets(job.conds, doc)
       IN  job' = IF sets = <<>> THEN Answer(Failed("RUN_SET"), job)
                  ELSE Answer([tx |-> job.n, status |-> TRUE, why |-> "none",
                               user |-> Pays(job.conds, doc, "user"),
                               author |-> Pays(job.conds, doc, "author"),
                               sets |-> sets], job)
    /\ UNCHANGED <<database, contracts>>

EngineNext ==
    \/ \E d \in Databases : DatabaseChanges(d)
    \/ \E b \in Blocks : ProcBlock(b)
    \/ \E who \in {"user", "author"} : Charge(who)
    \/ Prepare \/ Run \/ InputThrows \/ Set \/ Restart

EngineSpec == EngineInit /\ [][EngineNext]_engineVars

-----------------------------------------------------------------------------
Done == job.at = "done"
Successes == {r \in Range(job.results) : r.status}

(* While a block is worked on there is a result for each earlier           *)
(* transaction, and only a transaction whose contract was found succeeds.  *)
EngineTypeOK ==
    /\ database \in Databases
    /\ DOMAIN contracts \subseteq DOMAIN Documents
    /\ \A cid \in DOMAIN contracts : contracts[cid] \in BOOLEAN
    /\ job # Idle =>
          /\ job.block \in Blocks /\ job.n \in 1..(Len(job.block) + 1)
          /\ job.at \in {"prepare", "run", "user", "author", "set", "done", "thrown"}
          /\ Done <=> job.n = Len(job.block) + 1
          /\ \A r \in Successes : contracts[job.block[r.tx].cid]

(* All or nothing: the answer for a block has one result for each of its   *)
(* transactions, in order; whatever makes one fail, it pays the least fee  *)
(* and sets nothing, and one that succeeds sets something.  But there is   *)
(* no answer if a transaction that is run has an input that throws.        *)
BeforeInput == {"INVALID_TX", "NO_CONTRACT", "NO_USER", "RUN_PERIOD"}

EveryTxAnswered ==
    Done =>
        /\ Len(job.results) = Len(job.block)
        /\ \A k \in DOMAIN job.results :
              LET r == job.results[k]
              IN  /\ r.tx = k
                  /\ r.status <=> r.sets # <<>>
                  /\ ~r.status => r.user = MinUserFee /\ r.author = 0
                  /\ job.block[k].input = Malformed => r.why \in BeforeInput

(* However the database changes while a block is worked on, a user who     *)
(* could not pay a fee can pay neither it nor a higher one for another     *)
(* transaction of the block -- unless the database knew of no balance when *)
(* the block asked for it, and only the one that could pay had itself read *)
(* the user's scope, at a moment when there was one.                       *)
VerdictsAgree ==
    job # Idle =>
        \A c, d \in job.checks :
            c.payer = d.payer /\ c.pays >= d.pays /\ c.ok /\ ~d.ok =>
                /\ c.read /\ ~d.read
                /\ job.queries[<<"balance", c.payer>>] = Empty
                /\ job.queries[<<"wallet", c.payer>>] # Empty

(* condition_manager.cpp: a value is changed, the cache is invalid, the    *)
(* condition is evaluated again -- so that a directive obeys its condition *)
(* as it is when the directive's turn comes.                               *)
DirectivesSeeValues == job # Idle => \A u \in job.used : u[1] = u[2]

=============================================================================
