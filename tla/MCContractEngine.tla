-------------------------- MODULE MCContractEngine --------------------------
(***************************************************************************)
(* Contracts, blocks and databases on which TLC checks ContractEngine.     *)
(***************************************************************************)
EXTENDS ContractEngine, TLC

CONSTANTS u1, u2, shop, swap, free, purse, cond, other, yes, no, empty, bad

Always(from, value) == [if |-> NoId, neg |-> FALSE, from |-> from, value |-> value]
When(id, neg) == [if |-> id, neg |-> neg, valid |-> TRUE]
OnlyIf(id, from, value) == [if |-> id, neg |-> FALSE, from |-> from, value |-> value]
Get(id, of) == [if |-> id, neg |-> FALSE, of |-> of]

(* shop tests its input and its user, who pays for what it sets; swap has  *)
(* conditions of the same ids over what it gets, sets one thing or the     *)
(* other, and the author pays; free has no fee; purse reads what its user, *)
(* who pays, has.                                                          *)
Ids == {shop, swap, free, purse}
Contracts ==
    [c \in Ids |->
        [wellFormed |-> TRUE,
         conditions |-> CASE c = shop -> cond :> [looksAt |-> {"input"}]
                                       @@ other :> [looksAt |-> {"user"}]
                          [] c = swap -> cond :> [looksAt |-> {"scope"}]
                                       @@ other :> [looksAt |-> {"user", "scope"}]
                          [] OTHER -> <<>>,
         gets |-> CASE c = swap -> <<Get(NoId, "contract"), Get(other, "author")>>
                    [] c = purse -> <<Get(NoId, "user")>>
                    [] OTHER -> <<>>,
         fees |-> CASE c = shop -> <<Always("user", 10), OnlyIf(other, "user", 20)>>
                    [] c = swap -> <<Always("author", 10)>>
                    [] c = purse -> <<Always("user", 20)>>
                    [] c = free -> <<>>,
         sets |-> CASE c = shop -> <<When(cond, FALSE), When(other, FALSE)>>
                    [] c = swap -> <<When(cond, FALSE), When(cond, TRUE)>>
                    [] OTHER -> <<When(NoId, FALSE)>>]]

T(c, user, author, input) ==
    [cid |-> c, user |-> user, author |-> author, receiver |-> u2,
     input |-> input, fee |-> 10, named |-> TRUE, complete |-> TRUE,
     inPeriod |-> TRUE]

TestBlocks ==
    LET a == T(shop, u1, u2, yes)
        b == T(shop, u1, u2, no)
        c == T(swap, u2, u1, yes)
        d == T(shop, u2, u1, no)
        e == T(purse, u1, u2, yes)
        f == T(purse, u2, u1, bad)
    IN  { <<>>, <<a, a>>, <<d, a>>, <<a, b, c>>, <<c, d, a>>, <<b, c, c>>,
          <<a, e>>, <<e, b, e>>, <<c, f, e>>,
          <<a, [f EXCEPT !.inPeriod = FALSE], f>>,
          <<[a EXCEPT !.named = FALSE], [b EXCEPT !.complete = FALSE], c>>,
          <<[c EXCEPT !.fee = 9], [a EXCEPT !.inPeriod = FALSE], a>>,
          <<T(swap, u1, u2, empty), T(free, u1, u2, yes), a>> }

(* Before anything, after swap was stored and u2 registered, and after     *)
(* payments and a change of the scope; at first u2 has nothing, later u1.  *)
D(stored, users, low, high, scope) ==
    LET balance == [u \in {u1, u2} |-> IF u = u1 THEN low ELSE high]
    IN  [contract |-> [c \in Ids |-> c \in stored],
         info |-> [u \in {u1, u2} |-> IF u \notin users THEN empty
                                  ELSE IF u = u1 THEN yes ELSE no],
         balance |-> balance, wallet |-> balance,
         scope |-> [c \in Ids |-> scope]]

TestDatabases ==
    { D({shop, free}, {u1}, 20, empty, empty), D(Ids, {u1, u2}, 20, 10, yes),
      D(Ids, {u1, u2}, empty, 10, no), D(Ids, {u1, u2}, 10, 0, no) }

Looks == {"user", "input", "scope"}

=============================================================================
