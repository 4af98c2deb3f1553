-------------------------------- MODULE Lists --------------------------------
(***************************************************************************)
(* What comprehensions, queries with a condition, dicts of lists and sorts *)
(* make of a list, said by the positions of its members: no operator here  *)
(* recurses or hides its definition, so their results can be proved about. *)
(***************************************************************************)
EXTENDS Integers, FiniteSets, Sequences

(* The member of I that n members do not exceed, and the part of s at the  *)
(* positions I.                                                            *)
Nth(I, n) == CHOOSE i \in I : Cardinality({j \in I : j <= i}) = n
Part(s, I) == [n \in 1..Cardinality(I) |-> s[Nth(I, n)]]

(* The members that pass a test, as they come.                             *)
Kept(s, Test(_)) == Part(s, {i \in DOMAIN s : Test(s[i])})

(* The keys of a dict of lists filled member by member: each where it is   *)
(* met first.                                                              *)
Keys(s, Key(_)) ==
  LET k == [i \in DOMAIN s |-> Key(s[i])]
  IN Part(k, {i \in DOMAIN s : \A j \in 1..i-1 : k[j] # k[i]})
Group(s, Key(_), k) == Kept(s, LAMBDA x : Key(x) = k)

(* s in the order of its ranks 1, 2, ...                                   *)
RankOrder(s, rank) == [n \in DOMAIN s |-> s[CHOOSE i \in DOMAIN s : rank[i] = n]]
=============================================================================
