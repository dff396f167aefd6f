---------------------------- MODULE MCAssignments ----------------------------
(* Small instances of Assignments for TLC. *)
EXTENDS Assignments, TLC

GetNewCall(c) == [kind |-> "getnew", client |-> c]
Update(olds, news) == [kind |-> "update", olds |-> olds, news |-> news]

TwoProxies == <<"a", "b">>
AllCalls == {GetNewCall("c1"), GetNewCall("c2"),
             Update(<<"a">>, <<"n">>), Update(<<"b", "a">>, <<"m", "n">>), Update(<<"a">>, <<"n", "m">>),
             Update(<<>>, <<"n">>), Update(<<"b", "a">>, <<>>), Update(<<"n">>, <<>>), Update(<<>>, <<>>),
             [kind |-> "getid"], [kind |-> "reset"]}
AllClients == {"c0", "c1", "c2"}
Symmetry == Permutations(Requests)
=============================================================================
