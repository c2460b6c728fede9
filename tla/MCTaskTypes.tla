----------------------------- MODULE MCTaskTypes -----------------------------
(***************************************************************************)
(* Releases that add, drop, lengthen and shorten task types, and lists     *)
(* that onModuleInit has to refuse.                                        *)
(***************************************************************************)
EXTENDS TaskTypes

St(s, fields) == [status |-> s, fields |-> fields]

Def(ty, statuses) == [type |-> ty, named |-> TRUE, statuses |-> statuses]

Procurement ==
    Def("procurement", <<St(1, <<>>), St(2, <<"quote1", "quote2">>), St(3, <<"receipt">>)>>)

Short == Def("procurement", <<St(1, <<>>), St(2, <<"quote1", "quote2">>)>>)

Development == Def("development", <<St(1, <<>>), St(2, <<"spec">>)>>)

Shuffled == Def("development", <<St(2, <<"spec">>), St(1, <<>>)>>)

Gap == Def("procurement", <<St(1, <<>>), St(3, <<"receipt">>), St(4, <<>>)>>)

Growing == {<<Development>>, <<Procurement>>, <<Development, Procurement>>,
            <<Development, Development>>, <<Gap>>, <<Development, Gap>>}

Shrinking == {<<Development, Procurement>>, <<Development, Short>>}

Unordered == {<<Shuffled>>}
==============================================================================
