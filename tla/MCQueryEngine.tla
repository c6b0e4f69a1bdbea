---------------------------- MODULE MCQueryEngine ----------------------------
(* Requests of one or two keys compete for the cache with the shortest search  *)
(* there is; DRIFT and Global searches run alone, as what follows the cache    *)
(* shares nothing.  Hierarchies: a tree of three levels, some with communities  *)
(* that have no report, one of whose levels is missing then; one with a cycle; *)
(* a chain of four levels without children; and a messy one with rows and      *)
(* children that are repeated and a child that has no row.                     *)
EXTENDS QueryEngine
Asks(method, k, resolves) == [method |-> method, key |-> k, resolves |-> resolves]
MCFollowUps == {<<>>, <<"q1", "q0">>, <<"q2", "q3">>}
Tree(backed) ==
    [order |-> <<"a", "b", "c", "d", "e">>, backed |-> backed,
     level |-> [a |-> 0, b |-> 0, c |-> 1, d |-> 1, e |-> 2],
     parent |-> [a |-> "-1", b |-> "-1", c |-> "a", d |-> "a", e |-> "c"],
     children |-> [a |-> <<"c", "d">>, b |-> <<>>, c |-> <<"e">>, d |-> <<>>, e |-> <<>>]]
Cycle ==
    [order |-> <<"a", "b">>, backed |-> {"a", "b"}, level |-> [a |-> 0, b |-> 1],
     parent |-> [a |-> "b", b |-> "a"], children |-> [a |-> <<"b">>, b |-> <<"a">>]]
Chain ==
    [order |-> <<"a", "b", "c", "d">>, backed |-> {"a", "b", "c", "d"},
     level |-> [a |-> 0, b |-> 1, c |-> 2, d |-> 3],
     parent |-> [c \in {"a", "b", "c", "d"} |-> "-1"],
     children |-> [c \in {"a", "b", "c", "d"} |-> <<>>]]
Messy ==
    [order |-> <<"a", "b", "a">>, backed |-> {"a", "b", "z"},
     level |-> [a |-> 0, b |-> 1, z |-> 0], parent |-> [a |-> "-1", b |-> "a", z |-> "-1"],
     children |-> [a |-> <<"b", "b", "a">>, b |-> <<"z", "b">>, z |-> <<>>]]
Whole == Tree({"a", "b", "c", "d", "e"})
MCScenarios ==
    {[hierarchy |-> Whole,
      asks |-> [r1 |-> Asks("Local", "k1", TRUE), r2 |-> Asks("Local", "k1", TRUE),
                r3 |-> Asks("Local", k, resolves)]] : k \in {"k1", "k2"}, resolves \in BOOLEAN}
    \cup {[hierarchy |-> Whole, asks |-> [r1 |-> Asks(method, "k1", TRUE)]] :
              method \in {"Drift", "Global"}}
    \cup {[hierarchy |-> h, asks |-> [r1 |-> Asks("Dynamic", "k1", TRUE)]] :
              h \in {Whole, Tree({"a", "b", "d"}), Tree({"a", "b", "e"}), Tree({"c", "d"}),
                    Cycle, Chain, Messy}}
=============================================================================
