---- MODULE MCMatchmaking ----
(* Instances of Matchmaking for TLC. *)
EXTENDS Matchmaking, TLC

CONSTANTS x, y, p1, r1, a1, a2, a3, v1, v2, m1, m2, s1, s2, s3

IdSymmetry == Permutations(SearchIds) \cup Permutations(MatchIds) \cup Permutations(Accounts)
RowSymmetry == Permutations(SearchIds) \cup Permutations(MatchIds)
               \cup Permutations(Servers)
Symmetry == RowSymmetry \cup Permutations(Accounts)

Duel == [mode |-> "duel", maps |-> {}, variants |-> {}]
ChoicesDuel == {Duel}
RequiredDuel == [k \in {"duel"} |-> 2]
RequiredTrio == [k \in {"duel"} |-> 3]
OneServer == [v \in Servers |-> [mode |-> "duel", map |-> NoMap]]
SetupDuel == {[mode |-> "duel", map |-> NoMap]}
NoParties == [a \in Accounts |-> {None}]
LeaderParty == [a \in Accounts |-> CASE a = a1 -> {{a1, a2}} [] OTHER -> {None}]

Search(mode, maps, variants) == [mode |-> mode, maps |-> maps, variants |-> variants]
ChoicesMaps == {Search("duel", {}, {}), Search("duel", {x}, {})}
ChoicesClassic == {Search("casual", {}, {}),
                   Search("skirmish", {}, {[mode |-> "casual", maps |-> {y}], [mode |-> "skirmish", maps |-> {x}]})}
RequiredClassic == [k \in {"duel", "casual", "skirmish"} |-> IF k = "duel" THEN 2 ELSE 1]
MapFleet == [v \in Servers |-> [mode |-> "duel", map |-> x]]
MixedFleet == [v \in Servers |-> [mode |-> "casual", map |-> IF v = v1 THEN x ELSE y]]
SetupsMaps == {[mode |-> "duel", map |-> y]}
SetupsClassic == {[mode |-> "skirmish", map |-> x]}
ProfilesMaps == {[mode |-> "duel", players |-> 1, maps |-> {y}, server |-> None, prio |-> 1, on |-> TRUE],
                  [mode |-> "duel", players |-> 2, maps |-> {}, server |-> v1, prio |-> 0, on |-> TRUE]}
====
