------------------------------- MODULE MCRoster -------------------------------
(* A roster of two: two spellings of one character, another character, and *)
(* a Battle.net roster of both.                                            *)
EXTENDS Roster
CONSTANTS r1, r2
MCRequests == {r1, r2}
MCChars == {"kor", "Kor", "vex"}
MCFold(ch) == IF ch = "Kor" THEN "kor" ELSE ch
MCClasses == {"druid", "mage"}
MCRoles == {"tank", "damage"}
MCClassRoles == [k \in MCClasses |-> IF k = "druid" THEN MCRoles ELSE {"damage"}]
MCDefaultRole == [k \in MCClasses |-> "damage"]
MCProfile == <<[char |-> "Kor", class |-> "mage"], [char |-> "kor", class |-> None],
               [char |-> "vex", class |-> "druid"]>>
===============================================================================
