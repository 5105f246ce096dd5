---------------------------- MODULE MCCharacter ----------------------------
(* One starting inventory, with an item on the cursor, one in the last slot *)
(* of an array and one whose script is gone; the second of two bind points  *)
(* named; a book of two spells.  The item file has the scripts of two scans *)
(* behind it.                                                               *)
EXTENDS Character

Ids == 1000 .. 1003
MCHashes == [Ids -> 0 .. 3]
MCScans == {<< <<"a", 1>>, <<"b", 1>>, <<"c", 1>> >>,
            << <<"d", 2>>, <<"b", 2>>, <<"a", 1>> >>,
            << <<"c", 1>>, <<"b", 1>>, <<"d", 2>>, <<"a", 2>> >>,
            << <<"b", 1>>, <<"b", 1>> >>, << <<"d", 1>> >>}
MCPlayedScans == << << <<"a", 1>>, <<"b", 1>>, <<"c", 1>> >>, << <<"d", 2>>, <<"b", 2>>, <<"a", 1>> >> >>
MCPlayedHash == [id \in Ids |-> id % 2]

MCStartItems == {<< <<13, 1000>>, <<30, 1000>>, <<340, 1001>>, <<13, 1002>> >>}
MCStartBinds == {{<<1, "gfaydark">>, <<5, "qeynos2">>}}
MCBooks == {{<<0, 5>>, <<1, 6>>}}
============================================================================
