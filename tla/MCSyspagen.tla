----------------------------- MODULE MCSyspagen -----------------------------
(* Instances of Syspagen for TLC. *)
EXTENDS Syspagen

MCNameSz == [x \in Names |-> IF x = "a" THEN 2 ELSE 3]

MapCmd(x, s, e) == [cmd |-> "map", name |-> x, start |-> s, end |-> e]
AppCmd(x, im, dm, ex) == [cmd |-> "app", name |-> x, imaps |-> im, dmaps |-> dm, exec |-> ex]
AliasCmd(x, ad, sz) == [cmd |-> "alias", name |-> x, addr |-> ad, size |-> sz]

\* Maps that touch, contain or miss one another, an empty one, a name used
\* twice; programs with one and two maps, and with a map that may not be there.
MCCommands ==
    {MapCmd("a", 0, 4), MapCmd("b", 4, 6), MapCmd("b", 2, 3), MapCmd("c", 6, 8),
     MapCmd("c", 5, 5), MapCmd("a", 7, 8),
     AliasCmd("a", 1, 2), AliasCmd("a", 4, 1),
     AppCmd("a", <<"b">>, <<"b", "a">>, TRUE), AppCmd("a", <<"c", "b">>, <<"a">>, FALSE),
     [cmd |-> "console", minor |-> 1], [cmd |-> "wrong"]}

\* The same with a map and an alias whose addresses do not fit into 32 bits.
WideCommands == MCCommands \cup {MapCmd("b", 9, 11), AliasCmd("a", 6, 5)}

\* Maps at the top of the address space, whose end is AddrMod32.
TopCommands == {MapCmd("a", 4, AddrMod32), MapCmd("b", 6, 7), MapCmd("c", 0, 2)}
=============================================================================
