------------------------------ MODULE MCFiles -------------------------------
(***************************************************************************)
(* Directories and paths for checking Files.  Names have two characters    *)
(* and extensions one.                                                     *)
(***************************************************************************)
EXTENDS Files

CONSTANT TailLength  \* bound: characters behind "0:/" in a short path

Entry(n, x, a) == [name |-> n, ext |-> x, attr |-> a]
MCEntries ==
  {Entry(<<"A", Blank>>, <<Blank>>, Blank), Entry(<<"A", Blank>>, <<"A">>, Blank),
   Entry(<<"A", "A">>, <<"A">>, Blank), Entry(<<"A", "A">>, <<Blank>>, "ro"),
   Entry(<<"A", Blank>>, <<"A">>, "ro"), Entry(<<"E5", Blank>>, <<Blank>>, Blank),
   Entry(<<"A", Blank>>, <<Blank>>, "sub")}

\* Every short path, and some longer ones: an empty part in the middle, a name
\* that fills its field, too many characters, no drive, no slash.
MCCharacters == {"0", ":", Slash, "a", "."}
Drive == <<"0", ":", Slash>>
MCPaths ==
  {Drive \o t : t \in UNION {[1..n -> {"a", ".", Slash}] : n \in 0..TailLength}}
    \cup {Drive \o <<"a", ".", "a">>, Drive \o <<"a", Slash, "a">>,
          Drive \o <<"a", Slash, Slash, "a">>, Drive \o <<"a", "a", ".", "a">>,
          Drive \o <<"a", "a", "a", "a", "a">>, <<"a", ":", Slash>>, <<"0", ":">>}
MCShellPath == Drive \o <<"a">>
=============================================================================
