---------------------------- MODULE FatDirectory ----------------------------
(***************************************************************************)
(* Directories of the FAT16 driver: how many entries one has, the name of  *)
(* an entry, and the search for a name.  An entry is what lies on the disk:*)
(* name and extension padded with blanks, an attribute byte.  A byte of an *)
(* entry is a character; "nul" is 0, "E5" the mark of a deleted entry,     *)
(* "sub" the attribute of a directory, "ro" that of a read-only file, and  *)
(* a blank the attribute of a file that is to be archived (0x20).          *)
(***************************************************************************)
EXTENDS Integers, Sequences, FiniteSets

CONSTANTS NameLength, ExtLength  \* 8 and 3

ASSUME NameAssumption == NameLength \in Nat \ {0} /\ ExtLength \in Nat \ {0}

Blank == " "
EndOfName == {"nul", Blank}

to_lower(c) == IF c = "A" THEN "a" ELSE IF c = "B" THEN "b" ELSE c

\* istrncmp = 0
SameName(s, t) ==
  Len(s) = Len(t) /\ \A i \in DOMAIN s : to_lower(s[i]) = to_lower(t[i])

\* The entry as bytes in a row; the reserved byte behind the attributes is 0.
Raw(e) == e.name \o e.ext \o <<e.attr, "nul">>

\* strcpy_strip: up to a blank or 0, which need not be in the same field.
strcpy_strip(raw, from) ==
  LET end == CHOOSE k \in from..Len(raw) :
               raw[k] \in EndOfName /\ \A j \in from..(k - 1) : raw[j] \notin EndOfName
  IN SubSeq(raw, from, end - 1)

fat16_get_full_relative_filename(e) ==
  strcpy_strip(Raw(e), 1)
    \o IF e.ext[1] \in EndOfName THEN <<>>
       ELSE <<".">> \o strcpy_strip(Raw(e), NameLength + 1)

Deleted(e) == e.name[1] = "E5"
IsDirectory(e) == e.attr = "sub"

\* mutant: the last entry is not counted
total_items_short(dir) == Cardinality({i \in DOMAIN dir : ~Deleted(dir[i])}) - 1

\* dir is what is on the disk in front of the entry that begins with 0.
fat16_get_total_items_for_directory(dir) ==
  Cardinality({i \in DOMAIN dir : ~Deleted(dir[i])})

\* mutant: a name that begins with the name that is wanted will do
find_item_by_prefix(dir, name) ==
  {i \in 1..fat16_get_total_items_for_directory(dir) :
     LET full == fat16_get_full_relative_filename(dir[i])
     IN Len(name) <= Len(full) /\ SameName(SubSeq(full, 1, Len(name)), name)}

\* fat16_find_item_in_directory looks at as many entries as there are live ones,
\* the deleted ones included; of those that match the first is taken.
fat16_find_item_in_directory(dir, name) ==
  {i \in 1..fat16_get_total_items_for_directory(dir) :
     SameName(fat16_get_full_relative_filename(dir[i]), name)}
-----------------------------------------------------------------------------
(* What the name of an entry is, field by field. *)

\* Fields are filled up with blanks.
Padded(f) == \A k \in DOMAIN f : f[k] = Blank => \A m \in k..Len(f) : f[m] = Blank

IsEntry(e) ==
  /\ e.name \in [1..NameLength -> STRING \ {"nul"}] /\ Padded(e.name) /\ e.name[1] # Blank
  /\ e.ext \in [1..ExtLength -> STRING \ {"nul"}] /\ Padded(e.ext)
  /\ e.attr \in STRING

Field(f) == SubSeq(f, 1, Cardinality({k \in DOMAIN f : f[k] # Blank}))
TrueName(e) == Field(e.name) \o IF Field(e.ext) = <<>> THEN <<>> ELSE <<".">> \o Field(e.ext)

\* No field runs into the next one.
Plain(e) ==
  /\ Field(e.ext) = <<>> \/ Len(Field(e.name)) < NameLength
  /\ Len(Field(e.ext)) < ExtLength \/ e.attr \in EndOfName
=============================================================================
