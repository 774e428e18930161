---------------------------- MODULE SearchIndex ----------------------------
(***************************************************************************)
(* The index of the buddy allocator's documentation, as its search scripts *)
(* hold it (memoryallocation_sim/buddy/doc/html/search): the sections one  *)
(* may search, the first letters each has entries for, and the entries of  *)
(* a letter.  A text is a sequence of pieces, each a few characters that   *)
(* are always typed together.                                              *)
(***************************************************************************)
EXTENDS Naturals, Sequences, SequencesExt

CONSTANT NumSections  \* how many of the sections the panel offers

AllSections ==
  << <<"_", "a", "b", "d", "e", "f", "g", "i", "l", "m", "n", "o", "p", "r", "s", "u", "v", "w">>,
     <<"l", "p", "v">>,
     <<"b", "l", "r", "s">>,
     <<"_", "b", "g", "l", "m", "p">>,
     <<"f", "g", "i", "l", "m", "n", "p", "v">>,
     <<"s", "v">>,
     <<"s">>,
     <<"b", "d", "e", "o", "s", "w">>,
     <<"a", "b", "i", "l", "m", "p", "u">> >>

ASSUME NumSectionsAssumption == NumSections \in 1..Len(AllSections)

\* Section i has an entry for each of these letters, in the order of its pages.
indexSectionsWithContent == [i \in 0..(NumSections - 1) |-> AllSections[i + 1]]
Sections == DOMAIN indexSectionsWithContent

\* An entry: the pieces of its identifier, and how many definitions it has.
Entry(name, definitions) == [name |-> name, definitions |-> definitions]

all_0 == << Entry(<<"_5f", "_5f", "list_5fadd">>, 1),
            Entry(<<"_5f", "_5f", "list_5fdel">>, 1),
            Entry(<<"_5f", "_5f", "list_5fsplice">>, 1) >>
all_e == << Entry(<<"s", "everity", "_5f", "t">>, 2),
            Entry(<<"s", "imulator", "_2e", "c">>, 1),
            Entry(<<"s", "tatus", "_5f", "t">>, 2),
            Entry(<<"s", "uccess">>, 1) >>
all_10 == << Entry(<<"v", "ar_5fmap">>, 1), Entry(<<"v", "ar_5ft">>, 2) >>
classes_0 == << Entry(<<"l", "ist_5fhead">>, 1) >>
classes_1 == << Entry(<<"p", "age_5ft">>, 1) >>
classes_2 == << Entry(<<"v", "ar_5ft">>, 1) >>
files_0 == << Entry(<<"b", "uddy", "_2e", "c">>, 1), Entry(<<"b", "uddy", "_2e", "h">>, 1) >>
files_1 == << Entry(<<"l", "ist_2eh">>, 1) >>
files_2 == << Entry(<<"r", "eadme_2emd">>, 1) >>
files_3 == << Entry(<<"s", "imulator", "_2e", "c">>, 1) >>

Pages == {all_0, all_e, all_10, classes_0, classes_1, classes_2, files_0, files_1, files_2, files_3}

\* The page of a section and a letter: all those of the classes and the files,
\* and of the first section, of all symbols, those of three letters.
searchData(section, letter) ==
  CASE section = 0 /\ letter = "_" -> all_0
    [] section = 0 /\ letter = "s" -> all_e
    [] section = 0 /\ letter = "v" -> all_10
    [] section = 1 /\ letter = "l" -> classes_0
    [] section = 1 /\ letter = "p" -> classes_1
    [] section = 1 /\ letter = "v" -> classes_2
    [] section = 2 /\ letter = "b" -> files_0
    [] section = 2 /\ letter = "l" -> files_1
    [] section = 2 /\ letter = "r" -> files_2
    [] section = 2 /\ letter = "s" -> files_3

\* The text in the search field when nothing was typed.
searchLabel == <<"Search">>

\* The first letter of a piece, in lower case.
FirstLetter(piece) ==
  CASE piece = "Search" -> "s"
    [] piece = "tatus" -> "t"
    [] OTHER -> piece

\* convertToId: letters and digits stand for themselves, any other character
\* for its code.
Id(piece) ==
  CASE piece = " " -> "_20"
    [] piece = "_" -> "_5f"
    [] piece = "Search" -> "search"
    [] OTHER -> piece
convertToId(search) == [k \in DOMAIN search |-> Id(search[k])]
=============================================================================
