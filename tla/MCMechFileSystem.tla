-------------------------- MODULE MCMechFileSystem --------------------------
(* Directories with a Mech file, a web page and one file of another kind.    *)
EXTENDS MechFileSystem

CONSTANTS MechFile, WebPage, Other

OtherKind(kind) ==
  [f \in Files |-> IF f = MechFile THEN "mec" ELSE IF f = WebPage THEN "html" ELSE kind]

ImageKind == OtherKind("image")
CsvKind == OtherKind("csv")
ScriptKind == OtherKind("js")

NoIndex == {}

IndexIsPage == {WebPage}

AllFiles == [r \in Roots |-> Files]

ParsingCode == [c \in Codes |-> [version |-> 0, parses |-> TRUE]]
=============================================================================
