---------------------------- MODULE MechSources ----------------------------
(***************************************************************************)
(* The store behind a Mech file system: for every loaded file its source,  *)
(* the tree parsed from it and the page rendered from it, the directory    *)
(* of the files a request may name, and the index page.  Every operation   *)
(* is a function on the store that returns the outcome and the new store.  *)
(*                                                                         *)
(* Data abstraction: a text is a version number and whether it parses; the *)
(* tree and the page carry the text they were made from.  A file is its    *)
(* own id, path and url.  Stylesheet and shim are left out: they are text  *)
(* pasted into a page.  Included files count as part of the including text.*)
(***************************************************************************)
EXTENDS Integers, FiniteSets

CONSTANTS
  Files,        \* the files of the watched directories
  KindOf,       \* the extension of each file
  IndexFiles,   \* the files named index.mec, index.html or index.md
  Codes,        \* sources added as text (--code, the REPL): no file behind them
  Absent,       \* no file, no entry
  Blank,        \* the tree or page of a source that has none
  MaxVersion    \* bound: edits, over all files

(***************************************************************************)
(* "js" stands for every extension that watch_source names and             *)
(* read_mech_source_file refuses (mdoc, mpkg, m, js); "html" for html,     *)
(* htm, css and md; "image" for the five image extensions.                 *)
(***************************************************************************)
Kinds == {"mec", "mecb", "html", "image", "csv", "js"}

ASSUME SourcesAssumption ==
  /\ KindOf \in [Files -> Kinds]
  /\ IndexFiles \subseteq Files
  /\ Files \cap Codes = {}
  /\ Absent \notin Files \cup Codes
  /\ "" \notin Files   \* the url of the index
  /\ MaxVersion \in Nat

Texts == [version : 0..MaxVersion, parses : BOOLEAN]

ASSUME ModelValuesAssumption == {Absent, Blank} \cap Texts = {} /\ Absent # Blank

Ids == Files \cup Codes

Entries == Texts \cup {Absent, Blank}

Stores == [source : [Ids -> Texts \cup {Absent}], tree : [Ids -> Entries],
           html : [Ids -> Entries], directory : SUBSET Files,
           index : Files \cup {Absent}]

NewSources ==
  [source |-> [i \in Ids |-> Absent], tree |-> [i \in Ids |-> Absent],
   html |-> [i \in Ids |-> Absent], directory |-> {}, index |-> Absent]

-----------------------------------------------------------------------------
(* What reading and parsing a file come to.                                *)

\* read_mech_source_file: a text, an error, or the csv branch's todo!().
ReadOutcome(f, onDisk) ==
  CASE onDisk = Absent \/ KindOf[f] = "js"              -> "error"
    [] onDisk # Absent /\ KindOf[f] = "csv"             -> "panic"
    [] onDisk # Absent /\ KindOf[f] = "mecb"            -> IF onDisk.parses THEN "ok" ELSE "error"
    [] onDisk # Absent /\ KindOf[f] \notin {"js", "csv", "mecb"} -> "ok"

Tree(f, text) == IF KindOf[f] = "mec" THEN text ELSE Blank

Page(f, text) == IF KindOf[f] = "mecb" THEN Blank ELSE text

\* to_tree_and_html fails on a Mech text that does not parse, on nothing else.
Formats(f, text) == KindOf[f] = "mec" => text.parses

Outcome(result, s) == [result |-> result, store |-> s]

-----------------------------------------------------------------------------
(* The operations.                                                         *)

NextIndex(s, f) == IF s.index = Absent \/ f \in IndexFiles THEN f ELSE s.index

MutImageIndexed(s, f, text) ==
  [s EXCEPT !.source[f] = text, !.directory = @ \cup {f}, !.index = NextIndex(s, f)]

MutOldSourceKept(s, f, text) ==
  [s EXCEPT !.source[f] = IF @ = Absent THEN text ELSE @, !.tree[f] = Tree(f, text),
            !.html[f] = Page(f, text), !.directory = @ \cup {f}, !.index = NextIndex(s, f)]

AddImage(s, f, text) ==
  [s EXCEPT !.source[f] = text, !.directory = @ \cup {f}]

AddPage(s, f, text) ==
  [s EXCEPT !.source[f] = text, !.tree[f] = Tree(f, text), !.html[f] = Page(f, text),
            !.directory = @ \cup {f}, !.index = NextIndex(s, f)]

AddSource(s, f, onDisk) ==
  LET read == ReadOutcome(f, onDisk)
  IN CASE read # "ok"                              -> Outcome(read, s)
       [] read = "ok" /\ KindOf[f] = "image"       -> Outcome("ok", AddImage(s, f, onDisk))
       [] read = "ok" /\ KindOf[f] # "image" /\ ~Formats(f, onDisk) -> Outcome("error", s)
       [] read = "ok" /\ KindOf[f] # "image" /\ Formats(f, onDisk)  ->
            Outcome("ok", AddPage(s, f, onDisk))

\* add_code: the id is the text's own hash; neither directory nor index learn of it.
AddCode(s, c, text) ==
  IF text.parses
    THEN Outcome("ok", [s EXCEPT !.source[c] = text, !.tree[c] = text, !.html[c] = text])
    ELSE Outcome("error", s)

Loaded(s, f) == Absent \notin {s.source[f], s.tree[f], s.html[f]}

MutSourceNotStored(s, f, text) ==
  [s EXCEPT !.tree[f] = Tree(f, s.source[f]), !.html[f] = Page(f, s.source[f])]

(***************************************************************************)
(* reload_source makes the new tree and page from the source the store     *)
(* holds, not from the text just read; only then is that text stored.      *)
(***************************************************************************)
Refresh(s, f, text) ==
  [s EXCEPT !.source[f] = text, !.tree[f] = Tree(f, s.source[f]),
            !.html[f] = Page(f, s.source[f])]

ReloadSource(s, f, onDisk) ==
  LET read == ReadOutcome(f, onDisk)
  IN CASE read # "ok"                     -> Outcome(read, s)
       [] read = "ok" /\ ~Loaded(s, f)    -> Outcome("panic", s)
       [] read = "ok" /\ Loaded(s, f) /\ KindOf[f] = "mecb" -> Outcome("panic", s)
       [] read = "ok" /\ Loaded(s, f) /\ KindOf[f] # "mecb" ->
            IF Formats(f, s.source[f]) THEN Outcome("ok", Refresh(s, f, onDisk))
                                       ELSE Outcome("error", s)

-----------------------------------------------------------------------------
(* What a request is answered; "" is the url of the index.                 *)

Lookup(map, s, url) ==
  IF url = "" THEN IF s.index = Absent THEN Absent ELSE map[s.index]
              ELSE map[url]

GetTree(s, url) == Lookup(s.tree, s, url)

GetHtml(s, url) == Lookup(s.html, s, url)

GetImage(s, f) ==
  IF f \in s.directory /\ KindOf[f] = "image" THEN s.source[f] ELSE Absent

-----------------------------------------------------------------------------
(* What the operations maintain.                                           *)

\* Every file in the directory has an answer to the request for its kind, and
\* nothing outside the directory is served as a file.
Served(s) ==
  \A f \in Files :
    IF f \in s.directory
      THEN IF KindOf[f] = "image" THEN GetImage(s, f) # Absent
                                  ELSE GetTree(s, f) # Absent /\ GetHtml(s, f) # Absent
      ELSE s.source[f] = Absent /\ s.tree[f] = Absent /\ s.html[f] = Absent

\* The index page exists as soon as any page does, and it is a page.
IndexServed(s) ==
  (\E f \in Files : s.html[f] # Absent) => GetHtml(s, "") # Absent /\ GetTree(s, "") # Absent

\* The tree and the page of a Mech file come from one text, and that text parses.
PagesMatch(s) ==
  \A i \in Ids : s.tree[i] \in Texts => s.html[i] = s.tree[i] /\ s.tree[i].parses
=============================================================================
