------------------------ MODULE MechFileSystemProofs ------------------------
(***************************************************************************)
(* Theorems about live reload, for every set of files, roots and texts and *)
(* every bound on loads, edits and events.                                 *)
(***************************************************************************)
EXTENDS MechFileSystem, BasicLemmas, TLAPS

-----------------------------------------------------------------------------
(* The inductive invariant.                                                *)

\* An image is kept as a source and never rendered; only a Mech file has a tree,
\* and a compiled file has no page.
RenderedByKind(s) ==
  \A f \in Files :
    /\ KindOf[f] = "image" => s.tree[f] = Absent /\ s.html[f] = Absent
    /\ KindOf[f] # "mec" => s.tree[f] \notin Texts
    /\ KindOf[f] = "mecb" => s.html[f] \notin Texts

\* The index is a file of the directory that has a page, or there is no page yet.
IndexIsAPage(s) ==
  IF s.index = Absent THEN \A f \in Files : s.html[f] = Absent
                      ELSE s.index \in s.directory /\ KindOf[s.index] # "image"

StoreInv(s) ==
  s \in Stores /\ Served(s) /\ PagesMatch(s) /\ RenderedByKind(s) /\ IndexIsAPage(s)

DiskVersion(f) == disk[f].version

\* What is served of a file is at most as new as its source, the source at most
\* as new as the file while the file is there.
Fresh(s, f) ==
  /\ VersionOf(s.html[f]) <= VersionOf(s.source[f])
  /\ VersionOf(s.tree[f]) <= VersionOf(s.source[f])
  /\ VersionOf(s.source[f]) <= version
  /\ disk[f] # Absent => /\ DiskVersion(f) <= version
                         /\ VersionOf(s.source[f]) <= DiskVersion(f)

\* What was reported is on disk, and who reported it watches as long as there is
\* a reload thread to listen.
ReportsHold(f) ==
  /\ reported[f] <= version
  /\ disk[f] # Absent => reported[f] <= DiskVersion(f)
  /\ reloader.op # "dead" /\ reported[f] > 0 => Watching(f) # {}

\* EditsReachStore of one file, also after the main thread is gone.
Follows(f) ==
  Pending(f) \/ Stuck(f) \/ disk[f] = Absent \/ ReadOutcome(f, disk[f]) = "error"
    \/ reported[f] <= VersionOf(store.source[f])

FollowsInv == reloader.op # "dead" => \A f \in Files : Follows(f)

Inv ==
  /\ TypesOK /\ IsFiniteSet(watched) /\ LockOK
  /\ StoreInv(store)
  /\ \A f \in Files : Fresh(store, f) /\ ReportsHold(f)
  /\ FollowsInv

-----------------------------------------------------------------------------
(* What the operations of the store return.                                *)

\* Reading gives a text, an error, or a panic; there was something to read, of a
\* kind that read_mech_source_file has an arm for, when it gives a text.
LEMMA ReadOutcomes ==
  ASSUME NEW f \in Files, NEW onDisk \in Texts \cup {Absent}
  PROVE  /\ ReadOutcome(f, onDisk) \in {"ok", "error", "panic"}
         /\ ReadOutcome(f, onDisk) = "ok" => onDisk \in Texts
BY SourcesAssumption, ModelValuesAssumption DEF ReadOutcome, Kinds

\* add_source stores an image, or a text of another kind with its tree and page,
\* or it changes nothing.
LEMMA AddSourceOutcomes ==
  ASSUME NEW s, NEW f \in Files, NEW onDisk \in Texts \cup {Absent}
  PROVE  LET added == AddSource(s, f, onDisk)
         IN \/ /\ added.result = "ok" /\ onDisk \in Texts
               /\ \/ KindOf[f] = "image" /\ added.store = AddImage(s, f, onDisk)
                  \/ /\ KindOf[f] # "image" /\ Formats(f, onDisk)
                     /\ added.store = AddPage(s, f, onDisk)
            \/ added.result \in {"error", "panic"} /\ added.store = s
<1>1. CASE ReadOutcome(f, onDisk) # "ok"
  BY <1>1, ReadOutcomes DEF AddSource, Outcome
<1>2. CASE ReadOutcome(f, onDisk) = "ok" /\ KindOf[f] = "image"
  BY <1>2, ReadOutcomes DEF AddSource, Outcome
<1>3. CASE ReadOutcome(f, onDisk) = "ok" /\ KindOf[f] # "image" /\ Formats(f, onDisk)
  BY <1>3, ReadOutcomes DEF AddSource, Outcome
<1>4. CASE ReadOutcome(f, onDisk) = "ok" /\ KindOf[f] # "image" /\ ~Formats(f, onDisk)
  BY <1>4, ReadOutcomes DEF AddSource, Outcome
<1> QED BY <1>1, <1>2, <1>3, <1>4

\* reload_source renders what the store held and stores what was read, or it
\* changes nothing; it fails only on a file that cannot be read or a source that
\* does not parse.
LEMMA ReloadSourceOutcomes ==
  ASSUME NEW s, NEW f \in Files, NEW onDisk \in Texts \cup {Absent}
  PROVE  LET reloaded == ReloadSource(s, f, onDisk)
         IN \/ /\ reloaded.result = "ok" /\ onDisk \in Texts
               /\ Loaded(s, f) /\ KindOf[f] # "mecb" /\ Formats(f, s.source[f])
               /\ reloaded.store = Refresh(s, f, onDisk)
            \/ /\ reloaded.result = "error" /\ reloaded.store = s
               /\ \/ ReadOutcome(f, onDisk) = "error"
                  \/ s.source[f] # Absent /\ ~Formats(f, s.source[f])
            \/ reloaded.result = "panic" /\ reloaded.store = s
<1>1. CASE ReadOutcome(f, onDisk) # "ok"
  BY <1>1, ReadOutcomes DEF ReloadSource, Outcome
<1>2. CASE ReadOutcome(f, onDisk) = "ok" /\ (~Loaded(s, f) \/ KindOf[f] = "mecb")
  BY <1>2, ReadOutcomes DEF ReloadSource, Outcome
<1>3. CASE ReadOutcome(f, onDisk) = "ok" /\ Loaded(s, f) /\ KindOf[f] # "mecb"
  <2>1. s.source[f] # Absent
    BY <1>3 DEF Loaded
  <2> QED BY <1>3, <2>1, ReadOutcomes DEF ReloadSource, Outcome
<1> QED BY <1>1, <1>2, <1>3

-----------------------------------------------------------------------------
(* The operations keep the store consistent.                               *)

USE DEF Stores, Ids, Entries

LEMMA AddImageKeeps ==
  ASSUME NEW s, StoreInv(s), NEW f \in Files, KindOf[f] = "image", NEW text \in Texts
  PROVE  StoreInv(AddImage(s, f, text))
<1> DEFINE t == AddImage(s, f, text)
<1>1. /\ t.tree = s.tree /\ t.html = s.html /\ t.index = s.index
      /\ t.directory = s.directory \cup {f}
      /\ t.source = [s.source EXCEPT ![f] = text]
      /\ t \in Stores
  BY DEF AddImage, StoreInv
<1>2. Served(t)
  BY <1>1, ModelValuesAssumption DEF StoreInv, Served, RenderedByKind, GetImage, GetTree, GetHtml, Lookup
<1>3. PagesMatch(t)
  BY <1>1 DEF StoreInv, PagesMatch
<1>4. RenderedByKind(t) /\ IndexIsAPage(t)
  BY <1>1 DEF StoreInv, RenderedByKind, IndexIsAPage
<1> QED BY <1>1, <1>2, <1>3, <1>4 DEF StoreInv

LEMMA AddPageKeeps ==
  ASSUME NEW s, StoreInv(s), NEW f \in Files, KindOf[f] # "image", NEW text \in Texts,
         Formats(f, text)
  PROVE  StoreInv(AddPage(s, f, text))
<1> DEFINE t == AddPage(s, f, text)
<1>0. /\ Tree(f, text) \in Entries /\ Tree(f, text) # Absent
      /\ Page(f, text) \in Entries /\ Page(f, text) # Absent
      /\ KindOf[f] # "mec" => Tree(f, text) \notin Texts
      /\ KindOf[f] = "mecb" => Page(f, text) \notin Texts
      /\ Tree(f, text) \in Texts => Page(f, text) = Tree(f, text) /\ Tree(f, text).parses
  BY ModelValuesAssumption DEF Tree, Page, Formats
<1>1. /\ t.source = [s.source EXCEPT ![f] = text]
      /\ t.tree = [s.tree EXCEPT ![f] = Tree(f, text)]
      /\ t.html = [s.html EXCEPT ![f] = Page(f, text)]
      /\ t.directory = s.directory \cup {f}
      /\ t.index \in {s.index, f} /\ t.index # Absent
      /\ t \in Stores
  BY <1>0, SourcesAssumption DEF AddPage, StoreInv, NextIndex
<1>2. Served(t)
  <2> SUFFICES ASSUME NEW g \in Files PROVE Served(t)!(g)
    BY DEF Served
  <2>1. CASE g = f
    BY <1>0, <1>1, <2>1, SourcesAssumption DEF StoreInv, GetTree, GetHtml, Lookup
  <2>2. CASE g # f
    BY <1>1, <2>2, SourcesAssumption DEF StoreInv, Served, GetImage, GetTree, GetHtml, Lookup
  <2> QED BY <2>1, <2>2
<1>3. PagesMatch(t)
  BY <1>0, <1>1 DEF StoreInv, PagesMatch
<1>4. RenderedByKind(t) /\ IndexIsAPage(t)
  BY <1>0, <1>1 DEF StoreInv, RenderedByKind, IndexIsAPage
<1> QED BY <1>1, <1>2, <1>3, <1>4 DEF StoreInv

LEMMA AddCodeKeeps ==
  ASSUME NEW s, StoreInv(s), NEW c \in Codes, NEW text \in Texts
  PROVE  /\ AddCode(s, c, text).result \in {"ok", "error"}
         /\ StoreInv(AddCode(s, c, text).store)
         /\ \A f \in Files : /\ AddCode(s, c, text).store.source[f] = s.source[f]
                             /\ AddCode(s, c, text).store.tree[f] = s.tree[f]
                             /\ AddCode(s, c, text).store.html[f] = s.html[f]
<1>1. CASE ~text.parses
  BY <1>1 DEF AddCode, Outcome
<1>2. CASE text.parses
  <2> DEFINE t == AddCode(s, c, text).store
  <2>1. /\ AddCode(s, c, text).result = "ok"
        /\ t.source = [s.source EXCEPT ![c] = text] /\ t.tree = [s.tree EXCEPT ![c] = text]
        /\ t.html = [s.html EXCEPT ![c] = text]
        /\ t.directory = s.directory /\ t.index = s.index
        /\ t \in Stores
    BY <1>2 DEF AddCode, Outcome, StoreInv
  <2>2. \A f \in Files : t.source[f] = s.source[f] /\ t.tree[f] = s.tree[f] /\ t.html[f] = s.html[f]
    <3> SUFFICES ASSUME NEW f \in Files
                 PROVE  t.source[f] = s.source[f] /\ t.tree[f] = s.tree[f] /\ t.html[f] = s.html[f]
      OBVIOUS
    <3>1. f # c
      BY SourcesAssumption
    <3> HIDE DEF t
    <3> QED BY <2>1, <3>1 DEF StoreInv
  <2>3. Served(t)
    <3> SUFFICES ASSUME NEW g \in Files PROVE Served(t)!(g)
      BY DEF Served
    <3> QED BY <2>1, <2>2, SourcesAssumption DEF StoreInv, Served, GetImage, GetTree, GetHtml, Lookup
  <2>4. PagesMatch(t)
    BY <1>2, <2>1 DEF StoreInv, PagesMatch
  <2>5. RenderedByKind(t) /\ IndexIsAPage(t)
    BY <2>1, <2>2 DEF StoreInv, RenderedByKind, IndexIsAPage
  <2> QED BY <2>1, <2>2, <2>3, <2>4, <2>5 DEF StoreInv
<1> QED BY <1>1, <1>2

LEMMA RefreshKeeps ==
  ASSUME NEW s, StoreInv(s), NEW f \in Files, Loaded(s, f), KindOf[f] # "mecb",
         Formats(f, s.source[f]), NEW text \in Texts
  PROVE  StoreInv(Refresh(s, f, text))
<1> DEFINE t == Refresh(s, f, text)
           old == s.source[f]
<1>0. old \in Texts /\ f \in s.directory /\ KindOf[f] # "image"
  BY ModelValuesAssumption DEF StoreInv, Loaded, Served, RenderedByKind
<1>1. /\ Tree(f, old) \in Entries /\ Tree(f, old) # Absent
      /\ Page(f, old) \in Entries /\ Page(f, old) # Absent
      /\ KindOf[f] # "mec" => Tree(f, old) \notin Texts
      /\ Tree(f, old) \in Texts => Page(f, old) = Tree(f, old) /\ Tree(f, old).parses
  BY <1>0, ModelValuesAssumption DEF Tree, Page, Formats
<1>2. /\ t.source = [s.source EXCEPT ![f] = text]
      /\ t.tree = [s.tree EXCEPT ![f] = Tree(f, old)]
      /\ t.html = [s.html EXCEPT ![f] = Page(f, old)]
      /\ t.directory = s.directory /\ t.index = s.index
      /\ t \in Stores
  BY <1>1 DEF Refresh, StoreInv
<1>3. Served(t)
  <2> SUFFICES ASSUME NEW g \in Files
               PROVE  IF g \in t.directory
                        THEN IF KindOf[g] = "image" THEN GetImage(t, g) # Absent
                             ELSE GetTree(t, g) # Absent /\ GetHtml(t, g) # Absent
                        ELSE t.source[g] = Absent /\ t.tree[g] = Absent /\ t.html[g] = Absent
    BY DEF Served
  <2> HIDE DEF t
  <2>0. /\ GetTree(s, g) = s.tree[g] /\ GetHtml(s, g) = s.html[g]
        /\ GetTree(t, g) = t.tree[g] /\ GetHtml(t, g) = t.html[g]
    BY ModelValuesAssumption, SourcesAssumption DEF GetTree, GetHtml, Lookup
  <2>1. CASE g = f
    <3>1. s.tree \in [Ids -> Entries] /\ s.html \in [Ids -> Entries] /\ f \in Ids
      BY DEF StoreInv, Stores, Ids
    <3>2. t.tree[g] # Absent /\ t.html[g] # Absent
      BY <1>1, <1>2, <2>1, <3>1
    <3> QED BY <1>0, <1>2, <2>0, <2>1, <3>2
  <2>2. CASE g # f
    <3>1. /\ t.source[g] = s.source[g] /\ t.tree[g] = s.tree[g] /\ t.html[g] = s.html[g]
          /\ t.directory = s.directory /\ t.index = s.index
      <4>1. /\ s.source \in [Ids -> Texts \cup {Absent}] /\ s.tree \in [Ids -> Entries]
            /\ s.html \in [Ids -> Entries] /\ g \in Ids
        BY DEF StoreInv, Stores, Ids
      <4> QED BY <1>2, <2>2, <4>1
    <3>2. GetImage(t, g) = GetImage(s, g)
      BY <3>1 DEF GetImage
    <3>3. IF g \in s.directory
            THEN IF KindOf[g] = "image" THEN GetImage(s, g) # Absent
                 ELSE GetTree(s, g) # Absent /\ GetHtml(s, g) # Absent
            ELSE s.source[g] = Absent /\ s.tree[g] = Absent /\ s.html[g] = Absent
      BY DEF StoreInv, Served
    <3> QED BY <2>0, <3>1, <3>2, <3>3
  <2> QED BY <2>1, <2>2
<1>4. PagesMatch(t)
  BY <1>1, <1>2 DEF StoreInv, PagesMatch
<1>5. RenderedByKind(t) /\ IndexIsAPage(t)
  BY <1>0, <1>1, <1>2, ModelValuesAssumption DEF StoreInv, RenderedByKind, IndexIsAPage, Loaded
<1> QED BY <1>2, <1>3, <1>4, <1>5 DEF StoreInv

\* A consistent store, with its parts named, is what a request relies on.
LEMMA StoreInvServes ==
  ASSUME NEW s, StoreInv(s)
  PROVE  Served(s) /\ IndexServed(s) /\ PagesMatch(s)
BY DEF StoreInv, Served, IndexServed, IndexIsAPage, GetHtml, GetTree, GetImage, Lookup

-----------------------------------------------------------------------------
(* What every watcher sends.                                               *)

\* The recursive function inside FlattenSeq, applied to m copies of sent.
Copies(sent, m) ==
  LET flatten[i \in 1..m] == IF i = 1 THEN [j \in 1..m |-> sent][i]
                                      ELSE flatten[i - 1] \o [j \in 1..m |-> sent][i]
  IN flatten

\* The recursion is well founded: there is a function that satisfies it.
LEMMA CopiesRecursion ==
  ASSUME NEW sent, NEW m \in Nat
  PROVE  Copies(sent, m) = [i \in 1..m |-> IF i = 1 THEN sent ELSE Copies(sent, m)[i-1] \o sent]
<1> DEFINE Solves(g, k) == g = [i \in 1..k |-> IF i = 1 THEN sent ELSE g[i-1] \o sent]
           S == {k \in Nat : \E g : Solves(g, k)}
<1>1. 0 \in S
  <2>1. Solves(<<>>, 0)
    OBVIOUS
  <2> QED BY <2>1
<1>2. ASSUME NEW k \in Nat, k \in S PROVE k + 1 \in S
  <2>1. PICK g : Solves(g, k)
    BY <1>2
  <2> DEFINE h == [i \in 1..(k+1) |-> IF i = 1 THEN sent ELSE g[i-1] \o sent]
  <2>2. \A i \in 1..k : g[i] = IF i = 1 THEN sent ELSE g[i-1] \o sent
    BY <2>1
  <2>3. \A i \in 1..k : h[i] = g[i]
    BY <2>2
  <2>4. \A i \in 1..(k+1) : h[i] = IF i = 1 THEN sent ELSE h[i-1] \o sent
    <3> SUFFICES ASSUME NEW i \in 1..(k+1), i # 1
                 PROVE  h[i-1] = g[i-1]
      OBVIOUS
    <3>1. i - 1 \in 1..k
      OBVIOUS
    <3> HIDE DEF h
    <3> QED BY <2>3, <3>1
  <2>5. Solves(h, k + 1)
    BY <2>4
  <2>6. (\E f : Solves(f, k + 1)) /\ k + 1 \in Nat
    <3> HIDE DEF h, Solves
    <3> QED BY <2>5
  <2> QED BY <2>6
<1>3. PICK g : Solves(g, m)
  <2>1. Nat \subseteq S
    <3> HIDE DEF S
    <3> QED BY <1>1, <1>2, NatSetInduction
  <2> QED BY <2>1
<1> QED BY <1>3 DEF Copies

\* The events of all watchers of a file are those each of them sends, and each
\* watcher sends all of them.
LEMMA FlattenCopies ==
  ASSUME NEW E, NEW sent \in Seq(E), NEW m \in Nat
  PROVE  LET all == FlattenSeq([i \in 1..m |-> sent])
         IN /\ all \in Seq(E)
            /\ m > 0 => \A j \in 1..Len(sent) : j \in 1..Len(all) /\ all[j] = sent[j]
<1> DEFINE f == Copies(sent, m)
           Good(q) == /\ q \in Seq(E)
                      /\ \A j \in 1..Len(sent) : j \in 1..Len(q) /\ q[j] = sent[j]
           S == {k \in Nat : k \in 1..m => Good(f[k])}
<1>1. \A i \in 1..m : f[i] = IF i = 1 THEN sent ELSE f[i-1] \o sent
  <2>1. f = [i \in 1..m |-> IF i = 1 THEN sent ELSE f[i-1] \o sent]
    BY CopiesRecursion
  <2> HIDE DEF f
  <2> QED BY <2>1
<1>2. 0 \in S
  OBVIOUS
<1>3. ASSUME NEW k \in Nat, k \in S PROVE k + 1 \in S
  <2>1. CASE k + 1 \notin 1..m
    BY <2>1
  <2>2. CASE k + 1 \in 1..m /\ k = 0
    <3>1. f[k + 1] = sent
      BY <1>1, <2>2
    <3> QED BY <2>2, <3>1
  <2>3. CASE k + 1 \in 1..m /\ k # 0
    <3>1. f[k + 1] = f[k] \o sent
      <4>1. (k + 1) - 1 = k /\ k + 1 # 1
        BY <2>3
      <4> HIDE DEF f
      <4> QED BY <1>1, <2>3, <4>1
    <3>2. Good(f[k])
      BY <1>3, <2>3
    <3>3. Good(f[k] \o sent)
      <4> HIDE DEF f
      <4> QED BY <3>2
    <3>4. Good(f[k + 1])
      <4> HIDE DEF f, Good
      <4> QED BY <3>1, <3>3
    <3> QED
      <4> HIDE DEF f, Good
      <4> QED BY <3>4
  <2> QED BY <2>1, <2>2, <2>3
<1>4. \A k \in 1..m : Good(f[k])
  <2>1. Nat \subseteq S
    <3> HIDE DEF S
    <3> QED BY <1>2, <1>3, NatSetInduction
  <2> QED BY <2>1
<1> DEFINE seqs == [i \in 1..m |-> sent]
<1>5. Len(seqs) = m
  OBVIOUS
<1>6. m > 0 => FlattenSeq(seqs) = f[m]
  BY <1>5 DEF FlattenSeq, Copies
<1>7. m = 0 => FlattenSeq(seqs) = <<>>
  BY <1>5 DEF FlattenSeq
<1> SUFFICES /\ FlattenSeq(seqs) \in Seq(E)
             /\ m > 0 => \A j \in 1..Len(sent) : /\ j \in 1..Len(FlattenSeq(seqs))
                                                 /\ FlattenSeq(seqs)[j] = sent[j]
  OBVIOUS
<1> HIDE DEF seqs
<1>8. CASE m = 0
  BY <1>7, <1>8
<1>9. CASE m > 0
  <2>1. Good(f[m])
    BY <1>4, <1>9
  <2> HIDE DEF f
  <2> QED BY <1>6, <1>9, <2>1
<1> QED BY <1>8, <1>9

\* A report is added behind the events there are, by every watcher of the file.
LEMMA NotifyOutcomes ==
  ASSUME TypesOK, IsFiniteSet(watched), NEW f \in Files, NEW sent \in Seq(EventType),
         Notify(f, sent)
  PROVE  /\ events' \in Seq(EventType) /\ Len(events') <= MaxEvents
         /\ watched' \subseteq watched
         /\ reloader.op = "dead" => events' = events
         /\ reloader.op # "dead" =>
              /\ watched' = watched
              /\ \A i \in 1..Len(events) : i \in 1..Len(events') /\ events'[i] = events[i]
              /\ Watching(f) # {} =>
                   \A j \in 1..Len(sent) : \E i \in 1..Len(events') : events'[i] = sent[j]
<1>1. events \in Seq(EventType) /\ Len(events) <= MaxEvents
  BY DEF TypesOK
<1>2. CASE reloader.op = "dead"
  BY <1>1, <1>2 DEF Notify
<1>3. CASE reloader.op # "dead"
  <2> DEFINE all == FlattenSeq([i \in 1..Watchers(f) |-> sent])
  <2>1. IsFiniteSet(Watching(f)) /\ Watchers(f) \in Nat /\ (Watching(f) # {} => Watchers(f) > 0)
    <3>1. IsFiniteSet(Watching(f))
      BY FS_Subset DEF Watching
    <3> QED BY <3>1, FS_CardinalityType, FS_EmptySet DEF Watchers
  <2>2. all \in Seq(EventType)
    BY <2>1, FlattenCopies
  <2>3. Watching(f) # {} =>
          \A j \in 1..Len(sent) : j \in 1..Len(all) /\ all[j] = sent[j]
    BY <2>1, FlattenCopies
  <2>4. events' = events \o all /\ Len(events') <= MaxEvents /\ watched' = watched
    BY <1>3 DEF Notify
  <2> HIDE DEF all
  <2>5. events' \in Seq(EventType)
    BY <1>1, <2>2, <2>4
  <2>6. \A i \in 1..Len(events) : i \in 1..Len(events') /\ events'[i] = events[i]
    BY <1>1, <2>2, <2>4
  <2>7. ASSUME Watching(f) # {}, NEW j \in 1..Len(sent)
        PROVE  \E i \in 1..Len(events') : events'[i] = sent[j]
    <3>1. j \in 1..Len(all) /\ all[j] = sent[j]
      BY <2>3, <2>7
    <3>2. Len(events) + j \in 1..Len(events') /\ events'[Len(events) + j] = all[j]
      BY <1>1, <2>2, <2>4, <3>1
    <3> QED BY <3>1, <3>2
  <2> QED BY <1>3, <2>4, <2>5, <2>6, <2>7
<1> QED BY <1>2, <1>3

-----------------------------------------------------------------------------
(* Types.                                                                  *)

\* A sequence that is not empty is its head and then its tail.
LEMMA HeadAndTail ==
  ASSUME NEW S, NEW s \in Seq(S), s # <<>>
  PROVE  /\ Len(s) \in Nat \ {0}
         /\ Head(s) \in S /\ Tail(s) \in Seq(S) /\ Len(Tail(s)) = Len(s) - 1
         /\ Len(s) # 1 => Tail(s) # <<>>
         /\ \A i \in 1..Len(s) : i # 1 => i - 1 \in 1..Len(Tail(s)) /\ Tail(s)[i-1] = s[i]
         /\ Head(s) = s[1]
<1>1. Len(s) \in Nat \ {0} /\ Head(s) = s[1] /\ Head(s) \in S
  OBVIOUS
<1>2. Tail(s) \in Seq(S) /\ Len(Tail(s)) = Len(s) - 1
  OBVIOUS
<1>3. \A i \in 1..Len(Tail(s)) : Tail(s)[i] = s[i+1]
  OBVIOUS
<1> QED BY <1>1, <1>2, <1>3

LEMMA InitInv == Init => Inv
<1> SUFFICES ASSUME Init PROVE Inv
  OBVIOUS
<1>0. Absent \notin Texts /\ MaxVersion \in Nat /\ 0 \in 0..MaxVersion
  <2>1. Absent \notin Texts
    BY ModelValuesAssumption
  <2>2. MaxVersion \in Nat
    BY SourcesAssumption
  <2> QED BY <2>1, <2>2
<1>1. TypesOK
  <2>1. disk \in [Files -> Texts \cup {Absent}]
    <3>1. [version : {0}, parses : {TRUE}] \subseteq Texts
      BY <1>0 DEF Texts
    <3> QED BY <3>1 DEF Init
  <2>2. store \in Stores
    BY DEF Init, NewSources
  <2>3. main \in MainStates /\ reloader \in [op : ReloaderOps, paths : Seq(Files)]
    BY DEF Init, Idle, MainStates, Waiting, ReloaderOps
  <2>4. /\ version \in 0..MaxVersion /\ loads \in 0..MaxLoads
        /\ writer = "none" /\ poisoned = FALSE /\ watched = {}
        /\ reported \in [Files -> 0..MaxVersion]
        /\ events \in Seq(EventType) /\ Len(events) <= MaxEvents
    BY <1>0, RootsAssumption DEF Init
  <2> QED BY <2>1, <2>2, <2>3, <2>4 DEF TypesOK
<1>6. LockOK
  BY DEF Init, LockOK, Idle, Waiting
<1>2. IsFiniteSet(watched)
  BY FS_EmptySet DEF Init
<1>3. StoreInv(store)
  BY SourcesAssumption, ModelValuesAssumption
     DEF Init, NewSources, StoreInv, Served, PagesMatch, RenderedByKind, IndexIsAPage
<1>4. ASSUME NEW f \in Files PROVE Fresh(store, f) /\ ReportsHold(f) /\ Follows(f)
  <2>1. /\ store.source[f] = Absent /\ store.tree[f] = Absent /\ store.html[f] = Absent
        /\ reported[f] = 0 /\ version = 0
        /\ disk[f] # Absent => disk[f].version = 0
    BY DEF Init, NewSources
  <2>2. VersionOf(Absent) = 0
    BY <1>0 DEF VersionOf
  <2> QED BY <2>1, <2>2 DEF Fresh, ReportsHold, DiskVersion, Follows
<1> QED BY <1>1, <1>2, <1>3, <1>4, <1>6 DEF Inv, FollowsInv

USE DEF diskVars, lockVars

\* An edit or a touch leaves the threads, the lock and the store alone.
LEMMA EnvironmentTypes ==
  ASSUME TypesOK, IsFiniteSet(watched), LockOK, NEW f \in Files,
         NEW sent \in Seq(EventType), Environment, Notify(f, sent),
         disk' \in [Files -> Texts \cup {Absent}], version' \in 0..MaxVersion,
         reported' \in [Files -> 0..MaxVersion]
  PROVE  TypesOK' /\ IsFiniteSet(watched)' /\ LockOK'
<1>1. /\ events' \in Seq(EventType) /\ Len(events') <= MaxEvents
      /\ watched' \subseteq watched
  BY NotifyOutcomes
<1>2. IsFiniteSet(watched')
  BY <1>1, FS_Subset
<1>3. LockOK'
  BY DEF LockOK, Environment
<1>4. TypesOK'
  BY <1>1 DEF TypesOK, Environment, EventType
<1> QED BY <1>2, <1>3, <1>4

\* One event is a sequence of events.
LEMMA EventIsSent ==
  ASSUME NEW kind \in EventKinds, NEW f \in Files, NEW g \in Files
  PROVE  <<Event(kind, <<f>>)>> \in Seq(EventType) /\ <<Event(kind, <<f, g>>)>> \in Seq(EventType)
<1>1. <<f>> \in Seq(Files) \ {<<>>} /\ <<f, g>> \in Seq(Files) \ {<<>>}
  OBVIOUS
<1>2. Event(kind, <<f>>) \in EventType /\ Event(kind, <<f, g>>) \in EventType
  BY <1>1 DEF Event, EventType
<1> QED BY <1>2

LEMMA SaveSends ==
  ASSUME NEW f \in Files
  PROVE  LET sent == (IF disk[f] = Absent THEN <<Event("create", <<f>>)>> ELSE <<>>)
                       \o <<Event("modify", <<f>>)>>
         IN /\ sent \in Seq(EventType)
            /\ Len(sent) \in 1..Len(sent) /\ sent[Len(sent)] = Event("modify", <<f>>)
<1>1. <<Event("create", <<f>>)>> \in Seq(EventType) /\ <<Event("modify", <<f>>)>> \in Seq(EventType)
  BY EventIsSent DEF EventKinds
<1>2. \A s \in Seq(EventType) : \A e : <<e>> \in Seq(EventType) =>
        LET t == s \o <<e>> IN t \in Seq(EventType) /\ Len(t) \in 1..Len(t) /\ t[Len(t)] = e
  OBVIOUS
<1>3. <<>> \in Seq(EventType)
  OBVIOUS
<1> QED BY <1>1, <1>2, <1>3

LEMMA EditTypes ==
  ASSUME TypesOK, IsFiniteSet(watched), LockOK, NEW f \in Files,
         \/ \E parses \in BOOLEAN : Save(f, parses)
         \/ Delete(f) \/ Touch(f) \/ \E g \in Files : Rename(f, g)
  PROVE  TypesOK' /\ IsFiniteSet(watched)' /\ LockOK'
<1>0. MaxVersion \in Nat
  BY SourcesAssumption
<1>1. \A n \in 0..MaxVersion : \A parses \in BOOLEAN : [version |-> n, parses |-> parses] \in Texts
  BY <1>0 DEF Texts
<1>2. ASSUME NEW n \in 0..MaxVersion, NEW g \in Files PROVE Reported(g, n) \in [Files -> 0..MaxVersion]
  BY DEF Reported, TypesOK
<1>3. ASSUME NEW parses \in BOOLEAN, Save(f, parses) PROVE TypesOK' /\ IsFiniteSet(watched)' /\ LockOK'
  <2>1. version' \in 0..MaxVersion
    <3>1. version \in 0..MaxVersion
      BY DEF TypesOK
    <3>2. version' = version + 1 /\ version < MaxVersion
      BY <1>3 DEF Save
    <3> QED BY <1>0, <3>1, <3>2, HeadAndTail
  <2>2. disk' \in [Files -> Texts \cup {Absent}]
    BY <1>1, <1>3, <2>1 DEF Save, TypesOK
  <2>3. reported' \in [Files -> 0..MaxVersion]
    BY <1>2, <1>3, <2>1 DEF Save
  <2> QED BY <1>3, <2>1, <2>2, <2>3, SaveSends, EnvironmentTypes DEF Save
<1>4. CASE Delete(f)
  <2>1. /\ version' \in 0..MaxVersion /\ disk' \in [Files -> Texts \cup {Absent}]
        /\ reported' \in [Files -> 0..MaxVersion]
    BY <1>4 DEF Delete, TypesOK
  <2>2. <<Event("remove", <<f>>)>> \in Seq(EventType)
    BY EventIsSent DEF EventKinds
  <2> QED BY <1>4, <2>1, <2>2, EnvironmentTypes DEF Delete
<1>5. CASE Touch(f)
  <2>1. /\ version' \in 0..MaxVersion /\ disk' \in [Files -> Texts \cup {Absent}]
        /\ reported' \in [Files -> 0..MaxVersion]
    BY <1>5 DEF Touch, TypesOK
  <2>2. <<Event("other", <<f>>)>> \in Seq(EventType)
    BY EventIsSent DEF EventKinds
  <2> QED BY <1>5, <2>1, <2>2, EnvironmentTypes DEF Touch
<1>6. ASSUME NEW g \in Files, Rename(f, g) PROVE TypesOK' /\ IsFiniteSet(watched)' /\ LockOK'
  <2>1. version' \in 0..MaxVersion
    <3>1. version \in 0..MaxVersion
      BY DEF TypesOK
    <3>2. version' = version + 1 /\ version < MaxVersion
      BY <1>6 DEF Rename
    <3> QED BY <1>0, <3>1, <3>2, HeadAndTail
  <2>2. disk[f].parses \in BOOLEAN
    BY <1>6 DEF Rename, TypesOK, Texts
  <2>3. disk' \in [Files -> Texts \cup {Absent}]
    BY <1>1, <1>6, <2>1, <2>2 DEF Rename, TypesOK
  <2>4. reported' \in [Files -> 0..MaxVersion]
    BY <1>2, <1>6, <2>1 DEF Rename
  <2>5. <<Event("modify", <<f, g>>)>> \in Seq(EventType)
    BY EventIsSent DEF EventKinds
  <2> QED BY <1>6, <2>1, <2>3, <2>4, <2>5, EnvironmentTypes DEF Rename
<1> QED BY <1>3, <1>4, <1>5, <1>6

\* Which fields the main thread's state has, by what it is doing.
LEMMA MainShape ==
  ASSUME main \in MainStates
  PROVE  /\ main.op \in {"idle", "panicked", "failed", "lock", "add", "install"}
         /\ main.op = "lock" => main.root \in Roots /\ main.todo \subseteq Files
         /\ main.op = "add" => /\ main.root \in Roots /\ main.todo \subseteq Files
                               /\ main.file \in Files \cup {Absent}
                               /\ main = [op |-> "add", root |-> main.root, todo |-> main.todo,
                                          file |-> main.file]
         /\ main.op = "install" => main.root \in Roots
BY DEF MainStates, Idle, Panicked

LEMMA MainStatesMade ==
  /\ Idle \in MainStates /\ Idle.op = "idle"
  /\ Panicked \in MainStates /\ Panicked.op = "panicked"
  /\ \A f \in Files \cup {Absent} : Failed(f) \in MainStates /\ Failed(f).op = "failed"
  /\ \A r \in Roots : [op |-> "install", root |-> r] \in MainStates
BY DEF MainStates, Idle, Panicked, Failed

LEMMA LoadStatesMade ==
  ASSUME NEW r \in Roots, NEW todo \in SUBSET Files, NEW f \in Files \cup {Absent}
  PROVE  /\ [op |-> "lock", root |-> r, todo |-> todo] \in MainStates
         /\ [op |-> "add", root |-> r, todo |-> todo, file |-> f] \in MainStates
BY DEF MainStates

MainActs ==
  \/ MainWorks
  \/ \E r \in Roots : WatchSource(r)
  \/ \E c \in Codes : AddText(c)

\* What a step of the main thread keeps of the types.
LEMMA MainTypes ==
  ASSUME TypesOK, LockOK, StoreInv(store), IsFiniteSet(watched),
         MainActs
  PROVE  TypesOK' /\ LockOK' /\ StoreInv(store)' /\ IsFiniteSet(watched)'
<1> DEFINE Goal == TypesOK' /\ LockOK' /\ StoreInv(store)' /\ IsFiniteSet(watched)'
<1>0. main \in MainStates /\ store \in Stores
  BY DEF TypesOK
<1>1. ASSUME NEW r \in Roots, WatchSource(r) PROVE Goal
  <2>1. {f \in FilesIn[r] : disk[f] # Absent} \in SUBSET Files
    BY RootsAssumption
  <2>2. main' \in MainStates /\ main'.op = "lock"
    BY <1>1, <2>1, LoadStatesMade DEF WatchSource
  <2>3. loads' \in 0..MaxLoads
    BY <1>1, RootsAssumption DEF WatchSource, TypesOK
  <2>4. LockOK'
    BY <1>1, <2>2 DEF LockOK, WatchSource, MainStep, Panicked
  <2>5. TypesOK'
    BY <1>1, <2>2, <2>3 DEF TypesOK, WatchSource, MainStep
  <2> QED BY <1>1, <2>4, <2>5 DEF WatchSource
<1>2. CASE LockForLoad
  <2>1. main' \in MainStates /\ main'.op = "add"
    BY <1>0, <1>2, MainShape, LoadStatesMade DEF LockForLoad
  <2>2. TypesOK'
    BY <1>2, <2>1 DEF TypesOK, LockForLoad, MainStep, Acquire
  <2>3. LockOK'
    BY <1>2, <2>1 DEF LockOK, LockForLoad, MainStep, Acquire
  <2> QED BY <1>2, <2>2, <2>3 DEF LockForLoad
<1>3. CASE LockRefused
  <2>1. main' \in MainStates /\ main'.op = "failed"
    BY <1>3, MainStatesMade DEF LockRefused
  <2>2. TypesOK'
    BY <1>3, <2>1 DEF TypesOK, LockRefused, MainStep
  <2>3. LockOK'
    BY <1>3, <2>1 DEF LockOK, LockRefused, MainStep, Panicked
  <2> QED BY <1>3, <2>2, <2>3 DEF LockRefused
<1>4. ASSUME NEW f \in Files, ResolveListed(f) PROVE Goal
  <2>1. /\ main' \in MainStates
        /\ \/ main'.op = "add" /\ writer' = writer /\ poisoned' = poisoned
           \/ main' = Panicked /\ main'.op = "panicked" /\ Poison
    <3>1. CASE disk[f] = Absent
      BY <1>4, <3>1, MainStatesMade DEF ResolveListed
    <3>2. CASE disk[f] # Absent
      <4>1. main.op = "add" /\ main' = [main EXCEPT !.file = f] /\ UNCHANGED lockVars
        BY <1>4, <3>2 DEF ResolveListed
      <4>2. main' = [op |-> "add", root |-> main.root, todo |-> main.todo, file |-> f]
        BY <1>0, <4>1, MainShape
      <4>3. main.root \in Roots /\ main.todo \in SUBSET Files
        BY <1>0, <4>1, MainShape
      <4>4. main' \in MainStates /\ main'.op = "add"
        BY <4>2, <4>3, LoadStatesMade, Zenon
      <4>5. writer' = writer /\ poisoned' = poisoned
        BY <4>1 DEF lockVars
      <4> QED BY <4>4, <4>5
    <3> QED BY <3>1, <3>2
  <2>2. main.op = "add"
    BY <1>4 DEF ResolveListed
  <2>3. TypesOK'
    BY <1>4, <2>1 DEF TypesOK, ResolveListed, MainStep, Poison
  <2>4. LockOK'
    BY <1>4, <2>1, <2>2 DEF LockOK, ResolveListed, MainStep, Poison, Panicked
  <2> QED BY <1>4, <2>3, <2>4 DEF ResolveListed
<1>6. CASE FinishLoad
  <2>1. main' \in MainStates /\ main'.op = "install" /\ main.op = "add"
    BY <1>0, <1>6, MainShape, MainStatesMade DEF FinishLoad
  <2>2. TypesOK'
    BY <1>6, <2>1 DEF TypesOK, FinishLoad, MainStep, Release
  <2>3. LockOK'
    BY <1>6, <2>1 DEF LockOK, FinishLoad, MainStep, Release, Panicked
  <2> QED BY <1>6, <2>2, <2>3 DEF FinishLoad
<1>5. CASE AddListed
  <2> DEFINE f == main.file
             added == AddSource(store, f, disk[f])
  <2>1. main.op = "add" /\ f \in Files /\ disk[f] \in Texts \cup {Absent}
    BY <1>0, <1>5, MainShape DEF AddListed, TypesOK
  <2>2. StoreInv(added.store)
    BY <2>1, AddSourceOutcomes, AddImageKeeps, AddPageKeeps
  <2>3. /\ main' \in MainStates
        /\ \/ main'.op = "add" /\ writer' = writer /\ poisoned' = poisoned
           \/ main'.op = "failed" /\ Release
           \/ main' = Panicked /\ main'.op = "panicked" /\ Poison
    <3>1. CASE added.result = "ok"
      <4>1. main' = [main EXCEPT !.todo = @ \ {f}, !.file = Absent] /\ UNCHANGED lockVars
        BY <1>5, <3>1 DEF AddListed
      <4>2. main' = [op |-> "add", root |-> main.root, todo |-> main.todo \ {f}, file |-> Absent]
        BY <1>0, <2>1, <4>1, MainShape
      <4>3. main.root \in Roots /\ main.todo \ {f} \in SUBSET Files
        BY <1>0, <2>1, MainShape
      <4>4. main' \in MainStates
        BY <4>2, <4>3, LoadStatesMade
      <4>5. main'.op = "add"
        BY <4>2
      <4> QED BY <4>1, <4>4, <4>5
    <3>2. CASE added.result # "ok"
      BY <1>5, <2>1, <3>2, MainStatesMade DEF AddListed
    <3> QED BY <3>1, <3>2
  <2>4. store' = added.store
    BY <1>5 DEF AddListed
  <2> HIDE DEF added
  <2>5. TypesOK'
    BY <1>5, <2>2, <2>3, <2>4 DEF TypesOK, AddListed, MainStep, Release, Poison, StoreInv
  <2>6. LockOK'
    BY <1>5, <2>1, <2>3 DEF LockOK, AddListed, MainStep, Release, Poison, Panicked
  <2> QED BY <1>5, <2>2, <2>4, <2>5, <2>6 DEF AddListed
<1>7. CASE InstallWatcher
  <2>1. main' \in MainStates /\ main'.op \in {"idle", "failed"} /\ main.op = "install" /\ main.root \in Roots
    BY <1>0, <1>7, MainShape, MainStatesMade DEF InstallWatcher
  <2>2. watched' \in {watched, watched \cup {[load |-> loads, root |-> main.root]}}
    BY <1>7 DEF InstallWatcher
  <2>3. IsFiniteSet(watched')
    BY <2>2, FS_AddElement
  <2>4. loads \in 0..MaxLoads
    BY DEF TypesOK
  <2>5. watched' \subseteq [load : 0..MaxLoads, root : Roots]
    BY <2>1, <2>2, <2>4 DEF TypesOK
  <2>6. TypesOK'
    BY <1>7, <2>1, <2>5 DEF TypesOK, InstallWatcher, MainStep
  <2>7. LockOK'
    BY <1>7, <2>1 DEF LockOK, InstallWatcher, MainStep, Panicked
  <2> QED BY <1>7, <2>3, <2>6, <2>7 DEF InstallWatcher
<1>8. ASSUME NEW c \in Codes, AddText(c) PROVE Goal
  <2>1. StoreInv(AddCode(store, c, CodeText[c]).store)
    BY AddCodeKeeps, RootsAssumption
  <2>2. StoreInv(store') /\ main' \in MainStates /\ main'.op \in {"idle", "failed"} /\ main.op \in {"idle", "failed"}
    BY <1>8, <2>1, MainStatesMade DEF AddText
  <2>3. TypesOK'
    BY <1>8, <2>2 DEF TypesOK, AddText, MainStep, StoreInv
  <2>4. LockOK'
    BY <1>8, <2>2 DEF LockOK, AddText, MainStep, Panicked
  <2> QED BY <1>8, <2>2, <2>3, <2>4 DEF AddText
<1> QED BY <1>1, <1>2, <1>3, <1>4, <1>5, <1>6, <1>7, <1>8 DEF MainActs, MainWorks

\* What a step of the reload thread keeps of the types.
LEMMA ReloaderTypes ==
  ASSUME TypesOK, LockOK, StoreInv(store), IsFiniteSet(watched), ReloaderWorks
  PROVE  TypesOK' /\ LockOK' /\ StoreInv(store)' /\ IsFiniteSet(watched)'
<1> DEFINE Goal == TypesOK' /\ LockOK' /\ StoreInv(store)' /\ IsFiniteSet(watched)'
           ReloaderType == [op : ReloaderOps, paths : Seq(Files)]
<1>0. /\ events \in Seq(EventType) /\ Len(events) <= MaxEvents
      /\ reloader \in ReloaderType /\ store \in Stores
  BY DEF TypesOK
<1>d. Dead \in ReloaderType /\ Dead.op = "dead" /\ Waiting \in ReloaderType /\ Waiting.op = "wait"
  BY DEF Dead, Waiting, ReloaderOps
<1>1. CASE TakeEvent
  <2> DEFINE e == Head(events)
  <2>1. e \in EventType /\ Tail(events) \in Seq(EventType) /\ Len(Tail(events)) <= MaxEvents
    <3>1. events # <<>>
      BY <1>1 DEF TakeEvent
    <3>2. MaxEvents \in Nat
      BY RootsAssumption
    <3> QED BY <1>0, <3>1, <3>2, HeadAndTail
  <2>2. events' \in Seq(EventType) /\ Len(events') <= MaxEvents
    BY <1>1, <2>1, RootsAssumption DEF TakeEvent
  <2>3. /\ reloader' \in ReloaderType
        /\ \/ reloader'.op = "paths" /\ reloader'.paths # <<>>
           \/ reloader'.op \in {"wait", "dead"}
    <3>1. CASE e.kind = "modify"
      BY <1>1, <2>1, <3>1 DEF TakeEvent, EventType, ReloaderOps
    <3>2. CASE e.kind \in {"create", "remove"}
      BY <1>1, <1>d, <3>2 DEF TakeEvent
    <3>3. CASE e.kind = "other"
      BY <1>1, <1>d, <3>3 DEF TakeEvent
    <3> QED BY <2>1, <3>1, <3>2, <3>3 DEF EventType, EventKinds
  <2>4. TypesOK'
    BY <1>1, <2>2, <2>3 DEF TypesOK, TakeEvent, ReloadStep
  <2>5. LockOK'
    <3>1. /\ reloader.op = "wait" /\ Running /\ main' = main
          /\ writer' = writer /\ poisoned' = poisoned
      BY <1>1 DEF TakeEvent, ReloadStep
    <3>2. ~poisoned /\ writer # "reloader"
      BY <1>d, <3>1 DEF LockOK, Running
    <3> QED BY <2>3, <3>1, <3>2 DEF LockOK
  <2> QED BY <1>1, <2>4, <2>5 DEF TakeEvent, ReloadStep
<1>2. CASE LockForReload
  <2>1. reloader' \in ReloaderType /\ reloader'.op = "locked" /\ reloader'.paths = reloader.paths
    BY <1>0, <1>2 DEF LockForReload, ReloaderOps
  <2>2. TypesOK'
    BY <1>2, <2>1 DEF TypesOK, LockForReload, ReloadStep, Acquire
  <2>3. LockOK'
    BY <1>2, <2>1 DEF LockOK, LockForReload, ReloadStep, Acquire, Dead
  <2> QED BY <1>2, <2>2, <2>3 DEF LockForReload, ReloadStep
<1>3. CASE ResolvePath
  <2>1. /\ \/ Die
           \/ /\ reloader' \in ReloaderType /\ reloader'.op = "read"
              /\ reloader'.paths = reloader.paths /\ UNCHANGED <<lockVars, events>>
        /\ reloader.op = "locked"
    BY <1>0, <1>3 DEF ResolvePath, ReloaderOps
  <2>2. /\ reloader' \in ReloaderType /\ events' \in Seq(EventType) /\ Len(events') <= MaxEvents
        /\ writer' \in {"none", "main", "reloader"} /\ poisoned' \in BOOLEAN
    <3>1. <<>> \in Seq(EventType) /\ Len(<<>>) <= MaxEvents
      BY RootsAssumption
    <3>2. CASE Die
      BY <1>d, <3>1, <3>2 DEF Die, Poison
    <3>3. CASE ~Die
      BY <1>0, <2>1, <3>3 DEF TypesOK
    <3> QED BY <3>2, <3>3
  <2>4. TypesOK'
    BY <1>3, <2>2 DEF TypesOK, ResolvePath, ReloadStep
  <2>3. LockOK'
    BY <1>d, <1>3, <2>1 DEF LockOK, ResolvePath, ReloadStep, Die, Poison, Dead
  <2> QED BY <1>3, <2>4, <2>3 DEF ResolvePath, ReloadStep
<1>4. CASE Reload
  <2> DEFINE f == Head(reloader.paths)
             reloaded == ReloadSource(store, f, disk[f])
  <2>1. /\ reloader.op = "read" /\ reloader.paths \in Seq(Files) /\ reloader.paths # <<>>
        /\ f \in Files /\ disk[f] \in Texts \cup {Absent}
    BY <1>0, <1>4 DEF Reload, LockOK, TypesOK
  <2>2. StoreInv(reloaded.store)
    <3>1. CASE /\ Loaded(store, f) /\ KindOf[f] # "mecb" /\ Formats(f, store.source[f])
               /\ disk[f] \in Texts /\ reloaded.store = Refresh(store, f, disk[f])
      BY <2>1, <3>1, RefreshKeeps
    <3>2. CASE reloaded.store = store
      BY <3>2
    <3> QED BY <2>1, <3>1, <3>2, ReloadSourceOutcomes
  <2>3. NextPath \in ReloaderType /\ NextPath.op \in {"wait", "paths"}
        /\ (NextPath.op = "paths" => NextPath.paths # <<>>)
    <3>1. CASE Len(reloader.paths) = 1
      BY <1>d, <3>1 DEF NextPath
    <3>2. CASE Len(reloader.paths) # 1
      <4>1. Tail(reloader.paths) \in Seq(Files) /\ Tail(reloader.paths) # <<>>
        BY <2>1, <3>2, HeadAndTail
      <4> QED BY <3>2, <4>1 DEF NextPath, ReloaderOps
    <3> QED BY <3>1, <3>2
  <2>4. \/ Die
        \/ reloader' = NextPath /\ Release /\ UNCHANGED events
    BY <1>4 DEF Reload
  <2>5. /\ reloader' \in ReloaderType /\ events' \in Seq(EventType) /\ Len(events') <= MaxEvents
        /\ writer' = "none" /\ poisoned' \in BOOLEAN
    <3>1. <<>> \in Seq(EventType) /\ Len(<<>>) <= MaxEvents
      BY RootsAssumption
    <3>2. CASE Die
      BY <1>d, <3>1, <3>2 DEF Die, Poison
    <3>3. CASE ~Die
      BY <1>0, <2>3, <2>4, <3>3 DEF Release, TypesOK
    <3> QED BY <3>2, <3>3
  <2>6. store' = reloaded.store
    BY <1>4 DEF Reload
  <2> HIDE DEF reloaded
  <2>7. TypesOK'
    BY <1>4, <2>2, <2>5, <2>6 DEF TypesOK, Reload, ReloadStep, StoreInv
  <2>8. LockOK'
    <3>1. CASE Die
      BY <1>4, <1>d, <2>1, <3>1 DEF LockOK, Reload, ReloadStep, Die, Poison
    <3>2. CASE reloader' = NextPath /\ Release /\ UNCHANGED events
      BY <1>4, <2>1, <2>3, <3>2 DEF LockOK, Reload, ReloadStep, Release, Dead
    <3> QED BY <2>4, <3>1, <3>2
  <2> QED BY <1>4, <2>2, <2>6, <2>7, <2>8 DEF Reload, ReloadStep
<1> QED BY <1>1, <1>2, <1>3, <1>4 DEF ReloaderWorks

-----------------------------------------------------------------------------
(* Versions.                                                               *)

LEMMA VersionsAreNaturals ==
  /\ \A e : VersionOf(e) \in Nat
  /\ \A text \in Texts : VersionOf(text) = text.version
  /\ \A e : e \notin Texts => VersionOf(e) = 0
  /\ Absent \notin Texts /\ Blank \notin Texts
<1>1. Absent \notin Texts /\ Blank \notin Texts
  BY ModelValuesAssumption
<1>2. \A text \in Texts : text.version \in Nat
  <2>1. MaxVersion \in Nat
    BY SourcesAssumption
  <2> QED BY <2>1 DEF Texts
<1> QED BY <1>1, <1>2 DEF VersionOf

\* Of one file, nothing in store t is older than in store s.
Newer(s, t, f) ==
  /\ VersionOf(t.html[f]) >= VersionOf(s.html[f])
  /\ VersionOf(t.tree[f]) >= VersionOf(s.tree[f])
  /\ VersionOf(t.source[f]) >= VersionOf(s.source[f])

\* What a step of a thread does to the store: nothing, or one operation on one
\* file with the text on disk, or a text added as text.
StoreStep ==
  \/ store' = store
  \/ \E f \in Files :
       /\ disk[f] \in Texts
       /\ \/ KindOf[f] = "image" /\ store' = AddImage(store, f, disk[f])
          \/ KindOf[f] # "image" /\ Formats(f, disk[f]) /\ store' = AddPage(store, f, disk[f])
          \/ /\ Loaded(store, f) /\ KindOf[f] # "mecb" /\ Formats(f, store.source[f])
             /\ store' = Refresh(store, f, disk[f])
  \/ \E c \in Codes : store' = AddCode(store, c, CodeText[c]).store

LEMMA StoreSteps ==
  ASSUME TypesOK, LockOK,
         MainActs \/ ReloaderWorks
  PROVE  StoreStep /\ UNCHANGED diskVars
<1>1. CASE AddListed
  <2>1. main.file \in Files /\ disk[main.file] \in Texts \cup {Absent}
    BY <1>1, MainShape DEF AddListed, TypesOK
  <2>2. store' = AddSource(store, main.file, disk[main.file]).store /\ UNCHANGED diskVars
    BY <1>1 DEF AddListed, MainStep
  <2> QED BY <2>1, <2>2, AddSourceOutcomes DEF StoreStep
<1>2. ASSUME NEW c \in Codes, AddText(c) PROVE StoreStep /\ UNCHANGED diskVars
  BY <1>2 DEF AddText, MainStep, StoreStep
<1>3. CASE Reload
  <2> DEFINE f == Head(reloader.paths)
  <2>1. f \in Files /\ disk[f] \in Texts \cup {Absent}
    BY <1>3 DEF Reload, LockOK, TypesOK
  <2>2. store' = ReloadSource(store, f, disk[f]).store /\ UNCHANGED diskVars
    BY <1>3 DEF Reload, ReloadStep
  <2> QED BY <2>1, <2>2, ReloadSourceOutcomes DEF StoreStep
<1>4. CASE LockForLoad \/ LockRefused \/ FinishLoad \/ InstallWatcher \/ \E f \in Files : ResolveListed(f)
  BY <1>4 DEF LockForLoad, LockRefused, FinishLoad, InstallWatcher, ResolveListed, MainStep, StoreStep
<1>5. CASE TakeEvent \/ LockForReload \/ ResolvePath
  BY <1>5 DEF TakeEvent, LockForReload, ResolvePath, ReloadStep, StoreStep
<1>6. ASSUME NEW r \in Roots, WatchSource(r) PROVE StoreStep /\ UNCHANGED diskVars
  BY <1>6 DEF WatchSource, MainStep, StoreStep
<1> QED BY <1>1, <1>2, <1>3, <1>4, <1>5, <1>6 DEF MainActs, MainWorks, ReloaderWorks

\* A step of a thread leaves every file at least as new as it was, and no newer
\* than the file on disk.
LEMMA ThreadsKeepFresh ==
  ASSUME StoreInv(store), TypesOK, StoreStep, UNCHANGED diskVars,
         NEW g \in Files, Fresh(store, g)
  PROVE  Newer(store, store', g) /\ Fresh(store, g)'
<1> USE VersionsAreNaturals
<1>1. CASE store' = store
  BY <1>1 DEF Newer, Fresh, DiskVersion
<1>2. ASSUME NEW c \in Codes, store' = AddCode(store, c, CodeText[c]).store
      PROVE  Newer(store, store', g) /\ Fresh(store, g)'
  <2>1. CodeText[c] \in Texts
    BY RootsAssumption
  <2>2. store'.source[g] = store.source[g] /\ store'.tree[g] = store.tree[g] /\ store'.html[g] = store.html[g]
    BY <1>2, <2>1, AddCodeKeeps
  <2> QED BY <2>2 DEF Newer, Fresh, DiskVersion
<1>3. ASSUME NEW f \in Files, disk[f] \in Texts,
             \/ KindOf[f] = "image" /\ store' = AddImage(store, f, disk[f])
             \/ KindOf[f] # "image" /\ Formats(f, disk[f]) /\ store' = AddPage(store, f, disk[f])
             \/ /\ Loaded(store, f) /\ KindOf[f] # "mecb" /\ Formats(f, store.source[f])
                /\ store' = Refresh(store, f, disk[f])
      PROVE  Newer(store, store', g) /\ Fresh(store, g)'
  <2> DEFINE text == disk[f]
             old == store.source[f]
  <2>1. CASE g # f
    <3>1. store'.source[g] = store.source[g] /\ store'.tree[g] = store.tree[g] /\ store'.html[g] = store.html[g]
      <4>1. CASE store' = AddImage(store, f, text)
        BY <2>1, <4>1 DEF AddImage, StoreInv
      <4>2. CASE store' = AddPage(store, f, text)
        BY <2>1, <4>2 DEF AddPage, StoreInv
      <4>3. CASE store' = Refresh(store, f, text)
        BY <2>1, <4>3 DEF Refresh, StoreInv
      <4> QED BY <1>3, <4>1, <4>2, <4>3
    <3> QED BY <3>1 DEF Newer, Fresh, DiskVersion
  <2>2. CASE g = f /\ KindOf[f] = "image" /\ store' = AddImage(store, f, text)
    <3>1. store'.source[f] = text /\ store'.tree[f] = store.tree[f] /\ store'.html[f] = store.html[f]
      BY <2>2 DEF AddImage, StoreInv
    <3>2. store.tree[f] = Absent /\ store.html[f] = Absent
      BY <2>2 DEF StoreInv, RenderedByKind
    <3>3. VersionOf(text) = text.version /\ text # Absent
      BY <1>3
    <3> QED BY <2>2, <3>1, <3>2, <3>3 DEF Newer, Fresh, DiskVersion
  <2>3. CASE g = f /\ store' = AddPage(store, f, text)
    <3>1. /\ store'.source[f] = text /\ store'.tree[f] = Tree(f, text)
          /\ store'.html[f] = Page(f, text)
      BY <2>3 DEF AddPage, StoreInv
    <3>2. /\ VersionOf(Tree(f, text)) = IF KindOf[f] = "mec" THEN text.version ELSE 0
          /\ VersionOf(Page(f, text)) = IF KindOf[f] = "mecb" THEN 0 ELSE text.version
          /\ VersionOf(text) = text.version /\ text # Absent
      BY <1>3 DEF Tree, Page
    <3>3. /\ KindOf[f] # "mec" => VersionOf(store.tree[f]) = 0
          /\ KindOf[f] = "mecb" => VersionOf(store.html[f]) = 0
      BY DEF StoreInv, RenderedByKind
    <3> HIDE DEF text
    <3>4. text.version \in Nat
      BY <3>2
    <3> QED BY <2>3, <3>1, <3>2, <3>3, <3>4 DEF Newer, Fresh, DiskVersion, text
  <2>4. CASE /\ g = f /\ store' = Refresh(store, f, text)
             /\ Loaded(store, f) /\ KindOf[f] # "mecb"
    <3>1. /\ store'.source[f] = text /\ store'.tree[f] = Tree(f, old)
          /\ store'.html[f] = Page(f, old)
      BY <2>4 DEF Refresh, StoreInv
    <3>2. /\ VersionOf(Tree(f, old)) = IF KindOf[f] = "mec" THEN VersionOf(old) ELSE 0
          /\ VersionOf(Page(f, old)) = VersionOf(old)
          /\ VersionOf(text) = text.version /\ text # Absent
      BY <1>3, <2>4 DEF Tree, Page
    <3>3. KindOf[f] # "mec" => VersionOf(store.tree[f]) = 0
      BY DEF StoreInv, RenderedByKind
    <3> QED BY <2>4, <3>1, <3>2, <3>3 DEF Newer, Fresh, DiskVersion
  <2> QED BY <1>3, <2>1, <2>2, <2>3, <2>4
<1> QED BY <1>1, <1>2, <1>3 DEF StoreStep

EnvironmentActs ==
  \E f \in Files : \/ \E parses \in BOOLEAN : Save(f, parses)
                   \/ Delete(f)
                   \/ Touch(f)
                   \/ \E g \in Files : Rename(f, g)

LEMMA NextActs == Next <=> EnvironmentActs \/ MainActs \/ ReloaderWorks
BY DEF Next, EnvironmentActs, MainActs

\* What an edit does to the versions of one file.
LEMMA EditVersions ==
  ASSUME TypesOK, EnvironmentActs, NEW g \in Files
  PROVE  /\ store' = store /\ reloader' = reloader
         /\ version' \in Nat /\ version' >= version
         /\ \/ disk'[g] = disk[g] /\ reported'[g] = reported[g]
            \/ disk'[g] = Absent /\ reported'[g] = reported[g]
            \/ /\ disk'[g] # Absent /\ disk'[g].version = version' /\ version' = version + 1
               /\ reported'[g] \in {reported[g], version'}
               /\ Watching(g) = {} => reported'[g] = reported[g]
<1> PICK f \in Files : \/ \E parses \in BOOLEAN : Save(f, parses)
                       \/ Delete(f)
                       \/ Touch(f)
                       \/ \E h \in Files : Rename(f, h)
  BY DEF EnvironmentActs
<1>0. /\ version \in Nat /\ disk \in [Files -> Texts \cup {Absent}]
      /\ reported \in [Files -> 0..MaxVersion]
  BY DEF TypesOK
<1> DEFINE Edited == /\ disk'[g] # Absent /\ disk'[g].version = version' /\ version' = version + 1
                     /\ reported'[g] \in {reported[g], version'}
                     /\ Watching(g) = {} => reported'[g] = reported[g]
           Kept == disk'[g] = disk[g] /\ reported'[g] = reported[g]
           Gone == disk'[g] = Absent /\ reported'[g] = reported[g]
           Goal == /\ store' = store /\ reloader' = reloader
                   /\ version' \in Nat /\ version' >= version
                   /\ Kept \/ Gone \/ Edited
<1>r. ASSUME NEW parses \in BOOLEAN, version < MaxVersion
      PROVE  /\ [version |-> version + 1, parses |-> parses] # Absent
             /\ [version |-> version + 1, parses |-> parses].version = version + 1
  <2>1. version + 1 \in 0..MaxVersion
    <3>1. MaxVersion \in Nat
      BY SourcesAssumption
    <3> QED BY <1>0, <1>r, <3>1
  <2>2. [version |-> version + 1, parses |-> parses] \in Texts
    BY <2>1 DEF Texts
  <2> QED BY <2>2, VersionsAreNaturals
<1>1. ASSUME NEW parses \in BOOLEAN, Save(f, parses) PROVE Goal
  <2>0. /\ store' = store /\ reloader' = reloader
        /\ version < MaxVersion /\ version' = version + 1
        /\ disk' = [disk EXCEPT ![f] = [version |-> version + 1, parses |-> parses]]
        /\ reported' = Reported(f, version + 1)
    BY <1>1 DEF Save, Environment
  <2>1. CASE g # f
    BY <1>0, <2>0, <2>1 DEF Reported
  <2>2. CASE g = f
    BY <1>0, <1>r, <2>0, <2>2 DEF Reported
  <2> QED BY <2>1, <2>2
<1>2. CASE Delete(f)
  BY <1>0, <1>2 DEF Delete, Environment
<1>3. CASE Touch(f)
  BY <1>0, <1>3 DEF Touch, Environment
<1>4. ASSUME NEW h \in Files, Rename(f, h) PROVE Goal
  <2>0. /\ store' = store /\ reloader' = reloader
        /\ version < MaxVersion /\ version' = version + 1 /\ f # h /\ disk[f] # Absent
        /\ disk' = [disk EXCEPT ![h] = [version |-> version + 1, parses |-> disk[f].parses],
                                ![f] = Absent]
        /\ reported' = Reported(h, version + 1)
    BY <1>4 DEF Rename, Environment
  <2>p. disk[f].parses \in BOOLEAN
    BY <1>0, <2>0 DEF Texts
  <2>1. CASE g # f /\ g # h
    BY <1>0, <2>0, <2>1 DEF Reported
  <2>2. CASE g = h
    BY <1>0, <1>r, <2>0, <2>p, <2>2 DEF Reported
  <2>3. CASE g = f
    BY <1>0, <2>0, <2>3 DEF Reported
  <2> QED BY <2>1, <2>2, <2>3
<1> QED BY <1>1, <1>2, <1>3, <1>4

\* A modify event that names f is on its way to the reload thread.
Sent(f) == \E i \in 1..Len(events) : events[i].kind = "modify" /\ f \in ToSet(events[i].paths)

\* With a reload thread to listen, no watcher goes, no event is lost, and an edit
\* of a watched file is sent.
LEMMA EditNotifies ==
  ASSUME TypesOK, IsFiniteSet(watched), EnvironmentActs, reloader.op # "dead", NEW g \in Files
  PROVE  /\ watched' = watched
         /\ Sent(g) => Sent(g)'
         /\ \/ disk'[g] = disk[g] /\ reported'[g] = reported[g]
            \/ disk'[g] = Absent
            \/ Watching(g) = {} /\ reported'[g] = reported[g]
            \/ Sent(g)'
<1> PICK f \in Files : \/ \E parses \in BOOLEAN : Save(f, parses)
                       \/ Delete(f)
                       \/ Touch(f)
                       \/ \E h \in Files : Rename(f, h)
  BY DEF EnvironmentActs
<1> DEFINE Goal == /\ watched' = watched
                   /\ Sent(g) => Sent(g)'
                   /\ \/ disk'[g] = disk[g] /\ reported'[g] = reported[g]
                      \/ disk'[g] = Absent
                      \/ Watching(g) = {} /\ reported'[g] = reported[g]
                      \/ Sent(g)'
<1>0. /\ disk \in [Files -> Texts \cup {Absent}]
      /\ reported \in [Files -> 0..MaxVersion]
  BY DEF TypesOK
<1>k. ASSUME NEW h \in Files, NEW sent \in Seq(EventType), Notify(h, sent)
      PROVE  /\ watched' = watched /\ (Sent(g) => Sent(g)')
             /\ Watching(h) # {} => \A j \in 1..Len(sent) : \E i \in 1..Len(events') : events'[i] = sent[j]
  BY <1>k, NotifyOutcomes DEF Sent
<1>1. ASSUME NEW parses \in BOOLEAN, Save(f, parses) PROVE Goal
  <2> DEFINE sent == (IF disk[f] = Absent THEN <<Event("create", <<f>>)>> ELSE <<>>)
                       \o <<Event("modify", <<f>>)>>
  <2>1. sent \in Seq(EventType) /\ Len(sent) \in 1..Len(sent) /\ sent[Len(sent)] = Event("modify", <<f>>)
    BY SaveSends
  <2>2. Notify(f, sent)
    BY <1>1 DEF Save
  <2> HIDE DEF sent
  <2>3. Watching(f) # {} => Sent(f)'
    <3>1. Event("modify", <<f>>).kind = "modify" /\ f \in ToSet(Event("modify", <<f>>).paths)
      BY DEF Event, ToSet
    <3>2. Watching(f) # {} => \E i \in 1..Len(events') : events'[i] = sent[Len(sent)]
      BY <1>k, <2>1, <2>2
    <3> QED BY <2>1, <3>1, <3>2 DEF Sent
  <2>4. Watching(f) = {} => reported' = reported
    BY <1>1 DEF Save, Reported
  <2>5. g # f => disk'[g] = disk[g] /\ reported'[g] = reported[g]
    BY <1>0, <1>1 DEF Save, Reported
  <2>k. watched' = watched /\ (Sent(g) => Sent(g)')
    BY <1>k, <2>1, <2>2
  <2> QED BY <2>k, <2>3, <2>4, <2>5
<1>2. CASE Delete(f)
  <2>1. <<Event("remove", <<f>>)>> \in Seq(EventType)
    BY EventIsSent DEF EventKinds
  <2>2. Notify(f, <<Event("remove", <<f>>)>>) /\ reported' = reported
    BY <1>2 DEF Delete
  <2>3. disk'[g] \in {disk[g], Absent}
    BY <1>0, <1>2 DEF Delete
  <2>k. watched' = watched /\ (Sent(g) => Sent(g)')
    BY <1>k, <2>1, <2>2
  <2> QED BY <2>k, <2>2, <2>3
<1>3. CASE Touch(f)
  <2>1. <<Event("other", <<f>>)>> \in Seq(EventType)
    BY EventIsSent DEF EventKinds
  <2>2. Notify(f, <<Event("other", <<f>>)>>) /\ reported' = reported /\ disk' = disk
    BY <1>3 DEF Touch
  <2>k. watched' = watched /\ (Sent(g) => Sent(g)')
    BY <1>k, <2>1, <2>2
  <2> QED BY <2>k, <2>2
<1>4. ASSUME NEW h \in Files, Rename(f, h) PROVE Goal
  <2> DEFINE e == Event("modify", <<f, h>>)
  <2>1. <<e>> \in Seq(EventType)
    BY EventIsSent DEF EventKinds
  <2>2. Notify(f, <<e>>) /\ Watching(f) = Watching(h)
    BY <1>4 DEF Rename
  <2>3. e.kind = "modify" /\ h \in ToSet(e.paths)
    BY DEF Event, ToSet
  <2> HIDE DEF e
  <2>4. Watching(h) # {} => Sent(h)'
    <3>1. 1 \in 1..Len(<<e>>) /\ <<e>>[1] = e
      OBVIOUS
    <3>2. Watching(h) # {} => \E i \in 1..Len(events') : events'[i] = e
      BY <1>k, <2>1, <2>2, <3>1
    <3> QED BY <2>3, <3>2 DEF Sent
  <2>5. Watching(h) = {} => reported' = reported
    BY <1>4 DEF Rename, Reported
  <2>6. g # h => reported'[g] = reported[g] /\ disk'[g] \in {disk[g], Absent}
    BY <1>0, <1>4 DEF Rename, Reported
  <2>k. watched' = watched /\ (Sent(g) => Sent(g)')
    BY <1>k, <2>1, <2>2
  <2> QED BY <2>k, <2>2, <2>4, <2>5, <2>6
<1> QED BY <1>1, <1>2, <1>3, <1>4

\* Edits keep what is served no newer than the files, and the reports true.
LEMMA EditsKeepVersions ==
  ASSUME TypesOK, IsFiniteSet(watched), StoreInv(store), EnvironmentActs,
         NEW g \in Files, Fresh(store, g), ReportsHold(g)
  PROVE  Fresh(store, g)' /\ ReportsHold(g)'
<1>0. version \in Nat /\ reported[g] \in Nat /\ (disk[g] # Absent => disk[g].version \in Nat)
  <2>1. disk[g] \in Texts \cup {Absent} /\ reported[g] \in 0..MaxVersion /\ version \in 0..MaxVersion
    BY DEF TypesOK
  <2> QED BY <2>1, VersionsAreNaturals
<1>d. disk[g] # Absent => disk[g].version <= version
  BY DEF Fresh, DiskVersion
<1>e. /\ store' = store /\ version' \in Nat /\ version' >= version
      /\ \/ disk'[g] = disk[g] /\ reported'[g] = reported[g]
         \/ disk'[g] = Absent /\ reported'[g] = reported[g]
         \/ /\ disk'[g].version = version' /\ version' = version + 1
            /\ reported'[g] \in {reported[g], version'}
  BY EditVersions
<1>1. Fresh(store, g)'
  <2> DEFINE s == VersionOf(store.source[g])
             t == VersionOf(store.tree[g])
             h == VersionOf(store.html[g])
  <2>1. s \in Nat /\ s <= version /\ (disk[g] # Absent => s <= disk[g].version) /\ h <= s /\ t <= s
    BY VersionsAreNaturals DEF Fresh, DiskVersion
  <2>2. s <= version' /\ (disk'[g] # Absent => s <= disk'[g].version /\ disk'[g].version <= version')
    <3> HIDE DEF s
    <3> QED BY <1>0, <1>d, <1>e, <2>1
  <2> QED BY <1>e, <2>1, <2>2 DEF Fresh, DiskVersion
<1>2. /\ reported'[g] <= version'
      /\ disk'[g] # Absent => reported'[g] <= disk'[g].version
  <2>1. reported[g] <= version /\ (disk[g] # Absent => reported[g] <= disk[g].version)
    BY DEF ReportsHold, DiskVersion
  <2> QED BY <1>0, <1>e, <2>1
<1>3. (reloader.op # "dead" /\ reported[g] > 0 => Watching(g) # {})'
  <2>1. CASE reloader.op = "dead"
    BY <2>1, EditVersions
  <2>2. CASE reloader.op # "dead"
    <3>1. watched' = watched
      BY <2>2, EditNotifies
    <3>2. Watching(g)' = Watching(g)
      BY <3>1 DEF Watching
    <3>3. reported'[g] = reported[g] \/ Watching(g) # {}
      BY EditVersions
    <3> QED BY <2>2, <3>2, <3>3, EditVersions DEF ReportsHold
  <2> QED BY <2>1, <2>2
<1> QED BY <1>1, <1>2, <1>3 DEF ReportsHold, DiskVersion

\* So do the threads: a watcher is only added, and a dead thread stays dead.
LEMMA ThreadsKeepReports ==
  ASSUME TypesOK, LockOK, MainActs \/ ReloaderWorks, NEW g \in Files, ReportsHold(g)
  PROVE  ReportsHold(g)'
<1>1. UNCHANGED <<version, disk, reported>>
  BY StoreSteps
<1>2. Watching(g) \subseteq Watching(g)'
  <2>1. watched \subseteq watched'
    <3>1. CASE MainActs
      BY <3>1 DEF MainActs, MainWorks, WatchSource, AddText, LockForLoad, LockRefused, AddListed,
                  FinishLoad, InstallWatcher, ResolveListed
    <3>2. CASE ReloaderWorks
      BY <3>2 DEF ReloaderWorks, TakeEvent, LockForReload, ResolvePath, Reload, ReloadStep
    <3> QED BY <3>1, <3>2
  <2> QED BY <2>1 DEF Watching
<1>3. reloader.op = "dead" => reloader'.op = "dead"
  <2>1. CASE MainActs
    BY <2>1 DEF MainActs, MainWorks, WatchSource, AddText, LockForLoad, LockRefused, AddListed,
                FinishLoad, InstallWatcher, ResolveListed, MainStep
  <2>2. CASE ReloaderWorks
    BY <2>2 DEF ReloaderWorks, TakeEvent, LockForReload, ResolvePath, Reload
  <2> QED BY <2>1, <2>2
<1> QED BY <1>1, <1>2, <1>3 DEF ReportsHold, DiskVersion

-----------------------------------------------------------------------------
(* No reported edit is lost.                                               *)

LEMMA PendingOrSent == \A f : Pending(f) <=> \/ reloader.op # "wait" /\ f \in ToSet(reloader.paths)
                                             \/ Sent(f)
BY DEF Pending, Sent

LEMMA FollowsKept ==
  ASSUME NEW g \in Files, Follows(g), Pending(g) => Pending(g)', UNCHANGED <<disk, reported>>,
         store'.source[g] = store.source[g]
  PROVE  Follows(g)'
BY DEF Follows, Stuck

\* A source that is what is on disk is as new as any report.
LEMMA FollowsCaughtUp ==
  ASSUME NEW g \in Files, ReportsHold(g), UNCHANGED <<disk, reported>>,
         disk[g] \in Texts, store'.source[g] = disk[g]
  PROVE  Follows(g)'
<1>1. VersionOf(store'.source[g]) = disk[g].version /\ disk[g] # Absent
  BY VersionsAreNaturals
<1>2. reported[g] <= disk[g].version
  BY <1>1 DEF ReportsHold, DiskVersion
<1> QED BY <1>1, <1>2 DEF Follows

LEMMA EditsKeepFollowing ==
  ASSUME TypesOK, IsFiniteSet(watched), EnvironmentActs, reloader.op # "dead",
         NEW g \in Files, Follows(g), ReportsHold(g)
  PROVE  Follows(g)'
<1>1. store' = store /\ reloader' = reloader
  BY EditVersions
<1>2. Pending(g) => Pending(g)'
  BY <1>1, PendingOrSent, EditNotifies DEF Pending, Sent
<1>3. CASE disk'[g] = disk[g] /\ reported'[g] = reported[g]
  BY <1>1, <1>2, <1>3 DEF Follows, Stuck
<1>4. CASE disk'[g] = Absent
  BY <1>4 DEF Follows
<1>5. CASE Watching(g) = {} /\ reported'[g] = reported[g]
  <2>1. reported[g] = 0
    BY <1>5 DEF ReportsHold, TypesOK
  <2> QED BY <1>5, <2>1, VersionsAreNaturals DEF Follows
<1>6. CASE Sent(g)'
  BY <1>6 DEF Sent, Pending, Follows
<1> QED BY <1>3, <1>4, <1>5, <1>6, EditNotifies

LEMMA MainKeepsFollowing ==
  ASSUME TypesOK, LockOK, StoreInv(store), MainActs, NEW g \in Files, Follows(g), ReportsHold(g)
  PROVE  Follows(g)'
<1>1. UNCHANGED <<disk, reported, events, reloader>>
  BY DEF MainActs, MainWorks, WatchSource, AddText, LockForLoad, LockRefused, AddListed,
         FinishLoad, InstallWatcher, ResolveListed, MainStep
<1>2. Pending(g) => Pending(g)'
  BY <1>1 DEF Pending
<1>3. CASE store'.source[g] = store.source[g]
  BY <1>1, <1>2, <1>3, FollowsKept
<1>4. CASE AddListed
  <2> DEFINE f == main.file
  <2>1. f \in Files /\ disk[f] \in Texts \cup {Absent}
    BY <1>4, MainShape DEF AddListed, TypesOK
  <2>2. store' = AddSource(store, f, disk[f]).store
    BY <1>4 DEF AddListed
  <2>3. \/ store' = store
        \/ /\ disk[f] \in Texts
           /\ store' = AddImage(store, f, disk[f]) \/ store' = AddPage(store, f, disk[f])
    BY <2>1, <2>2, AddSourceOutcomes
  <2>4. CASE store' # store
    <3>1. store'.source = [store.source EXCEPT ![f] = disk[f]]
      BY <2>3, <2>4 DEF AddImage, AddPage, StoreInv
    <3>2. CASE g = f
      BY <1>1, <2>3, <2>4, <3>1, <3>2, FollowsCaughtUp DEF StoreInv
    <3>3. CASE g # f
      BY <1>3, <3>1, <3>3 DEF StoreInv
    <3> QED BY <3>2, <3>3
  <2> QED BY <1>3, <2>4
<1>5. ASSUME NEW c \in Codes, AddText(c) PROVE Follows(g)'
  <2>1. store'.source[g] = store.source[g]
    BY <1>5, AddCodeKeeps, RootsAssumption DEF AddText
  <2> QED BY <1>3, <2>1
<1>6. CASE store' = store
  BY <1>3, <1>6
<1> QED BY <1>4, <1>5, <1>6
        DEF MainActs, MainWorks, WatchSource, LockForLoad, LockRefused, FinishLoad,
            InstallWatcher, ResolveListed

\* An event taken from the channel is on the reload thread's list; a path leaves
\* the list with its source caught up, or with a reason not to be.
LEMMA ReloaderKeepsFollowing ==
  ASSUME TypesOK, LockOK, StoreInv(store), ReloaderWorks, reloader'.op # "dead",
         NEW g \in Files, Follows(g), ReportsHold(g)
  PROVE  Follows(g)'
<1>0. /\ UNCHANGED <<disk, reported>> /\ events \in Seq(EventType)
      /\ reloader.paths \in Seq(Files)
  BY DEF ReloaderWorks, TakeEvent, LockForReload, ResolvePath, Reload, ReloadStep, TypesOK
<1>1. CASE TakeEvent
  <2> DEFINE e == Head(events)
  <2>1. events # <<>> /\ store' = store /\ reloader.op = "wait"
    BY <1>1 DEF TakeEvent
  <2>2. e \in EventType
    BY <1>0, <2>1, HeadAndTail
  <2>3. e.kind # "other"
    BY <1>1, <2>2 DEF TakeEvent, EventType, Dead
  <2>4. events' = Tail(events)
    BY <1>1, <2>3 DEF TakeEvent
  <2>5. e.kind = "modify" => reloader'.op = "paths" /\ reloader'.paths = e.paths
    BY <1>1 DEF TakeEvent
  <2>6. ASSUME Sent(g) PROVE Pending(g)'
    <3>1. PICK i \in 1..Len(events) : events[i].kind = "modify" /\ g \in ToSet(events[i].paths)
      BY <2>6 DEF Sent
    <3>2. CASE i = 1
      <4>1. e.kind = "modify" /\ g \in ToSet(e.paths)
        BY <1>0, <2>1, <3>1, <3>2, HeadAndTail
      <4> QED BY <2>5, <4>1 DEF Pending
    <3>3. CASE i # 1
      <4>1. i - 1 \in 1..Len(events') /\ events'[i - 1] = events[i]
        BY <1>0, <2>1, <2>4, <3>3, HeadAndTail
      <4> QED BY <3>1, <4>1 DEF Pending
    <3> QED BY <3>2, <3>3
  <2> QED BY <1>0, <2>1, <2>6, FollowsKept, PendingOrSent
<1>2. CASE LockForReload \/ ResolvePath
  <2>1. store' = store
    BY <1>2 DEF LockForReload, ResolvePath
  <2>2. ~Die
    BY DEF Die, Dead
  <2>3. events' = events /\ reloader'.op # "wait" /\ reloader'.paths = reloader.paths
    BY <1>2, <2>2 DEF LockForReload, ResolvePath, TypesOK
  <2>4. Pending(g) => Pending(g)'
    BY <2>3 DEF Pending
  <2> QED BY <1>0, <2>1, <2>4, FollowsKept
<1>3. CASE Reload
  <2> DEFINE f == Head(reloader.paths)
             reloaded == ReloadSource(store, f, disk[f])
  <2>1. /\ reloader.paths # <<>> /\ f \in Files /\ disk[f] \in Texts \cup {Absent}
    BY <1>0, <1>3, HeadAndTail DEF Reload, LockOK, TypesOK
  <2>2. ~Die
    BY DEF Die, Dead
  <2>3. store' = reloaded.store /\ reloaded.result # "panic" /\ reloader' = NextPath /\ events' = events
    BY <1>3, <2>2 DEF Reload
  <2>r. \/ /\ reloaded.result = "ok" /\ disk[f] \in Texts
           /\ reloaded.store = Refresh(store, f, disk[f])
        \/ /\ reloaded.result = "error" /\ reloaded.store = store
           /\ ReadOutcome(f, disk[f]) = "error" \/ Stuck(f)
        \/ reloaded.result = "panic"
    <3> HIDE DEF f
    <3>1. \/ /\ reloaded.result = "ok" /\ disk[f] \in Texts
             /\ reloaded.store = Refresh(store, f, disk[f])
          \/ /\ reloaded.result = "error" /\ reloaded.store = store
             /\ \/ ReadOutcome(f, disk[f]) = "error"
                \/ store.source[f] # Absent /\ ~Formats(f, store.source[f])
          \/ reloaded.result = "panic"
      BY <2>1, ReloadSourceOutcomes
    <3> HIDE DEF reloaded
    <3> QED BY <3>1 DEF Stuck
  <2>s. Refresh(store, f, disk[f]).source = [store.source EXCEPT ![f] = disk[f]]
    BY <2>1 DEF Refresh, StoreInv
  <2> HIDE DEF reloaded
  <2>4. ASSUME g # f, Pending(g) PROVE Pending(g)'
    <3>1. ASSUME g \in ToSet(reloader.paths) PROVE reloader'.op # "wait" /\ g \in ToSet(reloader'.paths)
      <4>1. PICK i \in 1..Len(reloader.paths) : reloader.paths[i] = g
        BY <3>1 DEF ToSet
      <4>2. i # 1 /\ Len(reloader.paths) # 1
        BY <1>0, <2>1, <2>4, <4>1, HeadAndTail
      <4>3. i - 1 \in 1..Len(Tail(reloader.paths)) /\ Tail(reloader.paths)[i - 1] = g
        BY <1>0, <2>1, <4>1, <4>2, HeadAndTail
      <4>4. g \in ToSet(Tail(reloader.paths))
        <5>1. Tail(reloader.paths) \in Seq(Files)
          BY <1>0, <2>1, HeadAndTail
        <5>2. DOMAIN Tail(reloader.paths) = 1..Len(Tail(reloader.paths))
          BY <5>1
        <5> QED BY <4>3, <5>2, Zenon DEF ToSet
      <4> QED BY <2>3, <4>2, <4>4 DEF NextPath
    <3> QED BY <2>3, <2>4, <3>1 DEF Pending
  <2>5. CASE g # f
    <3>1. store'.source[g] = store.source[g]
      BY <2>1, <2>3, <2>5, <2>r, <2>s DEF StoreInv
    <3> QED BY <1>0, <2>4, <2>5, <3>1, FollowsKept
  <2>6. CASE g = f /\ reloaded.result = "ok"
    <3>1. disk[g] \in Texts /\ store'.source[g] = disk[g]
      BY <2>1, <2>3, <2>6, <2>r, <2>s DEF StoreInv
    <3> QED BY <1>0, <3>1, FollowsCaughtUp
  <2>7. CASE g = f /\ reloaded.result # "ok"
    <3>1. /\ store' = store
          /\ ReadOutcome(g, disk[g]) = "error" \/ Stuck(g)
      BY <2>3, <2>7, <2>r
    <3> QED BY <1>0, <3>1 DEF Follows, Stuck
  <2> QED BY <2>5, <2>6, <2>7
<1> QED BY <1>1, <1>2, <1>3 DEF ReloaderWorks

-----------------------------------------------------------------------------
(* The theorems.                                                           *)

\* Every step keeps the invariant and takes no file back.
LEMMA NextInv ==
  ASSUME Inv, Next
  PROVE  Inv' /\ \A f \in Files : Newer(store, store', f)
<1> USE DEF Inv
<1>1. CASE EnvironmentActs
  <2>1. TypesOK' /\ IsFiniteSet(watched)' /\ LockOK'
    BY <1>1, EditTypes DEF EnvironmentActs
  <2>2. store' = store /\ reloader' = reloader
    BY <1>1, EditVersions DEF EnvironmentActs
  <2>3. \A f \in Files : Fresh(store, f)' /\ ReportsHold(f)'
    BY <1>1, EditsKeepVersions
  <2>4. FollowsInv'
    BY <1>1, <2>2, EditsKeepFollowing DEF FollowsInv
  <2>5. \A f \in Files : Newer(store, store', f)
    BY <2>2, VersionsAreNaturals DEF Newer
  <2> QED BY <2>1, <2>2, <2>3, <2>4, <2>5
<1>2. CASE MainActs
  <2>1. TypesOK' /\ IsFiniteSet(watched)' /\ LockOK' /\ StoreInv(store)'
    BY <1>2, MainTypes
  <2>2. StoreStep /\ UNCHANGED diskVars
    BY <1>2, StoreSteps
  <2>3. \A f \in Files : Newer(store, store', f) /\ Fresh(store, f)' /\ ReportsHold(f)'
    BY <1>2, <2>2, ThreadsKeepFresh, ThreadsKeepReports
  <2>4. reloader' = reloader
    BY <1>2 DEF MainActs, MainWorks, WatchSource, AddText, LockForLoad, LockRefused, AddListed,
                FinishLoad, InstallWatcher, ResolveListed, MainStep
  <2>5. FollowsInv'
    BY <1>2, <2>4, MainKeepsFollowing DEF FollowsInv
  <2> QED BY <2>1, <2>3, <2>5
<1>3. CASE ReloaderWorks
  <2>1. TypesOK' /\ IsFiniteSet(watched)' /\ LockOK' /\ StoreInv(store)'
    BY <1>3, ReloaderTypes
  <2>2. StoreStep /\ UNCHANGED diskVars
    BY <1>3, StoreSteps
  <2>3. \A f \in Files : Newer(store, store', f) /\ Fresh(store, f)' /\ ReportsHold(f)'
    BY <1>3, <2>2, ThreadsKeepFresh, ThreadsKeepReports
  <2>4. reloader.op # "dead"
    BY <1>3 DEF ReloaderWorks, TakeEvent, LockForReload, ResolvePath, Reload
  <2>5. FollowsInv'
    BY <1>3, <2>4, ReloaderKeepsFollowing DEF FollowsInv
  <2> QED BY <2>1, <2>3, <2>5
<1> QED BY <1>1, <1>2, <1>3, NextActs

LEMMA StutterInv ==
  ASSUME Inv, UNCHANGED vars
  PROVE  Inv' /\ \A f \in Files : Newer(store, store', f)
<1>1. Inv'
  BY DEF Inv, vars, TypesOK, LockOK, Fresh, DiskVersion, ReportsHold, Watching, FollowsInv, Follows,
         Pending, Stuck
<1>2. \A f \in Files : Newer(store, store', f)
  BY VersionsAreNaturals DEF vars, Newer
<1> QED BY <1>1, <1>2

\* The inductive invariant holds of every interleaving of requests, loads, reloads,
\* edits and failures (MechFileSystem and MechSources).
THEOREM SpecInv == Spec => []Inv
<1>1. Inv /\ [Next]_vars => Inv'
  BY NextInv, StutterInv
<1> QED BY <1>1, InitInv, PTL DEF Spec

\* Whoever holds the lock of the store is writing through it, and it is poisoned
\* only by a thread that is gone.
THEOREM SpecTypeOK == Spec => []TypeOK
<1>1. Inv => TypeOK
  BY DEF Inv, TypeOK
<1> QED BY <1>1, SpecInv, PTL

\* No interleaving of loads, reloads, failures and panics tears the store.
THEOREM SpecStoreConsistent == Spec => []StoreConsistent
<1>1. Inv => StoreConsistent
  BY StoreInvServes DEF Inv, StoreConsistent
<1> QED BY <1>1, SpecInv, PTL

\* A reported edit is in the store, on its way there, or has a reason not to be.
THEOREM SpecEditsReachStore == Spec => []EditsReachStore
<1>1. Inv => EditsReachStore
  BY DEF Inv, FollowsInv, Follows, EditsReachStore
<1> QED BY <1>1, SpecInv, PTL

\* Nothing that is served goes back to an earlier version.
THEOREM SpecNeverBackwards == Spec => NeverBackwards
<1>1. Inv /\ [Next]_vars => \A f \in Files : Newer(store, store', f)
  BY NextInv, StutterInv
<1>2. Inv /\ [Next]_vars =>
        [\A f \in Files : /\ VersionOf(store'.html[f]) >= VersionOf(store.html[f])
                          /\ VersionOf(store'.tree[f]) >= VersionOf(store.tree[f])
                          /\ VersionOf(store'.source[f]) >= VersionOf(store.source[f])]_vars
  BY <1>1 DEF Newer
<1> QED BY <1>2, SpecInv, PTL DEF Spec, NeverBackwards
=============================================================================
