-------------------------- MODULE MechFileSystem --------------------------
(***************************************************************************)
(* Live reload: a directory is loaded into the shared store, a watcher     *)
(* reports what changes on disk, and a reload thread applies the reports.  *)
(*                                                                         *)
(* Four actors.  The main thread loads files under the write lock of the   *)
(* RwLock around the store (watch_source).  The environment edits, makes,  *)
(* removes and renames files.  The watcher turns that into events on an    *)
(* unbounded channel.  The reload thread takes events and reloads each     *)
(* path, one write lock per path.  A thread that panics while it holds the *)
(* lock poisons it; every later lock() is then an error.  Disk and threads *)
(* interleave: a file may change or vanish between any two steps.          *)
(***************************************************************************)
EXTENDS MechSources, Sequences, SequencesExt

CONSTANTS
  Roots,        \* the paths watch_source is called with
  FilesIn,      \* the files below each root
  CodeText,     \* the text of each member of Codes
  MaxLoads,     \* calls of watch_source: one for each path the program was given
  MaxEvents     \* bound: events on the channel

ASSUME RootsAssumption ==
  /\ FilesIn \in [Roots -> SUBSET Files]
  /\ CodeText \in [Codes -> Texts]
  /\ MaxLoads \in Nat /\ MaxEvents \in Nat

VARIABLES
  disk,         \* the text of each file, or Absent
  version,      \* the last version number given to an edit (bounds the edits)
  store,        \* MechSources
  writer,       \* who holds the write lock: "main", "reloader" or "none"
  poisoned,     \* the RwLock's poison flag
  main,         \* where the main thread is
  loads,        \* calls of watch_source so far
  watched,      \* the live watchers: the load that made each and its root
  events,       \* the channel from the watchers to the reload thread
  reloader,     \* where the reload thread is
  reported      \* history: the last version of each file a modify event was sent for

vars == <<disk, version, store, writer, poisoned, main, loads, watched, events,
          reloader, reported>>

diskVars == <<disk, version, reported>>
lockVars == <<writer, poisoned>>

(***************************************************************************)
(* The main thread is idle, listing done and the lock wanted, adding the   *)
(* files in todo one by one (file is the one whose path is resolved),      *)
(* installing the watcher, back with an error, or panicked, which ends the *)
(* process.                                                                *)
(***************************************************************************)
Idle == [op |-> "idle"]
Panicked == [op |-> "panicked"]
Failed(f) == [op |-> "failed", file |-> f]

MainStates ==
  {Idle, Panicked}
    \cup [op : {"failed"}, file : Files \cup {Absent}]
    \cup [op : {"lock"}, root : Roots, todo : SUBSET Files]
    \cup [op : {"add"}, root : Roots, todo : SUBSET Files, file : Files \cup {Absent}]
    \cup [op : {"install"}, root : Roots]

\* The reload thread waits for an event, works through an event's paths, holds
\* the lock for one path ("locked"), has resolved it ("read"), or is gone.
ReloaderOps == {"wait", "paths", "locked", "read", "dead"}

Waiting == [op |-> "wait", paths |-> <<>>]
Dead == [op |-> "dead", paths |-> <<>>]

EventKinds == {"create", "modify", "remove", "other"}
Event(kind, paths) == [kind |-> kind, paths |-> paths]

\* Every event the watchers send names a path.
EventType == [kind : EventKinds, paths : Seq(Files) \ {<<>>}]

TypesOK ==
  /\ disk \in [Files -> Texts \cup {Absent}]
  /\ version \in 0..MaxVersion
  /\ store \in Stores
  /\ writer \in {"none", "main", "reloader"}
  /\ poisoned \in BOOLEAN
  /\ main \in MainStates
  /\ loads \in 0..MaxLoads
  /\ watched \subseteq [load : 0..MaxLoads, root : Roots]
  /\ events \in Seq(EventType) /\ Len(events) <= MaxEvents
  /\ reloader \in [op : ReloaderOps, paths : Seq(Files)]
  /\ reported \in [Files -> 0..MaxVersion]

\* The guard lives exactly as long as the loop that writes through it.
LockOK ==
  /\ writer = "main" <=> main.op = "add"
  /\ writer = "reloader" <=> reloader.op \in {"locked", "read"}
  /\ reloader.op \in {"paths", "locked", "read"} => reloader.paths # <<>>
  /\ poisoned => main = Panicked \/ reloader = Dead

\* Types, and the lock is held by the thread that is writing, by nobody else, and
\* poisoned only by a thread that is gone (RwLock in mechfs.rs).
TypeOK == TypesOK /\ LockOK

Init ==
  /\ disk \in [Files -> [version : {0}, parses : {TRUE}] \cup {Absent}]
  /\ version = 0
  /\ store = NewSources
  /\ writer = "none" /\ poisoned = FALSE
  /\ main = Idle /\ loads = 0
  /\ watched = {}
  /\ events = <<>>
  /\ reloader = Waiting
  /\ reported = [f \in Files |-> 0]

Running == main # Panicked

-----------------------------------------------------------------------------
(* The environment and the watchers.                                       *)

Watching(f) == {w \in watched : f \in FilesIn[w.root]}

Watchers(f) == Cardinality(Watching(f))

(***************************************************************************)
(* Every watcher of a file reports it.  The callback sends the event and   *)
(* unwraps the result: with the reload thread gone the channel has no      *)
(* receiver, and the watcher's own thread panics.                          *)
(***************************************************************************)
Notify(f, sent) ==
  IF reloader.op = "dead"
    THEN /\ watched' = watched \ Watching(f)
         /\ UNCHANGED events
    ELSE /\ events' = events \o FlattenSeq([i \in 1..Watchers(f) |-> sent])
         /\ Len(events') <= MaxEvents
         /\ UNCHANGED watched

Reported(f, to) == IF Watching(f) = {} THEN reported ELSE [reported EXCEPT ![f] = to]

Environment == Running /\ UNCHANGED <<store, writer, poisoned, main, loads, reloader>>

\* An editor saves f: a new text, a Modify event; for a new file Create first.
Save(f, parses) ==
  /\ Environment
  /\ version < MaxVersion
  /\ version' = version + 1
  /\ disk' = [disk EXCEPT ![f] = [version |-> version', parses |-> parses]]
  /\ Notify(f, (IF disk[f] = Absent THEN <<Event("create", <<f>>)>> ELSE <<>>)
                 \o <<Event("modify", <<f>>)>>)
  /\ reported' = Reported(f, version')

Delete(f) ==
  /\ Environment
  /\ disk[f] # Absent
  /\ disk' = [disk EXCEPT ![f] = Absent]
  /\ Notify(f, <<Event("remove", <<f>>)>>)
  /\ UNCHANGED <<version, reported>>

\* A rename inside a watched directory is one Modify event with both paths; what
\* a path holds after it counts as a new version of that path.
Rename(f, g) ==
  /\ Environment
  /\ disk[f] # Absent /\ f # g
  /\ Watching(f) = Watching(g)
  /\ version < MaxVersion
  /\ version' = version + 1
  /\ disk' = [disk EXCEPT ![g] = [version |-> version', parses |-> disk[f].parses],
                          ![f] = Absent]
  /\ Notify(f, <<Event("modify", <<f, g>>)>>)
  /\ reported' = Reported(g, version')

\* Any other event kind: opening or closing a file is an Access event.
Touch(f) ==
  /\ Environment
  /\ disk[f] # Absent /\ Watching(f) # {}
  /\ Notify(f, <<Event("other", <<f>>)>>)
  /\ UNCHANGED diskVars

-----------------------------------------------------------------------------
(* The lock.                                                               *)

MutKeepGuard == UNCHANGED <<writer, poisoned>>

MutPoisonHeld == UNCHANGED writer /\ poisoned' = TRUE

Acquire(who) == writer = "none" /\ ~poisoned /\ writer' = who /\ UNCHANGED poisoned

Release == writer' = "none" /\ UNCHANGED poisoned

\* A panic while the guard is alive releases the lock and poisons it.
Poison == writer' = "none" /\ poisoned' = TRUE

-----------------------------------------------------------------------------
(* The main thread: watch_source and add_code.                             *)

MainStep == UNCHANGED <<diskVars, events, reloader>>

\* The files are listed before the lock is asked for.
WatchSource(r) ==
  /\ MainStep
  /\ main.op \in {"idle", "failed"}
  /\ loads < MaxLoads /\ loads' = loads + 1
  /\ main' = [op |-> "lock", root |-> r, todo |-> {f \in FilesIn[r] : disk[f] # Absent}]
  /\ UNCHANGED <<store, lockVars, watched>>

LockForLoad ==
  /\ MainStep /\ UNCHANGED loads
  /\ main.op = "lock"
  /\ Acquire("main")
  /\ main' = [op |-> "add", root |-> main.root, todo |-> main.todo, file |-> Absent]
  /\ UNCHANGED <<store, watched>>

LockRefused ==
  /\ MainStep /\ UNCHANGED loads
  /\ main.op = "lock" /\ writer = "none" /\ poisoned
  /\ main' = Failed(Absent)
  /\ UNCHANGED <<store, lockVars, watched>>

\* add_source resolves the listed path and unwraps: the file may be gone by now.
ResolveListed(f) ==
  /\ MainStep /\ UNCHANGED loads
  /\ main.op = "add" /\ main.file = Absent /\ f \in main.todo
  /\ IF disk[f] = Absent THEN main' = Panicked /\ Poison
                         ELSE main' = [main EXCEPT !.file = f] /\ UNCHANGED lockVars
  /\ UNCHANGED <<store, watched>>

\* The first error ends watch_source: what was added stays, no watcher is made.
AddListed ==
  /\ MainStep /\ UNCHANGED loads
  /\ main.op = "add" /\ main.file # Absent
  /\ LET f == main.file
         added == AddSource(store, f, disk[f])
     IN /\ store' = added.store
        /\ \/ /\ added.result = "ok"
              /\ main' = [main EXCEPT !.todo = @ \ {f}, !.file = Absent]
              /\ UNCHANGED lockVars
           \/ added.result = "error" /\ main' = Failed(f) /\ Release
           \/ added.result = "panic" /\ main' = Panicked /\ Poison
  /\ UNCHANGED watched

FinishLoad ==
  /\ MainStep /\ UNCHANGED loads
  /\ main.op = "add" /\ main.file = Absent /\ main.todo = {}
  /\ main' = [op |-> "install", root |-> main.root]
  /\ Release
  /\ UNCHANGED <<store, watched>>

\* The watcher starts after the load; watch() fails when the path is gone, and
\* failing to create a watcher is only printed.
InstallWatcher ==
  /\ MainStep /\ UNCHANGED loads
  /\ main.op = "install"
  /\ \/ watched' = watched \cup {[load |-> loads, root |-> main.root]} /\ main' = Idle
     \/ main' = Failed(Absent) /\ UNCHANGED watched
     \/ main' = Idle /\ UNCHANGED watched
  /\ UNCHANGED <<store, lockVars>>

AddText(c) ==
  /\ MainStep /\ UNCHANGED loads
  /\ main.op \in {"idle", "failed"} /\ writer = "none"
  /\ LET added == AddCode(store, c, CodeText[c])
     IN IF poisoned \/ added.result = "error"
          THEN main' = Failed(Absent) /\ UNCHANGED store
          ELSE main' = Idle /\ store' = added.store
  /\ UNCHANGED <<lockVars, watched>>

-----------------------------------------------------------------------------
(* The reload thread.                                                      *)

ReloadStep == Running /\ UNCHANGED <<diskVars, main, loads, watched>>

\* Create and Remove are ignored; any kind but these and Modify is a todo!().
TakeEvent ==
  /\ ReloadStep
  /\ reloader.op = "wait" /\ events # <<>>
  /\ events' = IF Head(events).kind = "other" THEN <<>> ELSE Tail(events)
  /\ reloader' = CASE Head(events).kind = "modify" -> [op |-> "paths", paths |-> Head(events).paths]
                   [] Head(events).kind \in {"create", "remove"} -> Waiting
                   [] Head(events).kind = "other"  -> Dead
  /\ UNCHANGED <<store, lockVars>>

MutSamePath == [reloader EXCEPT !.op = "paths"]

NextPath ==
  IF Len(reloader.paths) = 1 THEN Waiting
                             ELSE [op |-> "paths", paths |-> Tail(reloader.paths)]

\* The arm for a poisoned lock is dead code: what poisons it here also ends the
\* reload thread (Die) or the process (Panicked).
LockForReload ==
  /\ ReloadStep
  /\ reloader.op = "paths"
  /\ Acquire("reloader")
  /\ reloader' = [reloader EXCEPT !.op = "locked"]
  /\ UNCHANGED <<store, events>>

\* With the thread gone its end of the channel is dropped.
Die == reloader' = Dead /\ events' = <<>> /\ Poison

\* The path of the event is resolved under the lock and unwrapped.
ResolvePath ==
  /\ ReloadStep
  /\ reloader.op = "locked"
  /\ IF disk[Head(reloader.paths)] = Absent
       THEN Die
       ELSE reloader' = [reloader EXCEPT !.op = "read"] /\ UNCHANGED <<lockVars, events>>
  /\ UNCHANGED store

\* The result of reload_source is dropped: an error leaves the entries as they were.
Reload ==
  /\ ReloadStep
  /\ reloader.op = "read"
  /\ LET f == Head(reloader.paths)
         reloaded == ReloadSource(store, f, disk[f])
     IN /\ store' = reloaded.store
        /\ IF reloaded.result = "panic"
             THEN Die
             ELSE reloader' = NextPath /\ Release /\ UNCHANGED events

-----------------------------------------------------------------------------
MainWorks ==
  \/ LockForLoad \/ LockRefused \/ AddListed \/ FinishLoad \/ InstallWatcher
  \/ \E f \in Files : ResolveListed(f)

ReloaderWorks == TakeEvent \/ LockForReload \/ ResolvePath \/ Reload

Next ==
  \/ \E f \in Files : \/ \E parses \in BOOLEAN : Save(f, parses)
                      \/ Delete(f)
                      \/ Touch(f)
                      \/ \E g \in Files : Rename(f, g)
  \/ \E r \in Roots : WatchSource(r)
  \/ \E c \in Codes : AddText(c)
  \/ MainWorks
  \/ ReloaderWorks

\* Two operating system threads that are never starved; nobody has to edit a file.
Spec == Init /\ [][Next]_vars /\ WF_vars(MainWorks) /\ WF_vars(ReloaderWorks)

-----------------------------------------------------------------------------
(* Properties.                                                             *)

\* Whatever interleaving of loads, reloads, failures and panics produced it, the
\* store answers every request for a file it lists, has an index as soon as it has
\* a page, and serves a page and a tree of one text that parsed (add_source,
\* add_code and reload_source; a panic in the middle must not tear an entry).
StoreConsistent == Served(store) /\ IndexServed(store) /\ PagesMatch(store)

VersionOf(entry) == IF entry \in Texts THEN entry.version ELSE 0

Pending(f) ==
  \/ reloader.op # "wait" /\ f \in ToSet(reloader.paths)
  \/ \E i \in 1..Len(events) : events[i].kind = "modify" /\ f \in ToSet(events[i].paths)

\* A source that does not parse stops the next reload of its file.
Stuck(f) == store.source[f] # Absent /\ ~Formats(f, store.source[f])

\* No reported edit is lost: once the reload thread is through with the events of
\* a file, the source of that file is at least as new as the last edit reported,
\* unless the file is gone, cannot be read, or an earlier text did not parse
\* (the channel, the per-path lock and reload_source together).
EditsReachStore ==
  Running /\ reloader.op # "dead" =>
    \A f \in Files :
      Pending(f) \/ Stuck(f) \/ disk[f] = Absent \/ ReadOutcome(f, disk[f]) = "error"
        \/ reported[f] <= VersionOf(store.source[f])

\* No page, tree or source goes back to an earlier version, however loads and
\* reloads of a file interleave (every text that enters the store was read from
\* disk under the write lock, and reload_source serves what the store holds).
NeverBackwards ==
  [][\A f \in Files : /\ VersionOf(store'.html[f]) >= VersionOf(store.html[f])
                      /\ VersionOf(store'.tree[f]) >= VersionOf(store.tree[f])
                      /\ VersionOf(store'.source[f]) >= VersionOf(store.source[f])]_vars

\* The lock is not leaked: whoever takes it, whatever error, early return or
\* panic follows, gives it up, so a request that waits to read gets an answer.
LockReleased == writer # "none" ~> writer = "none"

\* The reload thread gets through its channel or is dead, whatever the main thread
\* does with the lock meanwhile (no deadlock between a load and a reload).
EventsConsumed == events # <<>> ~> (events = <<>> \/ ~Running)

\* mechfs.rs:352 and 354, of the two maps: "stores the ast for the sources", "stores
\* the html for the sources".  Broken by the first reload of a file.
TreesAreOfSources ==
  \A f \in Files : store.tree[f] \in Texts => store.tree[f] = store.source[f]

\* mechfs.rs:263 "load js files": a directory with a js file among its files loads.
JsFilesLoad == main.op = "failed" => main.file = Absent \/ KindOf[main.file] # "js"
=============================================================================
