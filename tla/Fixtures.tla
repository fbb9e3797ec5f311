------------------------------- MODULE Fixtures -------------------------------
(***************************************************************************)
(* Capture and offline replay: `fetch` and `follow --fixtures` of          *)
(* bin/birdai/src/commands.rs over crates/birdai-resolve/src/fixture.rs.   *)
(*                                                                         *)
(* A capture reads history and what the node still has, keeps it as one    *)
(* record, and writes the record to six files, one after the other; the    *)
(* process may die anywhere, and another one may be loading the directory. *)
(* A file's contents are the number of the capture they are of.  Encoding  *)
(* is left out: an entry that is not valid BCS is never written.           *)
(***************************************************************************)
EXTENDS Integers, Sequences, SequencesExt

CONSTANTS
  Object,        \* object ids
  Watched,       \* pool A, the pool whose transactions are kept
  Fetched,       \* the objects `fetch` decodes: pools A, B and C
  TickNode,      \* the tick nodes the pool may have
  Tag,           \* type tags
  TagOf,         \* the type of each object
  VenueTag,      \* those venue_kind_of recognises
  Mentions,      \* the packages each type's layout is resolved from
  Package,
  ScriptPackage, \* POOL_SCRIPT_PACKAGE
  Checkpoints,   \* what TX_T_CHECKPOINT may hold: sequences of sets of changes
  Remote,        \* what the node may still have when it is asked
  MaxCaptures,   \* bound of the model: how many captures go into one directory
  Missing,       \* a file that does not exist
  Torn           \* a file whose write has not ended

File == <<"manifest", "objects", "packages", "layouts", "canonical", "checkpoints">>
Place(f) == <<f, "json">>
Tmp(f) == <<f, "tmp">>
Name == Range(File) \X {"json", "tmp"}

\* Versions of an object before and after a transaction; 0 when it has none.
Change == [id : Object, in : Nat, out : Nat]

ASSUME ObjectAssumption ==
  /\ Watched \in Fetched /\ Fetched \subseteq Object /\ TickNode \subseteq Object
  /\ TagOf \in [Object -> Tag] /\ VenueTag \subseteq Tag
  /\ Mentions \in [Tag -> SUBSET Package] /\ ScriptPackage \in Package
  /\ Package \intersect Object = {}

ASSUME CheckpointAssumption == Checkpoints \subseteq Seq(SUBSET Change)

\* The tags that resolve, the packages and object versions still there, and the
\* tick nodes of the pool.  A capture whose own targets do not resolve fails.
ASSUME RemoteAssumption ==
  \A a \in Remote :
    /\ a.up \subseteq Tag /\ \A o \in Fetched \union a.nodes : TagOf[o] \in a.up
    /\ a.packages \subseteq Package /\ a.held \subseteq Object \X Nat /\ a.nodes \subseteq TickNode

\* Neither says which capture a file is of.
ASSUME MarkAssumption == Missing \notin Nat /\ Torn \notin Nat /\ Missing # Torn

ASSUME CapturesAssumption == MaxCaptures \in Nat

VARIABLES
  history,    \* the transactions of TX_T_CHECKPOINT, as sets of changes
  captures,   \* the captures made so far
  known,      \* history: for each, the tags that resolved when it was made
  disk,       \* contents of every file of the directory
  writing,    \* files of the last capture written so far
  saving,     \* "idle", "write" (next, the temporary file), "flush" or "rename"
  loaded      \* what the reading process has read, in file order

fixtureVars == <<history, captures, known, disk, writing, saving, loaded>>

NothingCaptured ==
  /\ captures = <<>> /\ known = <<>>
  /\ disk = [f \in Name |-> Missing]
  /\ writing = 0 /\ saving = "idle"
  /\ loaded = <<>>

FixturesInit == history \in Checkpoints /\ NothingCaptured

-----------------------------------------------------------------------------
\* Capturing.

\* The elements of a sequence that are in K, in order (SelectSeq, as a recursive function).
Only(s, K) ==
  LET only[n \in 0 .. Len(s)] ==
        IF n = 0 THEN <<>> ELSE IF s[n] \in K THEN Append(only[n - 1], s[n]) ELSE only[n - 1]
  IN  only[Len(s)]

\* Mutant: a transaction touches what it leaves behind.
LeavesBehind(changes) == \E c \in changes : c.id = Watched /\ c.out # 0

Touches(changes) == \E c \in changes : c.id = Watched

\* record_checkpoint: the transactions `keep` accepts.
Kept(transactions) == Only(transactions, {changes \in SUBSET Change : Touches(changes)})

\* The object versions their effects name, as far as the checkpoint has them.
KeptObjects(kept, held) ==
  (UNION {{<<c.id, v>> : v \in {c.in, c.out} \ {0}} : c \in UNION Range(kept)}) \intersect held

\* Mutant: step 3b is left out.
DecodedTags(kept, a) == {TagOf[o] : o \in Fetched \union a.nodes}

\* The registry's layouts when the capture ends: those of the objects decoded,
\* and of every venue-shaped object the kept transactions wrote (3b).
ResolvedTags(kept, a) ==
  {TagOf[o] : o \in Fetched \union a.nodes} \union
  {TagOf[c.id] : c \in {d \in UNION Range(kept) :
     /\ d.out # 0 /\ <<d.id, d.out>> \in KeptObjects(kept, a.held)
     /\ TagOf[d.id] \in VenueTag \intersect a.up}}

\* The packages their layouts reference, and the one only the executed entry names.
Addresses(tags) == (UNION {Mentions[g] : g \in tags}) \union {ScriptPackage}

\* Steps 1 to 4.  Packages the node no longer has are left out.
CaptureOf(transactions, a) ==
  LET kept == Kept(transactions)
      tags == ResolvedTags(kept, a)
  IN  [objects      |-> Fetched \union a.nodes,
       packages     |-> Addresses(tags) \intersect a.packages,
       layouts      |-> tags,
       canonical    |-> tags,
       transactions |-> kept,
       objectSet    |-> KeptObjects(kept, a.held)]

Fetch ==
  /\ saving = "idle"
  /\ Len(captures) < MaxCaptures
  /\ \E a \in Remote :
       /\ captures' = Append(captures, CaptureOf(history, a))
       /\ known' = Append(known, a.up)
  /\ saving' = "write" /\ writing' = 0
  /\ UNCHANGED <<history, disk, loaded>>

-----------------------------------------------------------------------------
\* Saving: each file in turn, written beside its place and renamed into it.

\* Mutant: the file is written in its place.
InPlace(f) == Place(f)

Destination(f) == Tmp(f)

Current == File[writing + 1]

StartWrite ==
  /\ saving = "write"
  /\ disk' = [disk EXCEPT ![Destination(Current)] = Torn]
  /\ saving' = "flush"
  /\ UNCHANGED <<history, captures, known, writing, loaded>>

EndWrite ==
  /\ saving = "flush"
  /\ disk' = [disk EXCEPT ![Destination(Current)] = Len(captures)]
  /\ saving' = "rename"
  /\ UNCHANGED <<history, captures, known, writing, loaded>>

Rename ==
  /\ saving = "rename"
  /\ disk' = [f \in Name |-> IF f = Place(Current) THEN disk[Destination(Current)]
                             ELSE IF f = Destination(Current) THEN Missing ELSE disk[f]]
  /\ writing' = writing + 1
  /\ saving' = IF writing' = Len(File) THEN "idle" ELSE "write"
  /\ UNCHANGED <<history, captures, known, loaded>>

\* A write fails, or the process dies.
Crash ==
  /\ saving # "idle"
  /\ saving' = "idle"
  /\ UNCHANGED <<history, captures, known, disk, writing, loaded>>

-----------------------------------------------------------------------------
\* Fixtures::load: no manifest is an error, another missing file is an empty set,
\* a file that does not parse is an error.

Refused == loaded # <<>> /\ (loaded[1] = Missing \/ Last(loaded) = Torn)

ReadNext ==
  /\ Len(loaded) < Len(File) /\ ~Refused
  /\ loaded' = Append(loaded, disk[Place(File[Len(loaded) + 1])])
  /\ UNCHANGED <<history, captures, known, disk, writing, saving>>

\* The command reports the error and is run again later.
ReadAgain ==
  /\ Refused
  /\ loaded' = <<>>
  /\ UNCHANGED <<history, captures, known, disk, writing, saving>>

FixturesNext ==
  \/ Fetch \/ StartWrite \/ EndWrite \/ Rename \/ Crash \/ ReadNext \/ ReadAgain

FixturesSpec == FixturesInit /\ [][FixturesNext]_fixtureVars

-----------------------------------------------------------------------------
\* Serving what was loaded.

IsLoaded == Len(loaded) = Len(File) /\ ~Refused

Empty ==
  [objects |-> {}, packages |-> {}, layouts |-> {}, canonical |-> {},
   transactions |-> <<>>, objectSet |-> {}]

\* The loaded file at position i, as its capture or the empty set.
Part(i) == IF loaded[i] = Missing THEN Empty ELSE captures[loaded[i]]

Fixture ==
  [objects |-> Part(2).objects, packages |-> Part(3).packages, layouts |-> Part(4).layouts,
   canonical |-> Part(5).canonical, transactions |-> Part(6).transactions,
   objectSet |-> Part(6).objectSet]

\* The packages the fallback resolver finds: its SourcePackageStore reads them
\* from a FixtureObjectSource, which serves objects.json.
FallbackPackages(set) == set.objects \intersect Package

\* FixtureLayoutSource::layout succeeds.
Types(set, g) ==
  \/ g \in set.canonical /\ g \in set.layouts
  \/ Mentions[g] \subseteq FallbackPackages(set)

\* What follow_fixtures applies: the changes of an object, transaction by transaction.
Replayed(transactions, o) ==
  Only([i \in DOMAIN transactions |-> {c \in transactions[i] : c.id = o}], (SUBSET Change) \ {{}})

-----------------------------------------------------------------------------
\* Properties.

\* The types of the state; a capture is written at most once to each file.
FixturesTypeOK ==
  /\ history \in Checkpoints
  /\ Len(captures) <= MaxCaptures /\ Len(known) = Len(captures)
  /\ disk \in [Name -> {Missing, Torn} \union DOMAIN captures]
  /\ writing \in 0 .. Len(File) /\ saving \in {"idle", "write", "flush", "rename"}
  /\ saving # "idle" => writing < Len(File)
  /\ Len(loaded) <= Len(File) /\ Range(loaded) \subseteq {Missing, Torn} \union DOMAIN captures

\* Whenever a save dies, and whatever loads the directory meanwhile, no file is
\* read before it is whole (fixture.rs:541).
NothingTorn == Torn \notin Range(loaded)

\* Of whichever captures the files are, the replayed checkpoint takes the watched
\* pool through every change the chain made to it, its deletion included
\* (commands.rs 764-776, fixture.rs 281-347).
WatchedReplayed ==
  IsLoaded /\ loaded[6] # Missing =>
    Replayed(Fixture.transactions, Watched) = Replayed(history, Watched)

OfOneCapture == IsLoaded /\ \A i \in DOMAIN loaded : loaded[i] = loaded[1]

\* A set that is all of one capture types every object it recorded, and every
\* venue its transactions wrote whose type resolved then (commands.rs 782-803).
CapturedTyped ==
  OfOneCapture =>
    /\ \A o \in Fixture.objects : Types(Fixture, TagOf[o])
    /\ \A c \in UNION Range(Fixture.transactions) :
         <<c.id, c.out>> \in Fixture.objectSet /\ TagOf[c.id] \in VenueTag \intersect known[loaded[1]]
           => Types(Fixture, TagOf[c.id])

\* "Not captured: fall back to resolving from the captured packages, which works
\* whenever the bytecode is present even if the layout never got recorded"
\* (fixture.rs 645-646).
FallbackTypes ==
  IsLoaded => \A g \in Tag : Mentions[g] \subseteq Fixture.packages => Types(Fixture, g)

=============================================================================
