--------------------------- MODULE FixturesProofs ---------------------------
(***************************************************************************)
(* What a fixture set is worth, for any objects, types, checkpoint and     *)
(* answers of the node, any number of captures and a crash anywhere.       *)
(*                                                                         *)
(* The inductive invariant says that every file in its place, and all that *)
(* was loaded, is missing or of a capture made: a file is torn only beside *)
(* its place, and when it is renamed it is whole.  A capture is determined *)
(* by what the node still had when it was made, and what it kept of a      *)
(* checkpoint holds every change of the watched pool.                      *)
(***************************************************************************)
EXTENDS Fixtures, SequenceTheorems, WellFoundedInduction, TLAPS

\* There are six files, each in the list.
LEMMA FileFacts ==
  /\ Len(File) = 6
  /\ \A i \in 1 .. 6 : File[i] \in Range(File)
BY DEF File, Range

\* A file's place is not where it is written, and both are names of the directory.
LEMMA NameFacts ==
  \A f, g \in Range(File) :
    /\ Place(f) \in Name /\ Tmp(f) \in Name /\ Place(f) # Tmp(g)
    /\ Place(f) = Place(g) => f = g
BY DEF Name, Place, Tmp

-----------------------------------------------------------------------------
\* The invariant.

\* What a file in its place may hold.
WholeMark == {Missing} \union DOMAIN captures

CapturesMade ==
  /\ captures \in Seq({CaptureOf(history, a) : a \in Remote})
  /\ known \in Seq({a.up : a \in Remote})
  /\ Len(known) = Len(captures)
  /\ \A k \in DOMAIN captures :
       \E a \in Remote : captures[k] = CaptureOf(history, a) /\ known[k] = a.up

PlacesWhole == \A f \in Range(File) : disk[Place(f)] \in WholeMark

\* The file about to be renamed is whole.
SaveWhole ==
  /\ DOMAIN disk = Name
  /\ saving \in {"idle", "write", "flush", "rename"}
  /\ saving # "idle" => writing \in 0 .. 5 /\ Len(captures) \in DOMAIN captures
  /\ saving = "rename" => disk[Tmp(Current)] = Len(captures)

LoadedWhole == loaded \in Seq({Missing} \union Nat) /\ \A i \in DOMAIN loaded : loaded[i] \in WholeMark

DirectoryInv == CapturesMade /\ PlacesWhole /\ SaveWhole /\ LoadedWhole

\* The directory is empty at first.
LEMMA InitDirectory == FixturesInit => DirectoryInv
<1> SUFFICES ASSUME FixturesInit PROVE DirectoryInv
  OBVIOUS
<1>1. CapturesMade
  BY DEF FixturesInit, NothingCaptured, CapturesMade
<1>2. PlacesWhole
  BY NameFacts DEF FixturesInit, NothingCaptured, PlacesWhole, WholeMark
<1>3. SaveWhole
  BY DEF FixturesInit, NothingCaptured, SaveWhole
<1>4. LoadedWhole
  BY DEF FixturesInit, NothingCaptured, LoadedWhole
<1> QED BY <1>1, <1>2, <1>3, <1>4 DEF DirectoryInv

\* A capture is one more, and every earlier one stays what it was.
LEMMA FetchKeeps == DirectoryInv /\ Fetch => DirectoryInv'
<1> SUFFICES ASSUME DirectoryInv, Fetch PROVE DirectoryInv'
  OBVIOUS
<1> USE DEF DirectoryInv
<1>1. PICK a \in Remote :
        captures' = Append(captures, CaptureOf(history, a)) /\ known' = Append(known, a.up)
  BY DEF Fetch
<1>2. /\ saving' = "write" /\ writing' = 0
      /\ history' = history /\ disk' = disk /\ loaded' = loaded
  BY DEF Fetch
<1>3. \A b : CaptureOf(history', b) = CaptureOf(history, b)
  BY <1>2
<1> DEFINE C == {CaptureOf(history, b) : b \in Remote}
           U == {b.up : b \in Remote}
<1>4. /\ Len(captures') = Len(captures) + 1 /\ Len(captures) \in Nat
      /\ DOMAIN captures' = 1 .. Len(captures) + 1 /\ DOMAIN captures = 1 .. Len(captures)
      /\ captures' \in Seq(C)
      /\ \A k \in 1 .. Len(captures) : captures'[k] = captures[k]
      /\ captures'[Len(captures) + 1] = CaptureOf(history, a)
  <2>1. captures \in Seq(C) /\ CaptureOf(history, a) \in C
    BY DEF CapturesMade
  <2> QED BY <1>1, <2>1
<1>5. /\ Len(known') = Len(captures) + 1
      /\ known' \in Seq(U)
      /\ \A k \in 1 .. Len(captures) : known'[k] = known[k]
      /\ known'[Len(captures) + 1] = a.up
  <2>1. known \in Seq(U) /\ a.up \in U /\ Len(known) = Len(captures)
    BY DEF CapturesMade
  <2> QED BY <1>1, <2>1
<1>6. CapturesMade'
  <2>1. ASSUME NEW k \in DOMAIN captures'
        PROVE  \E b \in Remote : captures'[k] = CaptureOf(history, b) /\ known'[k] = b.up
    <3>1. CASE k = Len(captures) + 1
      BY <1>4, <1>5, <3>1
    <3>2. CASE k \in 1 .. Len(captures)
      BY <1>4, <1>5, <3>2 DEF CapturesMade
    <3> QED BY <1>4, <2>1, <3>1, <3>2
  <2> HIDE DEF C, U
  <2>2. captures' \in Seq({CaptureOf(history', b) : b \in Remote})
    BY <1>2, <1>4 DEF C
  <2>3. known' \in Seq({b.up : b \in Remote})
    BY <1>5 DEF U
  <2> QED BY <1>3, <1>4, <1>5, <2>1, <2>2, <2>3 DEF CapturesMade
<1>7. WholeMark \subseteq WholeMark'
  BY <1>4 DEF WholeMark
<1>8. PlacesWhole'
  BY <1>2, <1>7 DEF PlacesWhole
<1>9. SaveWhole'
  BY <1>2, <1>4 DEF SaveWhole
<1>10. LoadedWhole'
  BY <1>2, <1>7 DEF LoadedWhole
<1> QED BY <1>6, <1>8, <1>9, <1>10

\* A step that leaves the captures alone leaves what was made of them.
LEMMA CapturesStay ==
  ASSUME CapturesMade, UNCHANGED <<history, captures, known>>
  PROVE  CapturesMade' /\ WholeMark' = WholeMark
<1>1. \A b : CaptureOf(history', b) = CaptureOf(history, b)
  OBVIOUS
<1> QED BY <1>1 DEF CapturesMade, WholeMark

\* Each step of saving a file writes beside its place, and renames what is whole.
LEMMA SaveKeeps ==
  DirectoryInv /\ (StartWrite \/ EndWrite \/ Rename \/ Crash) => DirectoryInv'
<1> SUFFICES ASSUME DirectoryInv, StartWrite \/ EndWrite \/ Rename \/ Crash
             PROVE  DirectoryInv'
  OBVIOUS
<1> USE DEF DirectoryInv
<1>1. UNCHANGED <<history, captures, known, loaded>>
  BY DEF StartWrite, EndWrite, Rename, Crash
<1>2. CapturesMade' /\ WholeMark' = WholeMark
  BY <1>1, CapturesStay
<1>3. LoadedWhole'
  BY <1>1, <1>2 DEF LoadedWhole
<1>4. saving # "idle" => Current \in Range(File)
  BY FileFacts DEF SaveWhole, Current
<1>5. ASSUME StartWrite PROVE PlacesWhole' /\ SaveWhole'
  <2>1. Current \in Range(File) /\ DOMAIN disk = Name
    BY <1>4, <1>5 DEF StartWrite, SaveWhole
  <2>2. disk' = [disk EXCEPT ![Tmp(Current)] = Torn] /\ saving' = "flush" /\ writing' = writing
    BY <1>5 DEF StartWrite, Destination
  <2>3. PlacesWhole'
    BY <1>2, <2>1, <2>2, NameFacts DEF PlacesWhole
  <2>4. SaveWhole'
    BY <1>1, <1>5, <2>1, <2>2 DEF SaveWhole, StartWrite
  <2> QED BY <2>3, <2>4
<1>6. ASSUME EndWrite PROVE PlacesWhole' /\ SaveWhole'
  <2>1. Current \in Range(File) /\ DOMAIN disk = Name
    BY <1>4, <1>6 DEF EndWrite, SaveWhole
  <2>2. /\ disk' = [disk EXCEPT ![Tmp(Current)] = Len(captures)]
        /\ saving' = "rename" /\ writing' = writing
    BY <1>6 DEF EndWrite, Destination
  <2>3. PlacesWhole'
    BY <1>2, <2>1, <2>2, NameFacts DEF PlacesWhole
  <2>4. SaveWhole'
    <3>1. disk'[Tmp(Current)] = Len(captures) /\ DOMAIN disk' = Name /\ Current' = Current
      BY <2>1, <2>2, NameFacts DEF Current
    <3> QED BY <1>1, <1>6, <2>2, <3>1 DEF SaveWhole, EndWrite
  <2> QED BY <2>3, <2>4
<1>7. ASSUME Rename PROVE PlacesWhole' /\ SaveWhole'
  <2>1. /\ Current \in Range(File) /\ saving = "rename"
        /\ writing \in 0 .. 5 /\ Len(captures) \in DOMAIN captures
        /\ disk[Tmp(Current)] = Len(captures)
    BY <1>4, <1>7 DEF Rename, SaveWhole
  <2>2. disk' = [f \in Name |-> IF f = Place(Current) THEN disk[Tmp(Current)]
                                ELSE IF f = Tmp(Current) THEN Missing ELSE disk[f]]
    BY <1>7 DEF Rename, Destination
  <2>3. PlacesWhole'
    <3> SUFFICES ASSUME NEW f \in Range(File) PROVE disk'[Place(f)] \in WholeMark
      BY <1>2 DEF PlacesWhole
    <3>1. CASE f = Current
      BY <2>1, <2>2, <3>1, NameFacts DEF WholeMark
    <3>2. CASE f # Current
      <4>1. disk'[Place(f)] = disk[Place(f)]
        BY <2>1, <2>2, <3>2, NameFacts
      <4> QED BY <4>1 DEF PlacesWhole
    <3> QED BY <3>1, <3>2
  <2>4. SaveWhole'
    <3>1. /\ writing' = writing + 1
          /\ saving' = IF writing' = 6 THEN "idle" ELSE "write"
      BY <1>7, FileFacts DEF Rename
    <3> QED BY <1>1, <2>1, <2>2, <3>1 DEF SaveWhole
  <2> QED BY <2>3, <2>4
<1>8. ASSUME Crash PROVE PlacesWhole' /\ SaveWhole'
  <2>1. saving' = "idle" /\ disk' = disk
    BY <1>8 DEF Crash
  <2> QED BY <1>2, <2>1 DEF PlacesWhole, SaveWhole
<1> QED BY <1>2, <1>3, <1>5, <1>6, <1>7, <1>8

\* A reader takes what stands in a file's place.
LEMMA LoadKeeps == DirectoryInv /\ (ReadNext \/ ReadAgain) => DirectoryInv'
<1> SUFFICES ASSUME DirectoryInv, ReadNext \/ ReadAgain
             PROVE  DirectoryInv'
  OBVIOUS
<1> USE DEF DirectoryInv
<1>1. UNCHANGED <<history, captures, known, disk, writing, saving>>
  BY DEF ReadNext, ReadAgain
<1>2. CapturesMade' /\ WholeMark' = WholeMark
  BY <1>1, CapturesStay
<1>3. PlacesWhole'
  BY <1>1, <1>2 DEF PlacesWhole
<1>4. SaveWhole'
  BY <1>1 DEF SaveWhole, Current
<1>5. ASSUME ReadNext PROVE LoadedWhole'
  <2> DEFINE x == disk[Place(File[Len(loaded) + 1])]
  <2>1. Len(loaded) + 1 \in 1 .. 6
    BY <1>5, FileFacts DEF ReadNext, LoadedWhole
  <2>2. x \in WholeMark
    BY <2>1, FileFacts DEF PlacesWhole
  <2>3. loaded' = Append(loaded, x)
    BY <1>5 DEF ReadNext
  <2>4. x \in {Missing} \union Nat
    BY <2>2 DEF WholeMark, CapturesMade
  <2> HIDE DEF x
  <2> QED BY <1>2, <2>2, <2>3, <2>4 DEF LoadedWhole
<1>6. ASSUME ReadAgain PROVE LoadedWhole'
  BY <1>6 DEF ReadAgain, LoadedWhole
<1> QED BY <1>2, <1>3, <1>4, <1>5, <1>6

\* Every step keeps the invariant.
LEMMA StepDirectory == DirectoryInv /\ [FixturesNext]_fixtureVars => DirectoryInv'
<1> SUFFICES ASSUME DirectoryInv, [FixturesNext]_fixtureVars
             PROVE  DirectoryInv'
  OBVIOUS
<1>1. CASE UNCHANGED fixtureVars
  <2>1. CapturesMade' /\ WholeMark' = WholeMark
    BY <1>1, CapturesStay DEF DirectoryInv, fixtureVars
  <2> QED BY <1>1, <2>1 DEF fixtureVars, DirectoryInv, PlacesWhole, SaveWhole, LoadedWhole, Current
<1> QED BY <1>1, FetchKeeps, SaveKeeps, LoadKeeps DEF FixturesNext

-----------------------------------------------------------------------------
\* The theorems.

\* However many captures are made, wherever a save dies and whenever a set is
\* loaded, no file is read before it is whole.
THEOREM NeverTorn == FixturesSpec => []NothingTorn
<1>1. DirectoryInv => NothingTorn
  BY MarkAssumption DEF DirectoryInv, LoadedWhole, WholeMark, CapturesMade, NothingTorn, Range
<1> QED BY <1>1, InitDirectory, StepDirectory, PTL DEF FixturesSpec

\* A set that is all of one capture is that capture.
LEMMA OneCapture ==
  ASSUME DirectoryInv, OfOneCapture
  PROVE  \E a \in Remote :
           known[loaded[1]] = a.up /\
           LET c == CaptureOf(history, a)
           IN  Fixture = [objects |-> c.objects, packages |-> c.packages, layouts |-> c.layouts,
                          canonical |-> c.canonical, transactions |-> c.transactions,
                          objectSet |-> c.objectSet]
<1>1. DOMAIN loaded = 1 .. 6 /\ loaded[1] # Missing /\ \A i \in 1 .. 6 : loaded[i] = loaded[1]
  <2>1. Len(loaded) = 6 /\ loaded # <<>>
    BY FileFacts DEF OfOneCapture, IsLoaded, DirectoryInv, LoadedWhole
  <2>2. DOMAIN loaded = 1 .. 6
    BY <2>1 DEF DirectoryInv, LoadedWhole
  <2> QED BY <2>1, <2>2 DEF OfOneCapture, IsLoaded, Refused
<1>2. loaded[1] \in DOMAIN captures
  BY <1>1 DEF DirectoryInv, LoadedWhole, WholeMark
<1>3. PICK a \in Remote : captures[loaded[1]] = CaptureOf(history, a) /\ known[loaded[1]] = a.up
  BY <1>2 DEF DirectoryInv, CapturesMade
<1>4. \A i \in 1 .. 6 : Part(i) = CaptureOf(history, a)
  BY <1>1, <1>3 DEF Part
<1> DEFINE c == CaptureOf(history, a)
<1>5. Part(2) = c /\ Part(3) = c /\ Part(4) = c /\ Part(5) = c /\ Part(6) = c
  BY <1>4
<1> HIDE DEF c
<1>6. Fixture = [objects |-> c.objects, packages |-> c.packages, layouts |-> c.layouts,
                 canonical |-> c.canonical, transactions |-> c.transactions,
                 objectSet |-> c.objectSet]
  BY <1>5 DEF Fixture
<1> QED BY <1>3, <1>6 DEF c

\* A set that is all of one capture types every object it recorded and every venue
\* its transactions wrote whose type resolved when it was made.
THEOREM CaptureTypesItself == FixturesSpec => []CapturedTyped
<1>1. ASSUME DirectoryInv PROVE CapturedTyped
  <2> SUFFICES ASSUME OfOneCapture
      PROVE /\ \A o \in Fixture.objects : Types(Fixture, TagOf[o])
            /\ \A c \in UNION Range(Fixture.transactions) :
                 <<c.id, c.out>> \in Fixture.objectSet
                   /\ TagOf[c.id] \in VenueTag \intersect known[loaded[1]]
                 => Types(Fixture, TagOf[c.id])
    BY DEF CapturedTyped
  <2>1. PICK a \in Remote :
          /\ known[loaded[1]] = a.up
          /\ LET c == CaptureOf(history, a)
             IN  Fixture = [objects |-> c.objects, packages |-> c.packages, layouts |-> c.layouts,
                            canonical |-> c.canonical, transactions |-> c.transactions,
                            objectSet |-> c.objectSet]
    BY <1>1, OneCapture
  <2> DEFINE kept == Kept(history)
             tags == ResolvedTags(kept, a)
  <2>2. /\ Fixture.objects = Fetched \union a.nodes
        /\ Fixture.layouts = tags /\ Fixture.canonical = tags
        /\ Fixture.transactions = kept
        /\ Fixture.objectSet = KeptObjects(kept, a.held)
    BY <2>1 DEF CaptureOf
  <2> HIDE DEF kept
  <2>3. \A o \in Fetched \union a.nodes : TagOf[o] \in tags
    BY DEF ResolvedTags
  <2>4. ASSUME NEW c \in UNION Range(kept), <<c.id, c.out>> \in KeptObjects(kept, a.held),
               TagOf[c.id] \in VenueTag \intersect a.up
        PROVE  TagOf[c.id] \in tags
    <3>1. c.out # 0
      BY <2>4 DEF KeptObjects
    <3> QED BY <2>4, <3>1 DEF ResolvedTags
  <2> HIDE DEF tags
  <2> QED BY <2>1, <2>2, <2>3, <2>4 DEF Types
<1> QED BY <1>1, InitDirectory, StepDirectory, PTL DEF FixturesSpec

-----------------------------------------------------------------------------
\* What Only returns, element by element.

\* A non-empty set of naturals has a smallest element.
LEMMA SmallestNat ==
  ASSUME NEW T \in SUBSET Nat, T # {}
  PROVE  \E m \in T : \A n \in T : ~ (n < m)
<1> DEFINE R == {ss \in Nat \X Nat : ss[1] < ss[2]}
<1>1. IsWellFoundedOn(R, Nat)
  BY NatLessThanWellFounded DEF OpToRel
<1>2. PICK m \in T : \A n \in T : ~ (<<n, m>> \in R)
  <2> HIDE DEF R
  <2> QED BY <1>1, WFMin
<1>3. ASSUME NEW n \in T PROVE ~ (n < m)
  BY <1>2
<1> QED BY <1>2, <1>3

\* f is Only of every prefix of s up to n.
OnlyUpTo(s, K, n, f) ==
  f = [k \in 0 .. n |->
         IF k = 0 THEN <<>> ELSE IF s[k] \in K THEN Append(f[k - 1], s[k]) ELSE f[k - 1]]

\* Its values, one from the other.
OnlySteps(s, K, n, f) ==
  /\ f[0] = <<>>
  /\ \A k \in 1 .. n : f[k] = IF s[k] \in K THEN Append(f[k - 1], s[k]) ELSE f[k - 1]

\* The values are defined from those before, at every index.
LEMMA OnlyStep ==
  ASSUME NEW s, NEW K, NEW n \in Nat, NEW f, OnlyUpTo(s, K, n, f)
  PROVE  OnlySteps(s, K, n, f)
<1> DEFINE v(k) == IF k = 0 THEN <<>> ELSE IF s[k] \in K THEN Append(f[k - 1], s[k]) ELSE f[k - 1]
           h == [k \in 0 .. n |-> v(k)]
<1>1. f = h
  BY DEF OnlyUpTo
<1>2. \A k \in 0 .. n : h[k] = v(k)
  <2> HIDE DEF v
  <2> QED OBVIOUS
<1> HIDE DEF h
<1>3. 0 \in 0 .. n /\ \A k \in 1 .. n : k \in 0 .. n /\ k # 0
  OBVIOUS
<1>4. \A k \in 0 .. n : f[k] = v(k)
  BY <1>1, <1>2
<1> HIDE DEF v
<1>5. f[0] = v(0) /\ \A k \in 1 .. n : f[k] = v(k)
  BY <1>3, <1>4
<1>6. v(0) = <<>>
  BY DEF v
<1>7. \A k \in 1 .. n : v(k) = IF s[k] \in K THEN Append(f[k - 1], s[k]) ELSE f[k - 1]
  BY <1>3 DEF v
<1> QED BY <1>5, <1>6, <1>7 DEF OnlySteps

\* Two sequences with the same first n elements.
SamePrefix(s, t, n) == \A k \in 1 .. n : s[k] = t[k]

\* There is one at most: it depends on the elements of the prefix alone.
LEMMA OnlyAgree ==
  ASSUME NEW s, NEW t, NEW K, NEW n \in Nat, NEW m \in Nat, NEW f, NEW g,
         OnlyUpTo(s, K, n, f), OnlyUpTo(t, K, m, g), n <= m, SamePrefix(s, t, n)
  PROVE  f[n] = g[n]
<1>1. OnlySteps(s, K, n, f) /\ OnlySteps(t, K, m, g)
  BY OnlyStep
<1>2. f[0] = <<>> /\ g[0] = <<>>
  BY <1>1 DEF OnlySteps
<1> DEFINE Differ == {k \in 0 .. n : f[k] # g[k]}
<1> SUFFICES ASSUME Differ # {} PROVE FALSE
  OBVIOUS
<1>3. PICK k \in Differ : \A j \in Differ : ~ (j < k)
  <2>1. Differ \in SUBSET Nat
    OBVIOUS
  <2> HIDE DEF Differ
  <2> QED BY <2>1, SmallestNat
<1>4. k \in 1 .. n /\ k \in 1 .. m /\ k - 1 \in 0 .. n /\ k - 1 < k
  BY <1>2, <1>3
<1>5. f[k - 1] = g[k - 1] /\ s[k] = t[k]
  BY <1>3, <1>4 DEF SamePrefix
<1> HIDE DEF Differ
<1>6. f[k] = IF s[k] \in K THEN Append(f[k - 1], s[k]) ELSE f[k - 1]
  BY <1>1, <1>4 DEF OnlySteps
<1>7. g[k] = IF t[k] \in K THEN Append(g[k - 1], t[k]) ELSE g[k - 1]
  BY <1>1, <1>4 DEF OnlySteps
<1> QED BY <1>3, <1>5, <1>6, <1>7 DEF Differ

\* There is one.
LEMMA OnlyExists ==
  ASSUME NEW s, NEW K, NEW N \in Nat
  PROVE  \E f : OnlyUpTo(s, K, N, f)
<1> DEFINE None == {n \in Nat : \A f : ~ OnlyUpTo(s, K, n, f)}
<1> SUFFICES ASSUME None # {} PROVE FALSE
  OBVIOUS
<1>1. PICK n \in None : \A j \in None : ~ (j < n)
  <2>1. None \in SUBSET Nat
    OBVIOUS
  <2> HIDE DEF None
  <2> QED BY <2>1, SmallestNat
<1>2. n # 0
  <2> SUFFICES ASSUME n = 0 PROVE FALSE
    OBVIOUS
  <2> DEFINE f == [k \in 0 .. 0 |-> <<>>]
  <2>1. OnlyUpTo(s, K, 0, f)
    <3>1. \A k \in 0 .. 0 : k = 0
      OBVIOUS
    <3> QED BY <3>1 DEF OnlyUpTo
  <2> QED BY <1>1, <2>1
<1>3. n \in Nat /\ n - 1 \in Nat /\ n - 1 < n
  BY <1>1, <1>2
<1>4. PICK g : OnlyUpTo(s, K, n - 1, g)
  <2>1. n - 1 \notin None
    BY <1>1, <1>3
  <2> QED BY <1>3, <2>1
<1> DEFINE f == [k \in 0 .. n |->
                   IF k # n THEN g[k] ELSE IF s[n] \in K THEN Append(g[n - 1], s[n]) ELSE g[n - 1]]
           h == [k \in 0 .. n |->
                   IF k = 0 THEN <<>> ELSE IF s[k] \in K THEN Append(f[k - 1], s[k]) ELSE f[k - 1]]
<1>5. ASSUME NEW k \in 0 .. n PROVE f[k] = h[k]
  <2>1. CASE k = 0
    BY <1>2, <1>3, <1>4, <2>1 DEF OnlyUpTo
  <2>2. CASE k # 0 /\ k # n
    <3>1. k \in 0 .. n - 1 /\ k - 1 \in 0 .. n /\ k - 1 # n
      BY <1>3, <2>2
    <3>2. f[k] = g[k] /\ f[k - 1] = g[k - 1]
      BY <2>2, <3>1
    <3>3. g[k] = IF s[k] \in K THEN Append(g[k - 1], s[k]) ELSE g[k - 1]
      BY <1>4, <2>2, <3>1 DEF OnlyUpTo
    <3> HIDE DEF f
    <3> QED BY <2>2, <3>2, <3>3
  <2>3. CASE k = n
    <3>1. n - 1 \in 0 .. n /\ n - 1 # n
      BY <1>3
    <3>2. f[n - 1] = g[n - 1] /\ f[n] = IF s[n] \in K THEN Append(g[n - 1], s[n]) ELSE g[n - 1]
      BY <1>3, <3>1
    <3> HIDE DEF f
    <3> QED BY <1>2, <2>3, <3>2
  <2> QED BY <2>1, <2>2, <2>3
<1>6. f = h
  BY <1>5
<1>7. OnlyUpTo(s, K, n, f)
  <2> HIDE DEF f
  <2> QED BY <1>6 DEF OnlyUpTo
<1> QED BY <1>1, <1>7

\* The model's operator is that function at the length of the sequence.
LEMMA OnlyIs ==
  ASSUME NEW S, NEW s \in Seq(S), NEW K
  PROVE  \E f : OnlyUpTo(s, K, Len(s), f) /\ Only(s, K) = f[Len(s)]
<1> DEFINE f == CHOOSE g : OnlyUpTo(s, K, Len(s), g)
<1>1. Only(s, K) = f[Len(s)]
  BY DEF Only, OnlyUpTo
<1>2. OnlyUpTo(s, K, Len(s), f)
  BY OnlyExists
<1> QED BY <1>1, <1>2

\* Nothing of nothing; and one more element is appended, or left out.
LEMMA OnlyLaw ==
  ASSUME NEW S, NEW s \in Seq(S), NEW x \in S, NEW K
  PROVE  /\ Only(<<>>, K) = <<>>
         /\ Only(Append(s, x), K) = IF x \in K THEN Append(Only(s, K), x) ELSE Only(s, K)
<1>1. Only(<<>>, K) = <<>>
  <2>1. <<>> \in Seq(S) /\ Len(<<>>) = 0
    OBVIOUS
  <2>2. \A q \in Seq(S) : \E f : OnlyUpTo(q, K, Len(q), f) /\ Only(q, K) = f[Len(q)]
    BY OnlyIs
  <2>3. PICK f : OnlyUpTo(<<>>, K, 0, f) /\ Only(<<>>, K) = f[0]
    BY <2>1, <2>2
  <2> QED BY <2>3 DEF OnlyUpTo
<1> DEFINE t == Append(s, x)
           n == Len(s)
<1>2. /\ t \in Seq(S) /\ Len(t) = n + 1 /\ n \in Nat
      /\ \A k \in 1 .. n : s[k] = t[k]
      /\ t[n + 1] = x
  OBVIOUS
<1> HIDE DEF t
<1>3. PICK f : OnlyUpTo(s, K, n, f) /\ Only(s, K) = f[n]
  BY OnlyIs
<1>4. PICK g : OnlyUpTo(t, K, n + 1, g) /\ Only(t, K) = g[n + 1]
  BY <1>2, OnlyIs
<1> HIDE DEF n
<1>5. f[n] = g[n]
  <2> DEFINE m == n + 1
  <2>1. n \in Nat /\ m \in Nat /\ n <= m /\ SamePrefix(s, t, n)
    BY <1>2 DEF SamePrefix
  <2>2. OnlyUpTo(s, K, n, f) /\ OnlyUpTo(t, K, m, g)
    BY <1>3, <1>4
  <2> HIDE DEF m
  <2> QED BY <2>1, <2>2, OnlyAgree
<1>6. g[n + 1] = IF t[n + 1] \in K THEN Append(g[n], t[n + 1]) ELSE g[n]
  <2>1. n + 1 \in 0 .. n + 1 /\ n + 1 # 0 /\ (n + 1) - 1 = n
    BY <1>2
  <2> QED BY <1>4, <2>1 DEF OnlyUpTo
<1> QED BY <1>1, <1>2, <1>3, <1>4, <1>5, <1>6 DEF t

\* What is left is a sequence of the same elements.
LEMMA OnlyType ==
  ASSUME NEW S, NEW s \in Seq(S), NEW K
  PROVE  Only(s, K) \in Seq(S)
<1>1. PICK f : OnlyUpTo(s, K, Len(s), f) /\ Only(s, K) = f[Len(s)]
  BY OnlyIs
<1> DEFINE Others == {k \in 0 .. Len(s) : f[k] \notin Seq(S)}
<1>2. Others = {}
  <2> SUFFICES ASSUME Others # {} PROVE FALSE
    OBVIOUS
  <2>1. PICK k \in Others : \A j \in Others : ~ (j < k)
    <3>1. Others \in SUBSET Nat
      OBVIOUS
    <3> HIDE DEF Others
    <3> QED BY <3>1, SmallestNat
  <2>2. k # 0
    BY <1>1, <2>1 DEF OnlyUpTo
  <2>3. k \in 1 .. Len(s) /\ k - 1 \in 0 .. Len(s) /\ k - 1 < k
    BY <2>1, <2>2
  <2>4. f[k - 1] \in Seq(S) /\ s[k] \in S
    BY <2>1, <2>3
  <2>5. f[k] = IF s[k] \in K THEN Append(f[k - 1], s[k]) ELSE f[k - 1]
    BY <1>1, <2>2, <2>3 DEF OnlyUpTo
  <2> HIDE DEF Others
  <2>6. f[k] \in Seq(S)
    BY <2>4, <2>5
  <2> QED BY <2>1, <2>6 DEF Others
<1> QED BY <1>1, <1>2

-----------------------------------------------------------------------------
\* The replay of what was kept.

\* The changes of one object, transaction by transaction.
ChangesOf(s, o) == [i \in DOMAIN s |-> {c \in s[i] : c.id = o}]

\* A sequence of changes is a function of its positions, and one more is one longer.
LEMMA Longer ==
  ASSUME NEW P, NEW s \in Seq(P), NEW x \in P
  PROVE  /\ DOMAIN s = 1 .. Len(s) /\ Len(s) \in Nat
         /\ Append(s, x) \in Seq(P) /\ DOMAIN Append(s, x) = 1 .. Len(s) + 1
         /\ \A i \in 1 .. Len(s) : Append(s, x)[i] = s[i]
         /\ Append(s, x)[Len(s) + 1] = x
  OBVIOUS

\* Two sequences are one if they have the same elements.
LEMMA SameSequence ==
  ASSUME NEW P, NEW s \in Seq(P), NEW t \in Seq(P), DOMAIN s = DOMAIN t,
         \A i \in DOMAIN s : s[i] = t[i]
  PROVE  s = t
<1>1. s = [i \in DOMAIN s |-> s[i]] /\ t = [i \in DOMAIN t |-> t[i]]
  BY SeqDef
<1> QED BY <1>1

\* The changes of an object are a sequence that grows with the transactions.
LEMMA ChangesLaw ==
  ASSUME NEW s \in Seq(SUBSET Change), NEW x \in SUBSET Change, NEW o
  PROVE  /\ ChangesOf(s, o) \in Seq(SUBSET Change)
         /\ ChangesOf(Append(s, x), o) = Append(ChangesOf(s, o), {c \in x : c.id = o})
<1> DEFINE S == SUBSET Change
           y == {c \in x : c.id = o}
<1>1. ASSUME NEW q \in Seq(S)
      PROVE  /\ ChangesOf(q, o) \in Seq(S) /\ DOMAIN ChangesOf(q, o) = DOMAIN q
             /\ \A i \in DOMAIN q : ChangesOf(q, o)[i] = {c \in q[i] : c.id = o}
  <2>1. DOMAIN q = 1 .. Len(q) /\ Len(q) \in Nat /\ \A i \in 1 .. Len(q) : q[i] \in S
    OBVIOUS
  <2>2. ChangesOf(q, o) \in [1 .. Len(q) -> S]
    BY <2>1 DEF ChangesOf
  <2>3. ChangesOf(q, o) \in Seq(S)
    <3> HIDE DEF S
    <3> QED BY <2>1, <2>2, SeqDef
  <2> QED BY <2>1, <2>3 DEF ChangesOf
<1> DEFINE t == Append(s, x)
           r == ChangesOf(s, o)
           u == Append(r, y)
           n == Len(s)
<1>2. /\ t \in Seq(S) /\ DOMAIN t = 1 .. n + 1 /\ n \in Nat /\ t[n + 1] = x
      /\ DOMAIN s = 1 .. n /\ \A i \in 1 .. n : t[i] = s[i]
  <2> HIDE DEF S
  <2>1. s \in Seq(S) /\ x \in S
    BY DEF S
  <2> QED BY <2>1, Longer
<1>3. r \in Seq(S) /\ DOMAIN r = 1 .. n /\ y \in S
  BY <1>1, <1>2
<1>4. Len(r) = n
  <2> HIDE DEF S, r, n
  <2> QED BY <1>2, <1>3
<1>5. u \in Seq(S) /\ DOMAIN u = 1 .. n + 1 /\ u[n + 1] = y /\ \A i \in 1 .. n : u[i] = r[i]
  <2> HIDE DEF S, r, n, y
  <2> QED BY <1>3, <1>4, Longer
<1>6. ChangesOf(t, o) \in Seq(S) /\ DOMAIN ChangesOf(t, o) = 1 .. n + 1
  BY <1>1, <1>2
<1>7. ASSUME NEW i \in 1 .. n + 1 PROVE ChangesOf(t, o)[i] = u[i]
  <2>1. ChangesOf(t, o)[i] = {c \in t[i] : c.id = o}
    BY <1>1, <1>2
  <2>2. CASE i = n + 1
    <3> HIDE DEF t, u, n
    <3> QED BY <1>2, <1>5, <2>1, <2>2
  <2>3. CASE i \in 1 .. n
    <3>1. r[i] = {c \in s[i] : c.id = o}
      BY <1>1, <1>2, <2>3
    <3> HIDE DEF t, u, n, r
    <3> QED BY <1>2, <1>5, <2>1, <2>3, <3>1
  <2>4. i = n + 1 \/ i \in 1 .. n
    <3> HIDE DEF n
    <3> QED BY <1>2
  <2> QED BY <2>2, <2>3, <2>4
<1>8. ChangesOf(t, o) = u
  <2> HIDE DEF t, u, n, S
  <2> QED BY <1>5, <1>6, <1>7, SameSequence
<1> QED BY <1>3, <1>8

\* A kept transaction is appended; a replay gains its changes, if it has some.
LEMMA KeptLaw ==
  ASSUME NEW s \in Seq(SUBSET Change), NEW x \in SUBSET Change
  PROVE  /\ Kept(s) \in Seq(SUBSET Change) /\ Kept(<<>>) = <<>>
         /\ Kept(Append(s, x)) = IF Touches(x) THEN Append(Kept(s), x) ELSE Kept(s)
<1> DEFINE S == SUBSET Change
           K == {changes \in S : Touches(changes)}
<1>1. x \in K <=> Touches(x)
  OBVIOUS
<1>2. Kept(s) = Only(s, K) /\ Kept(<<>>) = Only(<<>>, K) /\ Kept(Append(s, x)) = Only(Append(s, x), K)
  BY DEF Kept
<1>3. s \in Seq(S) /\ x \in S
  OBVIOUS
<1> HIDE DEF S, K
<1>4. /\ Only(s, K) \in Seq(S) /\ Only(<<>>, K) = <<>>
      /\ Only(Append(s, x), K) = IF x \in K THEN Append(Only(s, K), x) ELSE Only(s, K)
  BY <1>3, OnlyLaw, OnlyType
<1> QED BY <1>1, <1>2, <1>4 DEF S

\* One transaction more is replayed by its changes of the object, if it has any.
LEMMA ReplayLaw ==
  ASSUME NEW s \in Seq(SUBSET Change), NEW x \in SUBSET Change
  PROVE  /\ Replayed(<<>>, Watched) = <<>>
         /\ Replayed(Append(s, x), Watched) =
              IF Touches(x) THEN Append(Replayed(s, Watched), {c \in x : c.id = Watched})
                            ELSE Replayed(s, Watched)
<1> DEFINE S == SUBSET Change
           E == S \ {{}}
           y == {c \in x : c.id = Watched}
           r == ChangesOf(s, Watched)
<1>1. y \in E <=> Touches(x)
  BY DEF Touches
<1>2. r \in Seq(S) /\ ChangesOf(Append(s, x), Watched) = Append(r, y)
  BY ChangesLaw
<1>3. y \in S
  OBVIOUS
<1>4. Replayed(s, Watched) = Only(r, E) /\ Replayed(Append(s, x), Watched) = Only(Append(r, y), E)
  <2>1. \A q : Replayed(q, Watched) = Only(ChangesOf(q, Watched), E)
    BY DEF Replayed, ChangesOf
  <2> HIDE DEF S, E, y, r
  <2> QED BY <1>2, <2>1 DEF r
<1>5. Replayed(<<>>, Watched) = Only(<<>>, E)
  <2>1. ChangesOf(<<>>, Watched) = <<>>
    BY DEF ChangesOf
  <2>2. Replayed(<<>>, Watched) = Only(ChangesOf(<<>>, Watched), E)
    BY DEF Replayed, ChangesOf
  <2> QED BY <2>1, <2>2
<1> HIDE DEF S, E, y, r
<1>6. /\ Only(<<>>, E) = <<>>
      /\ Only(Append(r, y), E) = IF y \in E THEN Append(Only(r, E), y) ELSE Only(r, E)
  BY <1>2, <1>3, OnlyLaw
<1> QED BY <1>1, <1>4, <1>5, <1>6 DEF y

\* Keeping the transactions that touch the watched object loses none of its changes.
LEMMA KeptReplaysAll ==
  ASSUME NEW h \in Seq(SUBSET Change)
  PROVE  Replayed(Kept(h), Watched) = Replayed(h, Watched)
<1> DEFINE S == SUBSET Change
           Same(s) == Replayed(Kept(s), Watched) = Replayed(s, Watched)
           Lost == {n \in Nat : \E s \in Seq(S) : Len(s) = n /\ ~ Same(s)}
<1> SUFFICES ASSUME Lost # {} PROVE FALSE
  <2> SUFFICES ASSUME ~ Same(h) PROVE Lost # {}
    OBVIOUS
  <2>1. h \in Seq(S) /\ Len(h) \in Nat
    OBVIOUS
  <2> HIDE DEF Same, S
  <2> QED BY <2>1
<1>1. PICK n \in Lost : \A m \in Lost : ~ (m < n)
  <2>1. Lost \in SUBSET Nat
    OBVIOUS
  <2> HIDE DEF Lost
  <2> QED BY <2>1, SmallestNat
<1>2. PICK s \in Seq(S) : Len(s) = n /\ ~ Same(s)
  <2> HIDE DEF Same, S
  <2> QED BY <1>1
<1>3. s # <<>>
  <2>1. Same(<<>>)
    BY KeptLaw
  <2> QED BY <1>2, <2>1
<1>4. PICK q \in Seq(S), x \in S : s = Append(q, x) /\ Len(q) + 1 = Len(s) /\ Len(q) \in Nat
  <2> HIDE DEF S
  <2>1. PICK q \in Seq(S), x \in S : s = Append(q, x)
    BY <1>3, SequenceEmptyOrAppend
  <2>2. Len(Append(q, x)) = Len(q) + 1 /\ Len(q) \in Nat
    BY AppendProperties
  <2> QED BY <2>1, <2>2
<1>5. Same(q)
  <2> HIDE DEF Same, S
  <2>1. Len(q) \notin Lost
    BY <1>1, <1>2, <1>4
  <2> QED BY <1>4, <2>1
<1>6. q \in Seq(SUBSET Change) /\ x \in SUBSET Change /\ Kept(q) \in Seq(SUBSET Change)
  BY <1>4, KeptLaw
<1>7. CASE Touches(x)
  <2> DEFINE y == {c \in x : c.id = Watched}
  <2>1. Kept(s) = Append(Kept(q), x)
    BY <1>4, <1>6, <1>7, KeptLaw
  <2>2. /\ Replayed(Append(Kept(q), x), Watched) = Append(Replayed(Kept(q), Watched), y)
        /\ Replayed(Append(q, x), Watched) = Append(Replayed(q, Watched), y)
    BY <1>6, <1>7, ReplayLaw
  <2> HIDE DEF y
  <2> QED BY <1>2, <1>4, <1>5, <2>1, <2>2
<1>8. CASE ~ Touches(x)
  <2>1. Kept(s) = Kept(q)
    BY <1>4, <1>6, <1>8, KeptLaw
  <2>2. Replayed(Append(q, x), Watched) = Replayed(q, Watched)
    BY <1>6, <1>8, ReplayLaw
  <2> QED BY <1>2, <1>4, <1>5, <2>1, <2>2
<1> QED BY <1>7, <1>8

\* Whatever captures the files of a set are of, its replay takes the watched pool
\* through every change the checkpoint made to it, whatever the checkpoint holds.
THEOREM ReplayIsWhole == FixturesSpec => []WatchedReplayed
<1> DEFINE OfCheckpoint == history \in Seq(SUBSET Change)
<1>1. FixturesInit => OfCheckpoint
  BY CheckpointAssumption DEF FixturesInit
<1>2. OfCheckpoint /\ [FixturesNext]_fixtureVars => OfCheckpoint'
  BY DEF FixturesNext, Fetch, StartWrite, EndWrite, Rename, Crash, ReadNext, ReadAgain, fixtureVars
<1>3. ASSUME OfCheckpoint, DirectoryInv PROVE WatchedReplayed
  <2> SUFFICES ASSUME IsLoaded, loaded[6] # Missing
               PROVE  Replayed(Fixture.transactions, Watched) = Replayed(history, Watched)
    BY DEF WatchedReplayed
  <2>1. 6 \in DOMAIN loaded
    BY <1>3, FileFacts DEF IsLoaded, DirectoryInv, LoadedWhole
  <2>2. loaded[6] \in DOMAIN captures
    BY <1>3, <2>1 DEF DirectoryInv, LoadedWhole, WholeMark
  <2>3. PICK a \in Remote : captures[loaded[6]] = CaptureOf(history, a)
    BY <1>3, <2>2 DEF DirectoryInv, CapturesMade
  <2>4. Fixture.transactions = CaptureOf(history, a).transactions
    BY <2>3 DEF Fixture, Part
  <2>5. CaptureOf(history, a).transactions = Kept(history)
    BY DEF CaptureOf
  <2> QED BY <1>3, <2>4, <2>5, KeptReplaysAll
<1> HIDE DEF OfCheckpoint
<1> QED BY <1>1, <1>2, <1>3, InitDirectory, StepDirectory, PTL DEF FixturesSpec

-----------------------------------------------------------------------------
\* A directory has its types: what is beside a file's place is missing, torn or whole.
LEMMA FixturesTyped ==
  /\ FixturesInit => FixturesTypeOK
  /\ FixturesTypeOK /\ DirectoryInv /\ [FixturesNext]_fixtureVars => FixturesTypeOK'
<1> USE FileFacts
<1>1. FixturesInit => FixturesTypeOK
  BY CapturesAssumption DEF FixturesInit, NothingCaptured, FixturesTypeOK, Range
<1> SUFFICES ASSUME FixturesTypeOK, DirectoryInv, [FixturesNext]_fixtureVars PROVE FixturesTypeOK'
  BY <1>1
<1> DEFINE Marks == {Missing, Torn} \union DOMAIN captures
<1>2. /\ captures \in Seq({CaptureOf(history, a) : a \in Remote})
      /\ DOMAIN captures = 1 .. Len(captures) /\ Len(captures) \in Nat
  BY DEF DirectoryInv, CapturesMade
<1>3. \A i \in DOMAIN loaded : loaded[i] \in Marks
  BY DEF FixturesTypeOK, Range
<1>4. saving # "idle" => Current \in Range(File) /\ Tmp(Current) \in Name /\ Len(captures) \in DOMAIN captures
                         /\ writing \in 0 .. 5
  <2>1. saving # "idle" => writing \in 0 .. 5 /\ Len(captures) \in DOMAIN captures
    BY DEF DirectoryInv, SaveWhole
  <2> QED BY <2>1, NameFacts DEF Current
<1>5. CASE Fetch
  <2>1. PICK a \in Remote :
          captures' = Append(captures, CaptureOf(history, a)) /\ known' = Append(known, a.up)
    BY <1>5 DEF Fetch
  <2>2. Len(captures') = Len(captures) + 1 /\ DOMAIN captures' = 1 .. Len(captures) + 1
    <3> DEFINE c == CaptureOf(history, a)
               S == {CaptureOf(history, b) : b \in Remote}
    <3>1. captures \in Seq(S) /\ c \in S /\ captures' = Append(captures, c)
      BY <1>2, <2>1
    <3> HIDE DEF c, S
    <3> QED BY <3>1
  <2>3. Len(known') = Len(captures) + 1
    <3>1. known \in Seq({b.up : b \in Remote}) /\ Len(known) = Len(captures)
      BY DEF DirectoryInv, CapturesMade
    <3> QED BY <2>1, <3>1
  <2>4. Marks \subseteq Marks'
    BY <1>2, <2>2
  <2>5. /\ saving' = "write" /\ writing' = 0 /\ disk' = disk /\ loaded' = loaded /\ history' = history
        /\ Len(captures) < MaxCaptures
    BY <1>5 DEF Fetch
  <2> QED BY <1>2, <2>2, <2>3, <2>4, <2>5, CapturesAssumption DEF FixturesTypeOK
<1>6. CASE StartWrite \/ EndWrite
  <2>1. /\ Current \in Range(File) /\ Tmp(Current) \in Name /\ writing \in 0 .. 5
        /\ disk \in [Name -> Marks] /\ Len(captures) \in Marks /\ Torn \in Marks
    BY <1>4, <1>6 DEF StartWrite, EndWrite, FixturesTypeOK
  <2>2. \E x \in Marks : disk' = [disk EXCEPT ![Tmp(Current)] = x]
    BY <1>6, <2>1 DEF StartWrite, EndWrite, Destination
  <2> HIDE DEF Marks
  <2>3. disk' \in [Name -> Marks]
    BY <2>1, <2>2
  <2> QED BY <1>6, <2>1, <2>3 DEF StartWrite, EndWrite, FixturesTypeOK, Marks
<1>7. CASE Rename
  <2>1. /\ Current \in Range(File) /\ Tmp(Current) \in Name /\ writing \in 0 .. 5
        /\ disk \in [Name -> Marks] /\ Missing \in Marks
    BY <1>4, <1>7 DEF Rename, FixturesTypeOK
  <2>2. disk' = [f \in Name |-> IF f = Place(Current) THEN disk[Tmp(Current)]
                                ELSE IF f = Tmp(Current) THEN Missing ELSE disk[f]]
    BY <1>7 DEF Rename, Destination
  <2>3. disk' \in [Name -> Marks]
    <3> HIDE DEF Marks
    <3> QED BY <2>1, <2>2
  <2> QED BY <1>7, <2>1, <2>3 DEF Rename, FixturesTypeOK
<1>8. CASE Crash
  BY <1>8 DEF Crash, FixturesTypeOK
<1>9. CASE ReadNext \/ ReadAgain
  <2>1. loaded' \in Seq({Missing} \union Nat) /\ Len(loaded') <= 6
        /\ \A i \in DOMAIN loaded' : loaded'[i] \in WholeMark
    <3>1. loaded \in Seq({Missing} \union Nat)
      BY DEF DirectoryInv, LoadedWhole
    <3>2. DirectoryInv' /\ WholeMark' = WholeMark
      BY <1>9, LoadKeeps, CapturesStay DEF ReadNext, ReadAgain, DirectoryInv
    <3>3. Len(loaded') <= 6
      <4>1. CASE ReadAgain
        BY <4>1 DEF ReadAgain
      <4>2. CASE ReadNext
        <5> DEFINE x == disk[Place(File[Len(loaded) + 1])]
        <5>1. loaded' = Append(loaded, x) /\ Len(loaded) < 6
          BY <4>2 DEF ReadNext
        <5> HIDE DEF x
        <5> QED BY <3>1, <5>1
      <4> QED BY <1>9, <4>1, <4>2
    <3> QED BY <3>2, <3>3 DEF DirectoryInv, LoadedWhole
  <2>2. Range(loaded') \subseteq Marks
    BY <2>1 DEF Range, WholeMark
  <2> QED BY <1>9, <2>1, <2>2 DEF ReadNext, ReadAgain, FixturesTypeOK
<1>10. CASE UNCHANGED fixtureVars
  BY <1>10 DEF fixtureVars, FixturesTypeOK
<1> QED BY <1>5, <1>6, <1>7, <1>8, <1>9, <1>10 DEF FixturesNext

=============================================================================
