---------------------------- MODULE PlatformProofs ----------------------------
(***************************************************************************)
(* Theorems about the platform: types; tagged images; the add-ons, whose   *)
(* requests are followed call by call; what a first installation leaves.   *)
(***************************************************************************)
EXTENDS Platform, SequenceTheorems, TLAPS

(***************************************************************************)
(* The tree of a descriptor.                                               *)
(***************************************************************************)
\* What every set that contains d and what its members refer to has in common.
Below(d) == {x \in Descriptors :
               \A S \in SUBSET Descriptors :
                 d \in S /\ (\A y \in S : RefersTo(y) \subseteq S) => x \in S}

LEMMA RefersToDescriptors == \A d : RefersTo(d) \subseteq Descriptors
  <1>1. ASSUME NEW d PROVE RefersTo(d) \subseteq Descriptors
    <2>1. CASE d \in Parents
      BY <2>1 DEF Descriptors
    <2>2. CASE d \notin Parents
      BY <2>2 DEF RefersTo
    <2> QED BY <2>1, <2>2
  <1> QED BY <1>1

LEMMA BelowUnfolds ==
  ASSUME NEW d \in Descriptors
  PROVE  Below(d) = {d} \cup UNION {Below(c) : c \in RefersTo(d)}
  <1> DEFINE U == {d} \cup UNION {Below(c) : c \in RefersTo(d)}
  <1>1. \A c \in Descriptors : c \in Below(c) /\ RefersTo(c) \subseteq Below(c)
    <2> SUFFICES ASSUME NEW c \in Descriptors
                 PROVE  c \in Below(c) /\ RefersTo(c) \subseteq Below(c)
      OBVIOUS
    <2> QED BY RefersToDescriptors DEF Below
  <1>2. U \subseteq Descriptors
    BY DEF Below
  <1>3. ASSUME NEW y \in U PROVE RefersTo(y) \subseteq U
    <2>1. CASE y = d
      BY <2>1, <1>1, RefersToDescriptors
    <2>2. CASE y # d
      <3>1. PICK c \in RefersTo(d) : y \in Below(c)
        BY <1>3, <2>2
      <3>2. RefersTo(y) \subseteq Below(c)
        BY <3>1, RefersToDescriptors DEF Below
      <3> QED BY <3>2
    <2> QED BY <2>1, <2>2
  <1>4. Below(d) \subseteq U
    <2> SUFFICES ASSUME NEW x \in Below(d) PROVE x \in U
      OBVIOUS
    <2>1. d \in U
      OBVIOUS
    <2> HIDE DEF U
    <2>2. U \in SUBSET Descriptors
      BY <1>2
    <2>3. \A y \in U : RefersTo(y) \subseteq U
      BY <1>3
    <2> QED BY <2>1, <2>2, <2>3 DEF Below
  <1>5. U \subseteq Below(d)
    <2>1. ASSUME NEW c \in RefersTo(d), NEW x \in Below(c) PROVE x \in Below(d)
      BY <2>1 DEF Below
    <2> QED BY <2>1, <1>1
  <1> QED BY <1>4, <1>5

LEMMA TreeUnfolds ==
  \A d \in Descriptors : Tree[d] = {d} \cup UNION {Tree[c] : c \in RefersTo(d)}
  <1> DEFINE Is(f) == f = [d \in Descriptors |-> {d} \cup UNION {f[c] : c \in RefersTo(d)}]
             F == [d \in Descriptors |-> Below(d)]
  <1>1. \A d \in Descriptors : F[d] = {d} \cup UNION {F[c] : c \in RefersTo(d)}
    <2> SUFFICES ASSUME NEW d \in Descriptors
                 PROVE  F[d] = {d} \cup UNION {F[c] : c \in RefersTo(d)}
      OBVIOUS
    <2>1. {F[c] : c \in RefersTo(d)} = {Below(c) : c \in RefersTo(d)}
      BY RefersToDescriptors
    <2> QED BY <2>1, BelowUnfolds
  <1>2. Is(F)
    <2> HIDE DEF F
    <2>1. F = [d \in Descriptors |-> F[d]]
      BY DEF F
    <2> QED BY <2>1, <1>1, Zenon
  <1>3. Tree = CHOOSE f : Is(f)
    BY DEF Tree
  <1>4. Is(Tree)
    <2> HIDE DEF Is
    <2> QED BY <1>2, <1>3
  <1> QED BY <1>4

LEMMA TreeIsOfDescriptors == \A d \in Descriptors : Tree[d] \subseteq Descriptors
  <1> DEFINE S == {d \in Descriptors : ~(Tree[d] \subseteq Descriptors)}
  <1> SUFFICES ASSUME S # {} PROVE FALSE
    OBVIOUS
  <1>1. PICK d \in S : RefersTo(d) \cap S = {}
    BY DigestAssumption
  <1>2. \A c \in RefersTo(d) : Tree[c] \subseteq Descriptors
    BY <1>1, RefersToDescriptors
  <1>3. Tree[d] = {d} \cup UNION {Tree[c] : c \in RefersTo(d)}
    BY <1>1, TreeUnfolds
  <1> QED BY <1>1, <1>2, <1>3

(***************************************************************************)
(* What an importer has pushed: the manifests it has visited and the       *)
(* children it has counted are in the repository with everything below.    *)
(***************************************************************************)
Frames == [manifest : Parents, pushed : Nat]
ImporterStates ==
  {x \in [stage : ImporterStages, project : Projects, image : LockedImages, last : LockedImages,
          stack : Seq(Frames), visited : SUBSET Parents] : x.image <= x.last}
Holds(repository, d) == \A x \in Tree[d] : <<repository, x>> \in registry
WillHold(repository, d) == \A x \in Tree[d] : <<repository, x>> \in registry'
RootOf(p) == Lock[importer[p].image].root
Child(frame, k) == Children[frame.manifest][k]
ChildCount(frame) == Len(Children[frame.manifest])

FrameIsSound(p, k) ==
  LET frame == importer[p].stack[k]
  IN /\ frame.pushed <= ChildCount(frame)
     /\ \A j \in 1..frame.pushed : Holds(RepositoryOf(p), Child(frame, j))
     /\ k < Len(importer[p].stack) =>
          /\ frame.pushed < ChildCount(frame)
          /\ importer[p].stack[k + 1].manifest = Child(frame, frame.pushed + 1)

ImporterIsSound(p) ==
  Pushing(p) =>
    /\ \A d \in importer[p].visited : Holds(RepositoryOf(p), d)
    /\ \A k \in 1..Len(importer[p].stack) : FrameIsSound(p, k)
    /\ IF importer[p].stack = << >> THEN Holds(RepositoryOf(p), RootOf(p))
       ELSE importer[p].stack[1].manifest = RootOf(p)

RegistryInvariant ==
  /\ RegistryTypeOK
  /\ \A p \in Importers : ImporterIsSound(p) /\ importer[p].image <= importer[p].last
  /\ TagsAreComplete

LEMMA LockFacts ==
  /\ Len(Lock) \in Nat \ {0} /\ LockedImages = 1..Len(Lock)
  /\ \A i \in LockedImages : Lock[i].targets \in [Projects -> Repositories] /\ Lock[i].root \in Parents
  /\ Parents \subseteq Descriptors
  /\ \A d \in Parents : /\ Children[d] \in Seq(Descriptors)
                        /\ RefersTo(d) = {Children[d][k] : k \in 1..Len(Children[d])}
  /\ \A d \in Descriptors \ Parents : RefersTo(d) = {}
  <1>1. /\ Len(Lock) \in Nat \ {0} /\ LockedImages = 1..Len(Lock)
        /\ \A i \in LockedImages : Lock[i].targets \in [Projects -> Repositories] /\ Lock[i].root \in Parents
    <2> DEFINE L == [targets : [Projects -> Repositories], root : Parents]
    <2>1. Lock \in Seq(L) /\ Lock # << >>
      BY LockAssumption
    <2>2. \A l \in L : l.targets \in [Projects -> Repositories] /\ l.root \in Parents
      OBVIOUS
    <2> HIDE DEF L
    <2>3. Len(Lock) \in Nat \ {0} /\ DOMAIN Lock = 1..Len(Lock) /\ \A i \in 1..Len(Lock) : Lock[i] \in L
      BY <2>1
    <2> QED BY <2>2, <2>3 DEF LockedImages
  <1>2. Parents \subseteq Descriptors
    BY DEF Descriptors
  <1>3. \A d \in Parents : Children[d] \in Seq(Descriptors)
    BY LockAssumption
  <1>4. \A d \in Parents : RefersTo(d) = {Children[d][k] : k \in 1..Len(Children[d])}
    BY <1>3 DEF RefersTo
  <1>5. \A d \in Descriptors \ Parents : RefersTo(d) = {}
    BY DEF RefersTo
  <1> QED BY <1>1, <1>2, <1>3, <1>4, <1>5

\* A repository holds a tree when it holds the root and the trees of its children.
LEMMA ParentHolds ==
  ASSUME NEW r, NEW d \in Descriptors, <<r, d>> \in registry,
         \A c \in RefersTo(d) : Holds(r, c)
  PROVE  Holds(r, d)
  <1>1. Tree[d] = {d} \cup UNION {Tree[c] : c \in RefersTo(d)}
    BY TreeUnfolds
  <1> QED BY <1>1 DEF Holds

LEMMA StackFacts ==
  ASSUME NEW s \in Seq(Frames), s # << >>
  PROVE  /\ Len(s) \in Nat \ {0} /\ s[Len(s)] \in Frames
         /\ Counted(s) \in Seq(Frames) /\ Len(Counted(s)) = Len(s) /\ Counted(s) # << >>
         /\ \A k \in 1..(Len(s) - 1) : Counted(s)[k] = s[k]
         /\ Counted(s)[Len(s)] = [manifest |-> s[Len(s)].manifest, pushed |-> s[Len(s)].pushed + 1]
  <1>1. Len(s) \in Nat \ {0} /\ s[Len(s)] \in Frames
    OBVIOUS
  <1> DEFINE f == [s[Len(s)] EXCEPT !.pushed = @ + 1]
  <1>2. f = [manifest |-> s[Len(s)].manifest, pushed |-> s[Len(s)].pushed + 1] /\ f \in Frames
    BY <1>1 DEF Frames
  <1>3. Counted(s) = [s EXCEPT ![Len(s)] = f]
    BY <1>1 DEF Counted
  <1> HIDE DEF f
  <1>4. [s EXCEPT ![Len(s)] = f] \in Seq(Frames) /\ Len([s EXCEPT ![Len(s)] = f]) = Len(s)
    BY <1>1, <1>2
  <1>5. /\ \A k \in 1..(Len(s) - 1) : Counted(s)[k] = s[k]
        /\ Counted(s)[Len(s)] = f
    BY <1>1, <1>3
  <1> QED BY <1>1, <1>2, <1>3, <1>4, <1>5

LEMMA PoppedFacts ==
  ASSUME NEW s \in Seq(Frames), s # << >>
  PROVE  /\ SubSeq(s, 1, Len(s) - 1) \in Seq(Frames)
         /\ Len(SubSeq(s, 1, Len(s) - 1)) = Len(s) - 1
         /\ \A k \in 1..(Len(s) - 1) : SubSeq(s, 1, Len(s) - 1)[k] = s[k]
         /\ SubSeq(s, 1, Len(s) - 1) = << >> <=> Len(s) = 1
  <1>1. Len(s) \in Nat \ {0}
    OBVIOUS
  <1> DEFINE n == Len(s) - 1
             t == SubSeq(s, 1, n)
  <1>a. n \in Int /\ n \in Nat /\ \A i \in 1..n : s[i] \in Frames
    BY <1>1
  <1> HIDE DEF n
  <1>c. 1 \in Int
    OBVIOUS
  <1>b. /\ t \in Seq(Frames)
        /\ Len(t) = IF 1 <= n THEN n - 1 + 1 ELSE 0
        /\ \A i \in 1..(n - 1 + 1) : t[i] = s[1 + i - 1]
    <2>1. \A m \in Int :
            (\A i \in m..n : s[i] \in Frames) =>
              /\ SubSeq(s, m, n) \in Seq(Frames)
              /\ Len(SubSeq(s, m, n)) = IF m <= n THEN n - m + 1 ELSE 0
              /\ \A i \in 1..(n - m + 1) : SubSeq(s, m, n)[i] = s[m + i - 1]
      BY <1>a, SubSeqProperties
    <2> QED BY <1>a, <1>c, <2>1
  <1>d. n - 1 + 1 = n /\ \A i \in 1..n : 1 + i - 1 = i
    BY <1>a
  <1> HIDE DEF t
  <1>2. t \in Seq(Frames)
    BY <1>b
  <1>3. Len(t) = n
    BY <1>a, <1>b
  <1>4. \A k \in 1..n : t[k] = s[k]
    <2>1. \A i \in 1..n : t[i] = s[1 + i - 1]
      BY <1>b, <1>d
    <2> QED BY <2>1, <1>d
  <1>5. t = << >> <=> Len(s) = 1
    <2>1. t = << >> <=> Len(t) = 0
      BY <1>2, EmptySeq
    <2> QED BY <1>1, <1>3, <2>1 DEF n
  <1> QED BY <1>2, <1>3, <1>4, <1>5 DEF t, n

LEMMA ImporterKept ==
  ASSUME NEW q, registry \subseteq registry', importer'[q] = importer[q], ImporterIsSound(q)
  PROVE  ImporterIsSound(q)'
  <1>1. \A r, d : Holds(r, d) => Holds(r, d)'
    BY DEF Holds
  <1>2. RepositoryOf(q)' = RepositoryOf(q) /\ RootOf(q)' = RootOf(q) /\ Pushing(q)' = Pushing(q)
    BY DEF RepositoryOf, RootOf, Pushing
  <1>3. \A k : FrameIsSound(q, k) => FrameIsSound(q, k)'
    BY <1>1, <1>2 DEF FrameIsSound
  <1> QED BY <1>1, <1>2, <1>3 DEF ImporterIsSound

\* An action of p alone, which only adds to the registry: what is left to show is
\* what it makes of p and of the tags.
LEMMA ImporterMoves ==
  ASSUME RegistryInvariant, NEW p \in Importers, NEW x, importer' = [importer EXCEPT ![p] = x],
         x \in ImporterStates,
         registry \subseteq registry', registry' \subseteq Repositories \X Descriptors,
         UNCHANGED spoiled, ImporterIsSound(p)',
         tags' \subseteq LockedImages \X Projects,
         \A tag \in tags' \ tags : Holds(Lock[tag[1]].targets[tag[2]], Lock[tag[1]].root)
  PROVE  RegistryInvariant'
  <1>1. RegistryTypeOK'
    BY DEF RegistryInvariant, RegistryTypeOK, Frames, ImporterStates
  <1>2. \A q \in Importers : ImporterIsSound(q)' /\ importer'[q].image <= importer'[q].last
    <2>1. importer'[p] = x
      BY DEF RegistryInvariant, RegistryTypeOK
    <2>2. ASSUME NEW q \in Importers, q # p PROVE ImporterIsSound(q)' /\ importer'[q].image <= importer'[q].last
      <3>1. importer'[q] = importer[q]
        BY <2>2 DEF RegistryInvariant, RegistryTypeOK
      <3> QED BY <3>1, ImporterKept DEF RegistryInvariant
    <2> QED BY <2>1, <2>2 DEF ImporterStates
  <1>3. TagsAreComplete'
    BY DEF RegistryInvariant, TagsAreComplete, Holds
  <1> QED BY <1>1, <1>2, <1>3 DEF RegistryInvariant

LEMMA ImporterTypes ==
  ASSUME RegistryInvariant, NEW p \in Importers
  PROVE  /\ importer[p] \in ImporterStates
         /\ importer[p].image \in LockedImages /\ importer[p].last \in LockedImages
         /\ importer[p].image <= importer[p].last
         /\ importer[p].project \in Projects /\ importer[p].stack \in Seq(Frames)
         /\ importer[p].visited \subseteq Parents
         /\ RepositoryOf(p) \in Repositories /\ RootOf(p) \in Parents
         /\ registry \subseteq Repositories \X Descriptors /\ tags \subseteq LockedImages \X Projects
         /\ ImporterIsSound(p)
  <1>1. importer[p] \in ImporterStates
    BY DEF RegistryInvariant, RegistryTypeOK, Frames, ImporterStates
  <1>2. /\ importer[p].image \in LockedImages /\ importer[p].last \in LockedImages
        /\ importer[p].image <= importer[p].last /\ importer[p].project \in Projects
        /\ importer[p].stack \in Seq(Frames) /\ importer[p].visited \subseteq Parents
    BY <1>1 DEF ImporterStates
  <1>3. RepositoryOf(p) \in Repositories /\ RootOf(p) \in Parents
    BY <1>2, LockFacts DEF RepositoryOf, RootOf
  <1> QED BY <1>1, <1>2, <1>3 DEF RegistryInvariant, RegistryTypeOK

\* An importer that does not push has nothing to account for.
LEMMA ImporterStops ==
  ASSUME RegistryInvariant, NEW p \in Importers, NEW x,
         x \in ImporterStates,
         x.stage # "pushing", importer' = [importer EXCEPT ![p] = x], UNCHANGED <<spoiled, registry>>,
         tags' \subseteq LockedImages \X Projects,
         \A tag \in tags' \ tags : Holds(Lock[tag[1]].targets[tag[2]], Lock[tag[1]].root)
  PROVE  RegistryInvariant'
  <1>1. importer'[p] = x
    BY DEF RegistryInvariant, RegistryTypeOK
  <1>2. ImporterIsSound(p)'
    BY <1>1 DEF ImporterIsSound, Pushing
  <1> QED BY <1>2, ImporterTypes, ImporterMoves

NewImport(stage, project, first, final) ==
  [stage |-> stage, project |-> project, image |-> first, last |-> final, stack |-> << >>, visited |-> {}]

LEMMA NewImportType ==
  ASSUME NEW stage \in ImporterStages, NEW project \in Projects, NEW first \in LockedImages,
         NEW final \in LockedImages, first <= final
  PROVE  /\ NewImport(stage, project, first, final) \in ImporterStates
         /\ NewImport(stage, project, first, final).stage = stage
  <1>1. << >> \in Seq(Frames)
    OBVIOUS
  <1> QED BY <1>1 DEF NewImport, ImporterStates

LEMMA NoImportType ==
  ASSUME NEW stage \in ImporterStages
  PROVE  /\ [NoImport EXCEPT !.stage = stage] \in ImporterStates
         /\ [NoImport EXCEPT !.stage = stage].stage = stage
  <1>1. 1 \in LockedImages /\ "locked" \in Projects
    BY LockFacts, LockAssumption
  <1> DEFINE x == [stage |-> stage, project |-> "locked", image |-> 1, last |-> 1, stack |-> << >>, visited |-> {}]
  <1>2. x = [NoImport EXCEPT !.stage = stage]
    BY DEF NoImport
  <1>3. << >> \in Seq(Frames)
    OBVIOUS
  <1>4. x \in ImporterStates /\ x.stage = stage
    BY <1>1, <1>3 DEF ImporterStates
  <1> QED BY <1>2, <1>4

LEMMA BeginKeeps ==
  ASSUME RegistryInvariant, NEW p \in Importers, NEW project \in Projects,
         ImportAll(p, project) \/ ImportOne(p, project)
  PROVE  RegistryInvariant'
  <1>0. \E first, final \in LockedImages : first <= final /\ BeginImport(p, project, first, final)
    <2>1. CASE ImportAll(p, project)
      <3>1. 1 \in LockedImages /\ Len(Lock) \in LockedImages /\ 1 <= Len(Lock)
        BY LockFacts
      <3>2. BeginImport(p, project, 1, Len(Lock))
        BY <2>1 DEF ImportAll
      <3> QED BY <3>1, <3>2
    <2>2. CASE ImportOne(p, project)
      <3>1. PICK image \in LockedImages : BeginImport(p, project, image, image)
        BY <2>2 DEF ImportOne
      <3>2. image <= image
        BY LockFacts
      <3> QED BY <3>1, <3>2
    <2> QED BY <2>1, <2>2
  <1>1. PICK first \in LockedImages, final \in LockedImages : first <= final /\ BeginImport(p, project, first, final)
    BY <1>0
  <1>2. importer' = [importer EXCEPT ![p] = NewImport("layout", project, first, final)]
    BY <1>1 DEF BeginImport, NewImport
  <1>3. "layout" \in ImporterStages
    BY DEF ImporterStages
  <1> QED BY <1>1, <1>2, <1>3, NewImportType, ImporterStops, ImporterTypes DEF BeginImport

LEMMA EndKeeps ==
  ASSUME RegistryInvariant, NEW p \in Importers, ImportEnds(p)
  PROVE  RegistryInvariant'
  <1>1. importer' = [importer EXCEPT ![p] = [NoImport EXCEPT !.stage = "failed"]]
    BY DEF ImportEnds
  <1>2. "failed" \in ImporterStages
    BY DEF ImporterStages
  <1> QED BY <1>1, <1>2, NoImportType, ImporterStops, ImporterTypes DEF ImportEnds

LEMMA ImportKeeps ==
  ASSUME RegistryInvariant, NEW p \in Importers, Import(p)
  PROVE  RegistryInvariant'
  <1> DEFINE f == [manifest |-> RootOf(p), pushed |-> 0]
             x == [importer[p] EXCEPT !.stage = "pushing", !.visited = {}, !.stack = <<f>>]
             T == ImporterStates
  <1>1. importer' = [importer EXCEPT ![p] = x]
    BY DEF Import, NothingVisited, RootOf
  <1>2. f \in Frames
    BY ImporterTypes DEF Frames
  <1>3. <<f>> \in Seq(Frames) /\ Len(<<f>>) = 1 /\ <<f>>[1] = f /\ <<f>> # << >>
    BY <1>2
  <1>4. x \in T /\ x.stage = "pushing" /\ x.visited = {} /\ x.stack = <<f>> /\ x.image = importer[p].image
    BY <1>3, ImporterTypes DEF ImporterStages, ImporterStates
  <1>5. importer'[p] = x
    BY <1>1 DEF RegistryInvariant, RegistryTypeOK
  <1> HIDE DEF x
  <1>6. RootOf(p)' = RootOf(p) /\ f.manifest = RootOf(p) /\ f.pushed = 0
    BY <1>4, <1>5 DEF RootOf
  <1>7. ChildCount(f) \in Nat
    BY <1>6, ImporterTypes, LockFacts DEF ChildCount
  <1> HIDE DEF f
  <1>8. \A k \in 1..Len(importer'[p].stack) : FrameIsSound(p, k)'
    BY <1>3, <1>4, <1>5, <1>6, <1>7 DEF FrameIsSound, ChildCount
  <1>9. ImporterIsSound(p)'
    BY <1>3, <1>4, <1>5, <1>6, <1>8 DEF ImporterIsSound
  <1> QED BY <1>1, <1>4, <1>9, ImporterTypes, ImporterMoves DEF Import

\* A step inside the walk: the stack changes, and what was visited grows at most.
LEMMA WalkKeeps ==
  ASSUME RegistryInvariant, NEW p \in Importers, Pushing(p), NEW s \in Seq(Frames), NEW v \in SUBSET Parents,
         importer' = [importer EXCEPT ![p].visited = v, ![p].stack = s],
         registry \subseteq registry', registry' \subseteq Repositories \X Descriptors,
         UNCHANGED <<spoiled, tags>>,
         \A d \in v \ importer[p].visited : WillHold(RepositoryOf(p), d),
         importer'[p].stack = s =>
           /\ \A k \in 1..Len(s) : FrameIsSound(p, k)'
           /\ IF s = << >> THEN WillHold(RepositoryOf(p), RootOf(p))
              ELSE s[1].manifest = RootOf(p)
  PROVE  RegistryInvariant'
  <1> DEFINE T == ImporterStates
             x == [importer[p] EXCEPT !.visited = v, !.stack = s]
  <1>1. importer' = [importer EXCEPT ![p] = x]
    BY DEF RegistryInvariant, RegistryTypeOK
  <1>2. /\ x \in T /\ x.stage = "pushing" /\ x.visited = v /\ x.stack = s
        /\ x.image = importer[p].image /\ x.project = importer[p].project
    BY ImporterTypes DEF Pushing, ImporterStates
  <1>3. importer'[p] = x
    BY <1>1 DEF RegistryInvariant, RegistryTypeOK
  <1> HIDE DEF x
  <1>4. RepositoryOf(p)' = RepositoryOf(p) /\ RootOf(p)' = RootOf(p) /\ Pushing(p)'
    BY <1>2, <1>3 DEF RepositoryOf, RootOf, Pushing
  <1>5. \A d \in importer[p].visited : WillHold(RepositoryOf(p), d)
    BY <1>4, ImporterTypes DEF ImporterIsSound, Holds, WillHold
  <1>6. ImporterIsSound(p)'
    BY <1>2, <1>3, <1>4, <1>5 DEF ImporterIsSound, Holds, WillHold
  <1> QED BY <1>1, <1>2, <1>6, ImporterTypes, ImporterMoves

\* What was known of a frame that stays where it is.
LEMMA FrameKept ==
  ASSUME NEW p, NEW k, FrameIsSound(p, k), registry \subseteq registry',
         RepositoryOf(p)' = RepositoryOf(p), importer'[p].stack[k] = importer[p].stack[k],
         k < Len(importer'[p].stack) =>
           /\ k < Len(importer[p].stack)
           /\ importer'[p].stack[k + 1].manifest = importer[p].stack[k + 1].manifest
  PROVE  FrameIsSound(p, k)'
  BY DEF FrameIsSound, Holds, WillHold

\* A child that the repository holds is counted.
LEMMA CountingKeeps ==
  ASSUME RegistryInvariant, NEW p \in Importers, Pushing(p),
         NEW s \in Seq(Frames), s # << >>, NEW v \in SUBSET Parents,
         \A k \in 1..Len(s) : s[k] = importer[p].stack[k] /\ k <= Len(importer[p].stack),
         s[Len(s)].pushed < ChildCount(s[Len(s)]),
         importer' = [importer EXCEPT ![p].visited = v, ![p].stack = Counted(s)],
         registry \subseteq registry', registry' \subseteq Repositories \X Descriptors,
         UNCHANGED <<spoiled, tags>>,
         \A d \in v \ importer[p].visited : WillHold(RepositoryOf(p), d),
         WillHold(RepositoryOf(p), Child(s[Len(s)], s[Len(s)].pushed + 1))
  PROVE  RegistryInvariant'
  <1> DEFINE t == Counted(s)
             n == Len(s)
             stack == importer[p].stack
  <1>1. /\ n \in Nat \ {0} /\ s[n] \in Frames /\ t \in Seq(Frames) /\ Len(t) = n /\ t # << >>
        /\ \A k \in 1..(n - 1) : t[k] = s[k]
        /\ t[n] = [manifest |-> s[n].manifest, pushed |-> s[n].pushed + 1]
    BY StackFacts
  <1>2. /\ stack \in Seq(Frames) /\ Len(stack) \in Nat /\ n <= Len(stack) /\ stack # << >>
    BY <1>1, ImporterTypes
  <1>3. /\ \A k \in 1..Len(stack) : FrameIsSound(p, k)
        /\ stack[1].manifest = RootOf(p)
    BY <1>2, ImporterTypes DEF ImporterIsSound
  <1>4. t[1].manifest = RootOf(p)
    BY <1>1, <1>3
  <1>5. t[n].manifest = s[n].manifest /\ t[n].pushed = s[n].pushed + 1 /\ s[n].pushed \in Nat
    BY <1>1 DEF Frames
  <1>6. ChildCount(s[n]) \in Nat
    BY <1>1, LockFacts DEF ChildCount, Frames
  <1> HIDE DEF t, n
  <1>7. ASSUME importer'[p].stack = t, NEW k \in 1..n PROVE FrameIsSound(p, k)'
    <2>1. RepositoryOf(p)' = RepositoryOf(p)
      BY DEF RepositoryOf, RegistryInvariant, RegistryTypeOK
    <2>2. CASE k = n
      <3>1. FrameIsSound(p, n) /\ stack[n] = s[n]
        BY <1>1, <1>2, <1>3 DEF n
      <3>2. ChildCount(t[n]) = ChildCount(s[n]) /\ \A j : Child(t[n], j) = Child(s[n], j)
        BY <1>5 DEF ChildCount, Child
      <3>3. \A j \in 1..s[n].pushed : WillHold(RepositoryOf(p), Child(s[n], j))
        BY <3>1, <2>1 DEF FrameIsSound, Holds, WillHold
      <3>4. WillHold(RepositoryOf(p), Child(s[n], s[n].pushed + 1))
        BY DEF n
      <3>5. \A j \in 1..t[n].pushed : WillHold(RepositoryOf(p), Child(s[n], j))
        BY <3>3, <3>4, <1>5
      <3>6. t[n].pushed <= ChildCount(s[n])
        BY <1>5, <1>6 DEF n
      <3>7. t[n].pushed <= ChildCount(t[n]) /\ \A j \in 1..t[n].pushed : WillHold(RepositoryOf(p), Child(t[n], j))
        BY <3>2, <3>5, <3>6
      <3>8. ~(n < Len(importer'[p].stack)) /\ importer'[p].stack[n] = t[n]
        BY <1>1, <1>7
      <3> QED BY <2>2, <2>1, <3>7, <3>8 DEF FrameIsSound, Holds, WillHold
    <2>3. CASE k # n
      <3>1. k \in 1..(n - 1) /\ k + 1 \in 1..n /\ k < n
        BY <1>1, <2>3
      <3>2. t[k] = stack[k] /\ t[k + 1].manifest = stack[k + 1].manifest
        <4>1. t[k + 1].manifest = s[k + 1].manifest
          <5>1. CASE k + 1 = n
            BY <5>1, <1>5
          <5>2. CASE k + 1 # n
            <6>1. k + 1 \in 1..(n - 1)
              BY <5>2, <3>1, <1>1
            <6> QED BY <6>1, <1>1
          <5> QED BY <5>1, <5>2
        <4> QED BY <4>1, <3>1, <1>1 DEF n
      <3>3. FrameIsSound(p, k) /\ k < Len(stack)
        BY <3>1, <1>1, <1>2, <1>3
      <3>4. /\ importer'[p].stack[k] = importer[p].stack[k]
            /\ importer'[p].stack[k + 1].manifest = importer[p].stack[k + 1].manifest
        BY <3>2, <1>7
      <3>5. FrameIsSound(p, k) /\ k < Len(importer[p].stack)
        BY <3>3
      <3> QED BY <2>1, <3>4, <3>5, FrameKept
    <2> QED BY <2>2, <2>3
  <1>8. importer' = [importer EXCEPT ![p].visited = v, ![p].stack = t]
    BY DEF t
  <1> QED BY <1>1, <1>4, <1>7, <1>8, WalkKeeps

\* The frame an importer is at, and its next child.
LEMMA TopFacts ==
  ASSUME RegistryInvariant, NEW p \in Importers, Pushing(p), importer[p].stack # << >>
  PROVE  /\ importer[p].stack \in Seq(Frames) /\ Len(importer[p].stack) \in Nat \ {0}
         /\ Top(p) = importer[p].stack[Len(importer[p].stack)]
         /\ Top(p) \in Frames /\ FrameIsSound(p, Len(importer[p].stack))
         /\ Top(p).pushed \in Nat /\ ChildCount(Top(p)) \in Nat /\ Top(p).pushed <= ChildCount(Top(p))
         /\ Top(p).manifest \in Parents
         /\ RefersTo(Top(p).manifest) = {Child(Top(p), k) : k \in 1..ChildCount(Top(p))}
         /\ ChildrenLeft(p) <=> Top(p).pushed < ChildCount(Top(p))
         /\ NextChild(p) = Child(Top(p), Top(p).pushed + 1)
         /\ ChildrenLeft(p) => NextChild(p) \in Descriptors
  <1>1. importer[p].stack \in Seq(Frames) /\ Len(importer[p].stack) \in Nat \ {0}
    BY ImporterTypes, StackFacts
  <1>2. Top(p) = importer[p].stack[Len(importer[p].stack)] /\ Top(p) \in Frames
    BY <1>1, StackFacts DEF Top
  <1>3. FrameIsSound(p, Len(importer[p].stack))
    BY <1>1, ImporterTypes DEF ImporterIsSound
  <1>4. Top(p).pushed \in Nat /\ Top(p).manifest \in Parents
    BY <1>2 DEF Frames
  <1>5. ChildCount(Top(p)) \in Nat /\ Children[Top(p).manifest] \in Seq(Descriptors)
    BY <1>4, LockFacts DEF ChildCount
  <1>6. Top(p).pushed <= ChildCount(Top(p))
    BY <1>2, <1>3 DEF FrameIsSound
  <1>7. RefersTo(Top(p).manifest) = {Child(Top(p), k) : k \in 1..ChildCount(Top(p))}
    BY <1>4, LockFacts DEF Child, ChildCount
  <1>8. ChildrenLeft(p) <=> Top(p).pushed < ChildCount(Top(p))
    BY DEF ChildrenLeft, ChildCount
  <1>9. NextChild(p) = Child(Top(p), Top(p).pushed + 1)
    BY DEF NextChild, Child
  <1>10. ASSUME ChildrenLeft(p) PROVE NextChild(p) \in Descriptors
    <2>1. Top(p).pushed + 1 \in 1..Len(Children[Top(p).manifest])
      BY <1>4, <1>5, <1>8, <1>10 DEF ChildCount
    <2> QED BY <2>1, <1>5 DEF NextChild
  <1> QED BY <1>1, <1>2, <1>3, <1>4, <1>5, <1>6, <1>7, <1>8, <1>9, <1>10

LEMMA CountKeeps ==
  ASSUME RegistryInvariant, NEW p \in Importers, Pushing(p), importer[p].stack # << >>, ChildrenLeft(p),
         importer' = [importer EXCEPT ![p].stack = CountChild(p)],
         registry \subseteq registry', registry' \subseteq Repositories \X Descriptors,
         UNCHANGED <<spoiled, tags>>, WillHold(RepositoryOf(p), NextChild(p))
  PROVE  RegistryInvariant'
  <1> DEFINE s == importer[p].stack
             v == importer[p].visited
  <1>1. s \in Seq(Frames) /\ s # << >> /\ v \in SUBSET Parents /\ Len(s) \in Nat
    BY TopFacts, ImporterTypes
  <1>2. \A k \in 1..Len(s) : s[k] = importer[p].stack[k] /\ k <= Len(importer[p].stack)
    BY <1>1
  <1>3. s[Len(s)].pushed < ChildCount(s[Len(s)]) /\ WillHold(RepositoryOf(p), Child(s[Len(s)], s[Len(s)].pushed + 1))
    BY TopFacts
  <1>4. importer' = [importer EXCEPT ![p].visited = v, ![p].stack = Counted(s)]
    <2>1. importer[p] = [importer[p] EXCEPT !.visited = v]
      BY ImporterTypes DEF ImporterStates
    <2> QED BY <2>1 DEF CountChild, RegistryInvariant, RegistryTypeOK
  <1>5. \A d \in v \ importer[p].visited : WillHold(RepositoryOf(p), d)
    OBVIOUS
  <1> HIDE DEF s, v
  <1> QED BY <1>1, <1>2, <1>3, <1>4, <1>5, CountingKeeps

LEMMA DescendKeeps ==
  ASSUME RegistryInvariant, NEW p \in Importers, Descend(p)
  PROVE  RegistryInvariant'
  <1> DEFINE stack == importer[p].stack
             visited == importer[p].visited
             n == Len(stack)
             d == NextChild(p)
  <1> USE DEF Descend
  <1>1. Pushing(p) /\ stack # << >> /\ ChildrenLeft(p) /\ d \in Parents
    OBVIOUS
  <1>2. stack \in Seq(Frames) /\ n \in Nat \ {0} /\ visited \in SUBSET Parents
    BY <1>1, TopFacts, ImporterTypes
  <1>3. registry' = registry /\ registry' \subseteq Repositories \X Descriptors
    BY ImporterTypes
  <1>4. CASE d \in visited
    <2>1. Holds(RepositoryOf(p), d)
      BY <1>1, <1>4, ImporterTypes DEF ImporterIsSound
    <2>2. RepositoryOf(p)' = RepositoryOf(p)
      BY <1>4 DEF RepositoryOf, RegistryInvariant, RegistryTypeOK
    <2>3. WillHold(RepositoryOf(p), d)
      BY <2>1, <2>2, <1>3 DEF Holds, WillHold
    <2>4. importer' = [importer EXCEPT ![p].stack = CountChild(p)]
      BY <1>4
    <2> QED BY <1>1, <1>3, <2>3, <2>4, CountKeeps
  <1>5. CASE d \notin visited
    <2> DEFINE f == [manifest |-> d, pushed |-> 0]
               t == Append(stack, f)
    <2>1. f \in Frames /\ f.manifest = d /\ f.pushed = 0
      BY <1>1 DEF Frames
    <2>2. importer' = [importer EXCEPT ![p].visited = visited, ![p].stack = t]
      <3>1. importer' = [importer EXCEPT ![p].stack = t]
        BY <1>5 DEF Push
      <3>2. importer[p] = [importer[p] EXCEPT !.visited = visited]
        BY ImporterTypes DEF ImporterStates
      <3> QED BY <3>1, <3>2 DEF RegistryInvariant, RegistryTypeOK
    <2> HIDE DEF f
    <2>3. /\ t \in Seq(Frames) /\ Len(t) = n + 1 /\ t # << >>
          /\ \A k \in 1..n : t[k] = stack[k]
          /\ t[n + 1] = f
      BY <1>2, <2>1
    <2>4. RepositoryOf(p)' = RepositoryOf(p)
      BY <2>2 DEF RepositoryOf, RegistryInvariant, RegistryTypeOK
    <2>5. /\ \A k \in 1..n : FrameIsSound(p, k)
          /\ stack[1].manifest = RootOf(p)
      BY <1>1, <1>2, ImporterTypes DEF ImporterIsSound
    <2> HIDE DEF t
    <2>6. ASSUME importer'[p].stack = t, NEW k \in 1..Len(t) PROVE FrameIsSound(p, k)'
      <3>1. CASE k = n + 1
        <4>1. ChildCount(f) \in Nat
          BY <1>1, <2>1, LockFacts DEF ChildCount
        <4> QED BY <3>1, <4>1, <2>1, <2>3, <2>6, <1>2 DEF FrameIsSound
      <3>2. CASE k = n
        <4>1. importer'[p].stack[n] = Top(p) /\ importer'[p].stack[n + 1].manifest = d
          BY <1>1, <1>2, <2>1, <2>3, <2>6, TopFacts
        <4>2. /\ Top(p).pushed < ChildCount(Top(p)) /\ d = Child(Top(p), Top(p).pushed + 1)
              /\ \A j \in 1..Top(p).pushed : Holds(RepositoryOf(p), Child(Top(p), j))
          BY <1>1, TopFacts DEF FrameIsSound
        <4>3. Top(p).pushed <= ChildCount(Top(p))
          BY <1>1, TopFacts
        <4>4. \A j \in 1..Top(p).pushed : WillHold(RepositoryOf(p), Child(importer'[p].stack[n], j))
          BY <4>1, <4>2, <2>4, <1>3 DEF Holds, WillHold
        <4> HIDE DEF d, n
        <4> QED BY <3>2, <2>4, <4>1, <4>2, <4>3, <4>4 DEF FrameIsSound, Holds, WillHold
      <3>3. CASE k < n
        <4>1. k \in 1..n /\ k + 1 \in 1..n
          BY <3>3, <2>6, <2>3, <1>2
        <4>2. /\ importer'[p].stack[k] = importer[p].stack[k]
              /\ importer'[p].stack[k + 1].manifest = importer[p].stack[k + 1].manifest
          BY <4>1, <2>3, <2>6
        <4>3. FrameIsSound(p, k) /\ k < Len(importer[p].stack) /\ registry \subseteq registry'
          BY <4>1, <3>3, <2>5, <1>3
        <4> QED BY <2>4, <4>2, <4>3, FrameKept
      <3> QED BY <3>1, <3>2, <3>3, <2>3, <2>6, <1>2
    <2>7. t[1].manifest = RootOf(p)
      BY <2>3, <2>5, <1>2
    <2> QED BY <1>1, <1>2, <1>3, <2>2, <2>3, <2>6, <2>7, WalkKeeps
  <1> QED BY <1>4, <1>5

LEMMA PushBlobKeeps ==
  ASSUME RegistryInvariant, NEW p \in Importers, PushBlob(p)
  PROVE  RegistryInvariant'
  <1>1. /\ Pushing(p) /\ importer[p].stack # << >> /\ ChildrenLeft(p) /\ NextChild(p) \notin Parents
        /\ importer' = [importer EXCEPT ![p].stack = CountChild(p)] /\ UNCHANGED <<spoiled, tags>>
        /\ registry' = registry \cup {<<RepositoryOf(p), NextChild(p)>>}
    BY DEF PushBlob
  <1>2. NextChild(p) \in Descriptors
    BY <1>1, TopFacts
  <1>3. registry \subseteq registry' /\ registry' \subseteq Repositories \X Descriptors
    BY <1>1, <1>2, ImporterTypes
  <1>4. Tree[NextChild(p)] = {NextChild(p)}
    BY <1>1, <1>2, TreeUnfolds, LockFacts
  <1>5. WillHold(RepositoryOf(p), NextChild(p))
    BY <1>1, <1>4 DEF WillHold
  <1> QED BY <1>1, <1>3, <1>5, CountKeeps

LEMMA PutManifestKeeps ==
  ASSUME RegistryInvariant, NEW p \in Importers, PutManifest(p)
  PROVE  RegistryInvariant'
  <1> DEFINE stack == importer[p].stack
             n == Len(stack)
             m == Top(p).manifest
             v == importer[p].visited \cup {m}
             s == Popped(p)
  <1>1. /\ Pushing(p) /\ stack # << >> /\ ~ChildrenLeft(p) /\ UNCHANGED <<spoiled, tags>>
        /\ registry' = registry \cup {<<RepositoryOf(p), m>>}
        /\ importer' = [importer EXCEPT ![p].visited = v,
                                        ![p].stack = IF s = << >> THEN << >> ELSE Counted(s)]
    BY DEF PutManifest, RegistryInvariant, RegistryTypeOK
  <1>2. /\ stack \in Seq(Frames) /\ n \in Nat \ {0} /\ m \in Parents /\ v \in SUBSET Parents
        /\ m = stack[n].manifest
    BY <1>1, TopFacts, ImporterTypes
  <1>3. registry \subseteq registry' /\ registry' \subseteq Repositories \X Descriptors
    BY <1>1, <1>2, ImporterTypes, LockFacts
  <1>4. WillHold(RepositoryOf(p), m)
    <2>1. \A c \in RefersTo(m) : Holds(RepositoryOf(p), c)
      <3> SUFFICES ASSUME NEW c \in RefersTo(m) PROVE Holds(RepositoryOf(p), c)
        OBVIOUS
      <3>1. Top(p).pushed = ChildCount(Top(p))
        BY <1>1, TopFacts
      <3>2. PICK k \in 1..ChildCount(Top(p)) : c = Child(Top(p), k)
        BY <1>1, TopFacts
      <3> QED BY <1>1, <3>1, <3>2, TopFacts DEF FrameIsSound
    <2>2. Tree[m] = {m} \cup UNION {Tree[c] : c \in RefersTo(m)}
      BY <1>2, TreeUnfolds, LockFacts
    <2> QED BY <2>1, <2>2, <1>1 DEF Holds, WillHold
  <1>5. \A d \in v \ importer[p].visited : WillHold(RepositoryOf(p), d)
    BY <1>4
  <1>6. /\ s \in Seq(Frames) /\ Len(s) = n - 1 /\ (s = << >> <=> n = 1)
        /\ \A k \in 1..(n - 1) : s[k] = stack[k]
    BY <1>1, <1>2, PoppedFacts DEF Popped
  <1>7. /\ \A k \in 1..n : FrameIsSound(p, k)
        /\ stack[1].manifest = RootOf(p)
    BY <1>1, <1>2, ImporterTypes DEF ImporterIsSound
  <1>8. CASE n = 1
    <2> DEFINE t == << >>
    <2>1. t \in Seq(Frames) /\ Len(t) = 0
      OBVIOUS
    <2>2. importer' = [importer EXCEPT ![p].visited = v, ![p].stack = t]
      BY <1>1, <1>6, <1>8
    <2>3. WillHold(RepositoryOf(p), RootOf(p))
      BY <1>2, <1>4, <1>7, <1>8
    <2>4. \A k \in 1..Len(t) : FrameIsSound(p, k)'
      BY <2>1
    <2> HIDE DEF v
    <2> QED BY <1>1, <1>2, <1>3, <1>5, <2>1, <2>2, <2>3, <2>4, WalkKeeps
  <1>9. CASE n # 1
    <2>1. Len(s) \in 1..(n - 1) /\ Len(s) < n /\ s # << >> /\ s[Len(s)] = stack[n - 1] /\ n - 1 + 1 = n
      BY <1>2, <1>6, <1>9
    <2>2. FrameIsSound(p, n - 1)
      <3>1. n - 1 \in 1..n
        <4>1. \A i \in Nat \ {0} : i # 1 => i - 1 \in 1..i
          OBVIOUS
        <4> HIDE DEF n
        <4> QED BY <1>2, <1>9, <4>1
      <3> HIDE DEF n
      <3> QED BY <3>1, <1>7
    <2>3. /\ stack[n - 1].pushed < ChildCount(stack[n - 1])
          /\ m = Child(stack[n - 1], stack[n - 1].pushed + 1)
      <3>1. n - 1 < Len(importer[p].stack)
        BY <1>2
      <3>2. importer[p].stack[n - 1 + 1].manifest = m
        BY <1>2, <2>1
      <3> QED BY <2>2, <3>1, <3>2 DEF FrameIsSound
    <2>4. \A k \in 1..Len(s) : s[k] = importer[p].stack[k] /\ k <= Len(importer[p].stack)
      BY <1>2, <1>6, <2>1
    <2>5. importer' = [importer EXCEPT ![p].visited = v, ![p].stack = Counted(s)]
      BY <1>1, <2>1
    <2>6. /\ s[Len(s)].pushed < ChildCount(s[Len(s)])
          /\ WillHold(RepositoryOf(p), Child(s[Len(s)], s[Len(s)].pushed + 1))
      BY <1>4, <2>1, <2>3
    <2> HIDE DEF s, v
    <2> QED BY <1>1, <1>2, <1>3, <1>5, <1>6, <2>1, <2>4, <2>5, <2>6, CountingKeeps
  <1> QED BY <1>8, <1>9

LEMMA TagImageKeeps ==
  ASSUME RegistryInvariant, NEW p \in Importers, TagImage(p)
  PROVE  RegistryInvariant'
  <1> DEFINE T == ImporterStates
             x == IF importer[p].image = importer[p].last THEN [importer[p] EXCEPT !.stage = "imported"]
                  ELSE [importer[p] EXCEPT !.stage = "layout", !.image = importer[p].image + 1]
  <1>1. importer' = [importer EXCEPT ![p] = x]
    <2>1. CASE importer[p].image = importer[p].last
      BY <2>1 DEF TagImage
    <2>2. CASE importer[p].image # importer[p].last
      BY <2>2 DEF TagImage
    <2> QED BY <2>1, <2>2
  <1>2. x \in T /\ x.stage # "pushing"
    <2>1. CASE importer[p].image = importer[p].last
      BY <2>1, ImporterTypes DEF ImporterStages, ImporterStates
    <2>2. CASE importer[p].image # importer[p].last
      <3>1. importer[p].image + 1 \in LockedImages /\ importer[p].image + 1 <= importer[p].last
        BY <2>2, ImporterTypes, LockFacts
      <3> QED BY <2>2, <3>1, ImporterTypes DEF ImporterStages, ImporterStates
    <2> QED BY <2>1, <2>2
  <1>3. Holds(Lock[importer[p].image].targets[importer[p].project], Lock[importer[p].image].root)
    BY ImporterTypes DEF TagImage, ImporterIsSound, RepositoryOf, RootOf
  <1> HIDE DEF x
  <1>4. /\ UNCHANGED <<spoiled, registry>> /\ tags' \subseteq LockedImages \X Projects
        /\ \A tag \in tags' \ tags : Holds(Lock[tag[1]].targets[tag[2]], Lock[tag[1]].root)
    BY <1>3, ImporterTypes DEF TagImage
  <1> QED BY <1>1, <1>2, <1>4, ImporterStops

LEMMA SpoilKeeps ==
  ASSUME RegistryInvariant, NEW image \in LockedImages, NEW d \in Descriptors, Spoil(image, d)
  PROVE  RegistryInvariant'
  <1>1. RegistryTypeOK'
    <2>1. <<image, d>> \in LockedImages \X Descriptors
      OBVIOUS
    <2>2. spoiled' \subseteq LockedImages \X Descriptors
      BY <2>1 DEF RegistryInvariant, RegistryTypeOK, Spoil
    <2> QED BY <2>2 DEF RegistryInvariant, RegistryTypeOK, Spoil
  <1>2. \A p \in Importers : ImporterIsSound(p)' /\ importer'[p].image <= importer'[p].last
    BY ImporterKept DEF RegistryInvariant, Spoil
  <1>3. TagsAreComplete'
    BY DEF RegistryInvariant, TagsAreComplete, Spoil
  <1> QED BY <1>1, <1>2, <1>3 DEF RegistryInvariant

LEMMA RegistryRests ==
  ASSUME RegistryInvariant, UNCHANGED registryVars
  PROVE  RegistryInvariant'
  <1>1. RegistryTypeOK'
    BY DEF RegistryInvariant, RegistryTypeOK, registryVars
  <1>2. \A p \in Importers : ImporterIsSound(p)' /\ importer'[p].image <= importer'[p].last
    BY ImporterKept DEF RegistryInvariant, registryVars
  <1>3. TagsAreComplete'
    BY DEF RegistryInvariant, TagsAreComplete, registryVars
  <1> QED BY <1>1, <1>2, <1>3 DEF RegistryInvariant

LEMMA RegistryStarts ==
  ASSUME NEW complete \in BOOLEAN, RegistryInit(complete)
  PROVE  RegistryInvariant
  <1>1. RegistryTypeOK
    <2>1. NoImport = [NoImport EXCEPT !.stage = "idle"]
      BY DEF NoImport
    <2>2. "idle" \in ImporterStages
      BY DEF ImporterStages
    <2>3. NoImport \in ImporterStates
      BY <2>1, <2>2, NoImportType
    <2> QED BY <2>3 DEF RegistryInit, RegistryTypeOK, Frames, ImporterStates
  <1>2. \A p \in Importers : ImporterIsSound(p) /\ importer[p].image <= importer[p].last
    BY DEF RegistryInit, ImporterIsSound, Pushing, NoImport
  <1>3. TagsAreComplete
    <2> SUFFICES ASSUME NEW tag \in tags, NEW d \in Tree[Lock[tag[1]].root]
                 PROVE  <<Lock[tag[1]].targets[tag[2]], d>> \in registry
      BY DEF TagsAreComplete
    <2>1. tag[1] \in LockedImages /\ tag[2] \in Projects /\ registry = Repositories \X Descriptors
      BY DEF RegistryInit
    <2> QED BY <2>1, TreeIsOfDescriptors, LockFacts
  <1> QED BY <1>1, <1>2, <1>3 DEF RegistryInvariant

LEMMA RegistryKeeps ==
  ASSUME RegistryInvariant, scenario \in Scenarios, [Next]_vars
  PROVE  RegistryInvariant'
  <1>1. Command \in Importers /\ Manual \in Importers /\ scenario.projects \subseteq Projects
    BY PlatformAssumption
  <1>2. CASE \E skip, brings \in BOOLEAN : StartDeploy(skip, brings)
    BY <1>1, <1>2, BeginKeeps DEF StartDeploy
  <1>3. CASE DeployStep \/ DeployFails \/ DeployIsKilled
    <2>1. UNCHANGED registryVars
      BY <1>3 DEF DeployStep, DeployFails, DeployIsKilled, ImagesImported, InspectPlatform,
           EnsureApplicationSecret, EnsureDefaultMinIO, InstallDefaultMinIO, InstallPlatform, PlatformLogin,
           ListEnvironments, RegisterEnvironment, TestEnvironment, RequestAdoption, AdoptionAnswers,
           EndUnregistered
    <2> QED BY <2>1, RegistryRests
  <1>4. CASE ImportByHand
    BY <1>1, <1>4, BeginKeeps DEF ImportByHand
  <1>5. ASSUME NEW p \in Importers, ImportOn(p) \/ ImportFails(p) PROVE RegistryInvariant'
    BY <1>5, ImportKeeps, DescendKeeps, PushBlobKeeps, PutManifestKeeps, TagImageKeeps, EndKeeps
       DEF ImportOn, ImportStep, ImportFails
  <1>6. CASE \E image \in LockedImages, d \in Descriptors : FileChanges(image, d)
    BY <1>6, SpoilKeeps DEF FileChanges
  <1>7. ASSUME NEW c \in Callers, Request(c) \/ RequestGoesOn(c) \/ RequestFails(c) PROVE RegistryInvariant'
    BY <1>7, RegistryRests DEF Request, RequestGoesOn, RequestFails
  <1>8. CASE ChangeEnvironment \/ ChangePassword \/ Crash \/ Reschedule \/ Validate
    BY <1>8, RegistryRests DEF ChangeEnvironment, ChangePassword, Crash, Reschedule, Validate
  <1>9. CASE UNCHANGED vars
    BY <1>9, RegistryRests DEF vars
  <1> QED BY <1>2, <1>3, <1>4, <1>5, <1>6, <1>7, <1>8, <1>9 DEF Next

LEMMA ScenarioStays ==
  ASSUME [Next]_vars
  PROVE  scenario' = scenario
  BY DEF Next, vars, StartDeploy, DeployStep, ImagesImported, InspectPlatform, EnsureApplicationSecret,
     EnsureDefaultMinIO, InstallDefaultMinIO, InstallPlatform, PlatformLogin, ListEnvironments, RegisterEnvironment,
     TestEnvironment, RequestAdoption, AdoptionAnswers, EndUnregistered, DeployFails, DeployIsKilled, ImportByHand,
     ImportOn, ImportFails, FileChanges, Request, RequestGoesOn, RequestFails, ChangeEnvironment, ChangePassword,
     Crash, Reschedule, Validate

LEMMA RegistryBegins == Init => RegistryInvariant
  <1> SUFFICES ASSUME Init PROVE RegistryInvariant
    OBVIOUS
  <1>1. CASE scenario.images
    BY <1>1, RegistryStarts DEF Init, RegistryInit
  <1>2. CASE ~scenario.images
    BY <1>2, RegistryStarts DEF Init, RegistryInit
  <1> QED BY <1>1, <1>2

\* Everything a tag leads to is in its repository (RegistryImporter tags an image last, and
\* what it skips was there): for any bundle and any two importers that overlap, fail and begin again.
THEOREM TaggedImagesAreComplete == Spec => []TagsAreComplete
  <1> DEFINE I == RegistryInvariant /\ scenario \in Scenarios
  <1>1. Init => I
    BY RegistryBegins DEF Init
  <1>2. I /\ [Next]_vars => I'
    BY RegistryKeeps, ScenarioStays
  <1>3. I => TagsAreComplete
    BY DEF RegistryInvariant
  <1> QED BY <1>1, <1>2, <1>3, PTL DEF Spec

(***************************************************************************)
(* The inductive invariant of the add-ons.                                 *)
(***************************************************************************)
\* The calls of each operation, and how it ends.
CallsOf(op) ==
  CASE op = "bootstrap" -> {"upsert", "store", "secret", "helm", "restart", "profile", "ready", "failing"}
    [] op = "adopt" -> {"test", "store", "restart", "profile", "ready", "unstoring"}
    [] op = "external" -> {"store", "profile", "unstoring"}
    [] op = "install" -> {"upsert", "secret", "helm", "location", "wait", "ready", "failing"}
    [] op = "reuse" -> {"secret", "location", "wait", "ready"}
    [] op = "uninstall" -> {"helm", "ready"}

CallFits(c) ==
  IF request[c].op = "none" THEN request[c].at = "unused"
  ELSE request[c].at \in CallsOf(request[c].op) \cup EndsOfRequests

IsMinio(c) == request[c].op \in MinioOps
IsVelero(c) == request[c].op \in VeleroOps
IsManagedRequest(c) == request[c].op \in {"bootstrap", "adopt"}

\* A profile id is the name of the request that drew it.
ManagedIds == {c \in Callers : IsManagedRequest(c)}

ProfilesAreOwn ==
  /\ \A p, q \in profiles : p.id = q.id => p = q
  /\ \A p \in profiles :
       /\ p.id \in Callers => IsMinio(p.id)
       /\ p.id \in ManagedIds => IsManaged(p)
       /\ p.credential \in Callers =>
            /\ IsMinio(p.credential)
            /\ request[p.credential].at \in {"ready", "unstoring"} \cup EndsOfRequests
  /\ rows["MINIO"].profile \in ManagedIds \cup {"none"}

\* What a request refers to.
RequestIsOwn(c) ==
  /\ CallFits(c)
  /\ request[c].op \in {"bootstrap", "external"} => request[c].profile = c
  /\ IsManagedRequest(c) => request[c].profile \in ManagedIds /\ request[c].place = "managed"
  /\ request[c].op \in {"install", "reuse"} \/ At(c, "adopt", "test") => IsStored(request[c].profile)

HasStorage == \E p \in profiles : IsManaged(p) /\ Resolvable(p.credential)

\* What it has stored can be opened.
RequestHasStored(c) ==
  /\ IsMinio(c) /\ request[c].at \in {"secret", "helm", "restart", "profile"} => Resolvable(c)
  /\ IsManagedRequest(c) /\ request[c].at \in {"ready", "ok"} => HasStorage

\* The master key is written before anything is sealed with it.
KeyIsFirst ==
  masterKey = "none" =>
    /\ ~platform.release /\ profiles = {}
    /\ deploy.stage \in {"idle", "importing", "inspect", "application", "failed"}
    /\ \A c \in Callers : request[c].op = "none"

DeployIsSound ==
  /\ importer[Command].stage \in {"layout", "pushing"} => deploy.stage = "importing"
  /\ IsRunning => deploy.attempt \in Attempts
  /\ deploy.stage = "minio_chart" => minio.secret # "none"
  /\ deploy.stage = "adopting" => request[deploy.attempt].op = "adopt"
  /\ deploy.registered => deploy.stage = "complete" /\ HasStorage
  /\ deploy.stage = "complete" /\ ~deploy.skip /\ deploy.fresh => deploy.registered

\* Until two requests overlap, one is executed at a time.
AreAlone(type) ==
  \A c, d \in Callers :
    Executing(c) /\ Executing(d) /\ AddonOf(request[c].op) = type /\ AddonOf(request[d].op) = type => c = d

Works(p) ==
  /\ Resolvable(p.credential) /\ minio.release
  /\ KeyOf(p) = minio.running /\ KeyOf(p) = minio.secret

IdWorks(id) == IsStored(id) /\ \A p \in profiles : p.id = id => Works(p)

BootstrapIsSound(c) ==
  LET at == request[c].at
      mine == rows["MINIO"].profile \in {c, "none"}
  IN /\ rows["MINIO"].status # "READY"
     /\ at # "ready" => ~IsStored(c)
     /\ at # "upsert" => mine
     /\ at \in {"helm", "restart", "profile"} => minio.secret = vault[c].key
     /\ at \in {"restart", "profile"} => minio.release
     /\ at = "ready" => IdWorks(c)

AdoptIsSound(c) ==
  LET at == request[c].at
  IN /\ at \in {"store", "restart", "profile"} => ~IsStored(request[c].profile)
     /\ at \in {"restart", "profile"} => minio.secret = vault[c].key
     /\ at \in {"test", "ready"} => IdWorks(request[c].profile)

StorageIsSound ==
  /\ AreAlone("MINIO")
  /\ \A p \in profiles : p.id = rows["MINIO"].profile => Works(p)
  /\ rows["MINIO"].status = "READY" => IsStored(rows["MINIO"].profile)
  /\ \A c \in Callers : Executing(c) =>
       /\ request[c].op = "bootstrap" => BootstrapIsSound(c)
       /\ request[c].op = "adopt" => AdoptIsSound(c)

HasSecretOf(id) == velero.secret = KeyOf(ProfileOf(id))
Uses(id) == velero.server # "none" /\ velero.location = id /\ HasSecretOf(id)

BackupIsSound(c) ==
  LET at == request[c].at
      op == request[c].op
      id == request[c].profile
  IN /\ op = "install" /\ at # "upsert" => rows["VELERO"].status # "READY"
     /\ op = "reuse" /\ at # "secret" => velero.unrecorded
     /\ op = "uninstall" /\ at # "helm" => velero.unrecorded
     /\ op = "install" /\ at = "helm" => HasSecretOf(id)
     /\ at = "location" => HasSecretOf(id) /\ velero.server # "none"
     /\ op # "uninstall" /\ at \in {"wait", "ready"} => Uses(id)

VeleroIsSound ==
  /\ AreAlone("VELERO")
  /\ rows["VELERO"].status = "READY" /\ ~velero.unrecorded =>
       IsStored(rows["VELERO"].profile) /\ Uses(rows["VELERO"].profile)
  /\ \A c \in Callers : Executing(c) /\ IsVelero(c) => BackupIsSound(c)

AddonsInvariant ==
  /\ ProfilesAreOwn
  /\ \A c \in Callers : RequestIsOwn(c) /\ RequestHasStored(c)
  /\ KeyIsFirst /\ DeployIsSound
  /\ "MINIO" \notin overlapped => StorageIsSound
  /\ "VELERO" \notin overlapped => VeleroIsSound

(***************************************************************************)
(* Types, and how a request moves.                                         *)
(***************************************************************************)
Moments == Calls \cup EndsOfRequests \cup {"unused"}
Operations == MinioOps \cup VeleroOps
RequestType ==
  [op : Operations \cup {"none"}, at : Moments, environment : 0..MaxEnvironments,
   profile : Ids \cup {"none"}, place : Places, name : Names, ready : BOOLEAN]
RowType == [status : Statuses \cup {"absent"}, profile : Ids \cup {"none"}, managed : BOOLEAN]

\* What a request is never changes.
IsSame(c) ==
  /\ request'[c].op = request[c].op /\ request'[c].profile = request[c].profile
  /\ request'[c].place = request[c].place /\ request'[c].environment = request[c].environment
  /\ request'[c].ready = request[c].ready

LEMMA GoesFacts ==
  ASSUME AddonsTypeOK, NEW c \in Callers, NEW a \in Moments, Goes(c, a)
  PROVE  /\ request' \in [Callers -> RequestType]
         /\ request'[c].at = a /\ IsSame(c)
         /\ \A d \in Callers : d # c => request'[d] = request[d]
  <1> DEFINE x == [request[c] EXCEPT !.at = a]
  <1>1. request \in [Callers -> RequestType]
    BY DEF AddonsTypeOK, RequestType, Operations, Moments
  <1>2. request' = [request EXCEPT ![c] = x]
    BY <1>1 DEF Goes
  <1>3. /\ x \in RequestType /\ x.at = a
        /\ x.op = request[c].op /\ x.profile = request[c].profile /\ x.place = request[c].place
        /\ x.environment = request[c].environment /\ x.ready = request[c].ready
    BY <1>1 DEF RequestType
  <1> HIDE DEF x
  <1> QED BY <1>1, <1>2, <1>3 DEF IsSame

LEMMA BeginFacts ==
  ASSUME AddonsTypeOK, NEW c \in Callers, NEW op \in Operations, NEW a \in Calls,
         NEW profile \in Ids \cup {"none"}, NEW place \in Places, NEW name \in Names,
         Begin(c, op, a, profile, place, name)
  PROVE  /\ request[c].at = "unused"
         /\ request' \in [Callers -> RequestType]
         /\ request'[c].op = op /\ request'[c].at = a /\ request'[c].profile = profile
         /\ request'[c].place = place
         /\ \A d \in Callers : d # c => request'[d] = request[d]
         /\ overlapped' = overlapped \/ overlapped' = overlapped \cup {AddonOf(op)}
         /\ AddonOf(op) \notin overlapped' => ~Meets(c, op)
         /\ overlapped' \subseteq AddonTypes
  <1> DEFINE x == [op |-> op, at |-> a, environment |-> environment.version, profile |-> profile,
                   place |-> place, name |-> name, ready |-> rows[AddonOf(op)].status = "READY"]
  <1>1. request \in [Callers -> RequestType]
    BY DEF AddonsTypeOK, RequestType, Operations, Moments
  <1>2. request' = [request EXCEPT ![c] = x] /\ request[c].at = "unused"
    BY DEF Begin
  <1>3. environment.version \in 0..MaxEnvironments
    BY DEF AddonsTypeOK
  <1>4. x \in RequestType /\ x.op = op /\ x.at = a /\ x.profile = profile /\ x.place = place
    BY <1>3 DEF RequestType, Moments
  <1> HIDE DEF x
  <1>5. AddonOf(op) \in AddonTypes /\ overlapped \subseteq AddonTypes
    BY DEF AddonOf, AddonTypes, AddonsTypeOK
  <1> QED BY <1>1, <1>2, <1>4, <1>5 DEF Begin

LEMMA AddonTypeFacts ==
  ASSUME AddonsTypeOK
  PROVE  /\ request \in [Callers -> RequestType]
         /\ environment.version \in 0..MaxEnvironments
         /\ rows \in [AddonTypes -> RowType]
         /\ vault \in [Ids -> [key : Keys, seal : MasterKeys]]
         /\ \A p \in profiles : p.id \in Ids /\ p.credential \in Ids /\ p.place \in Places
         /\ Callers \subseteq Ids /\ Stored \subseteq Ids /\ "none" \notin Ids
         /\ "MINIO" \in AddonTypes /\ "VELERO" \in AddonTypes
         /\ minio.secret \in Keys /\ minio.running \in Keys /\ minio.release \in BOOLEAN
         /\ masterKey \in MasterKeys
  BY AddonAssumption
     DEF AddonsTypeOK, RequestType, Operations, Moments, RowType, Ids, AddonTypes

LEMMA ProfileOfFacts ==
  ASSUME ProfilesAreOwn, NEW x
  PROVE  /\ IsStored(x) => ProfileOf(x) \in profiles /\ ProfileOf(x).id = x
         /\ \A p \in profiles : p.id = x => ProfileOf(x) = p
  BY DEF ProfilesAreOwn, IsStored, ProfileOf

SavedMoments == {"ready", "unstoring"} \cup EndsOfRequests

\* What no step takes back.
Grows ==
  /\ profiles \subseteq profiles'
  /\ \A p \in profiles : vault'[p.credential] = vault[p.credential]
  /\ masterKey # "none" => masterKey' = masterKey
  /\ \A c \in Callers : request[c].op # "none" => IsSame(c)
  /\ \A c \in Callers : IsMinio(c) /\ request[c].at \in SavedMoments => request'[c].at \in SavedMoments
  /\ overlapped \subseteq overlapped'
  /\ minio.secret # "none" => minio'.secret # "none"

\* A call is that of one request, which stores its own credential only.
ActsAlone(c) ==
  /\ IsSame(c)
  /\ \A d \in Callers : d # c => request'[d] = request[d]
  /\ \A x \in Ids : x # c => vault'[x] = vault[x]

LEMMA TypesFrom ==
  ASSUME request' \in [Callers -> RequestType],
         environment' \in [version : 0..MaxEnvironments,
                            status : {"absent", "PENDING", "CONNECTED", "DISCONNECTED", "ERROR"}],
         rows' \in [AddonTypes -> RowType],
         vault' \in [Ids -> [key : Keys, seal : MasterKeys]],
         profiles' \subseteq [id : Ids, credential : Ids, place : Places, name : Names],
         masterKey' \in MasterKeys,
         minio' \in [release : BOOLEAN, secret : Keys, running : Keys],
         velero' \in [server : {"none", "managed", "foreign"}, secret : Keys, location : Ids \cup {"none"},
                      available : BOOLEAN, unrecorded : BOOLEAN],
         overlapped' \subseteq AddonTypes
  PROVE  AddonsTypeOK'
  BY DEF AddonsTypeOK, RequestType, Operations, Moments, RowType

LEMMA TypesAre ==
  ASSUME AddonsTypeOK
  PROVE  /\ request \in [Callers -> RequestType]
         /\ environment \in [version : 0..MaxEnvironments,
                             status : {"absent", "PENDING", "CONNECTED", "DISCONNECTED", "ERROR"}]
         /\ rows \in [AddonTypes -> RowType]
         /\ vault \in [Ids -> [key : Keys, seal : MasterKeys]]
         /\ profiles \subseteq [id : Ids, credential : Ids, place : Places, name : Names]
         /\ masterKey \in MasterKeys
         /\ minio \in [release : BOOLEAN, secret : Keys, running : Keys]
         /\ velero \in [server : {"none", "managed", "foreign"}, secret : Keys, location : Ids \cup {"none"},
                       available : BOOLEAN, unrecorded : BOOLEAN]
         /\ overlapped \subseteq AddonTypes
  BY DEF AddonsTypeOK, RequestType, Operations, Moments, RowType

LEMMA UpsertFacts ==
  ASSUME AddonsTypeOK, NEW type \in AddonTypes, NEW status \in Statuses, NEW profile \in Ids \cup {"none"},
         NEW managed \in BOOLEAN, Upsert(type, status, profile, managed)
  PROVE  /\ rows' \in [AddonTypes -> RowType]
         /\ rows'[type].status = status /\ rows'[type].profile = profile
         /\ \A t \in AddonTypes : t # type => rows'[t] = rows[t]
  <1> DEFINE x == [status |-> status, profile |-> profile, managed |-> managed]
  <1>1. x \in RowType /\ x.status = status /\ x.profile = profile
    BY DEF RowType
  <1>2. rows' = [rows EXCEPT ![type] = x] /\ rows \in [AddonTypes -> RowType]
    BY TypesAre DEF Upsert
  <1> HIDE DEF x
  <1> QED BY <1>1, <1>2

LEMMA StoreFacts ==
  ASSUME AddonsTypeOK, NEW c \in Callers, NEW x \in [key : Keys, seal : MasterKeys],
         vault' = [vault EXCEPT ![c] = x]
  PROVE  /\ vault' \in [Ids -> [key : Keys, seal : MasterKeys]]
         /\ vault'[c] = x /\ \A d \in Ids : d # c => vault'[d] = vault[d]
  BY TypesAre, AddonTypeFacts

\* A request whose credential no profile refers to may change it.
LEMMA GrowsFrom ==
  ASSUME AddonsTypeOK, NEW c \in Callers, ActsAlone(c), profiles \subseteq profiles',
         UNCHANGED <<masterKey, overlapped>>, vault' = vault \/ ~Referenced(c),
         IsMinio(c) /\ request[c].at \in SavedMoments => request'[c].at \in SavedMoments,
         minio.secret # "none" => minio'.secret # "none"
  PROVE  Grows
  <1>1. \A p \in profiles : vault'[p.credential] = vault[p.credential]
    BY AddonTypeFacts DEF ActsAlone, Referenced
  <1>2. \A d \in Callers : request[d].op # "none" => IsSame(d)
    BY DEF ActsAlone, IsSame
  <1>3. \A d \in Callers : IsMinio(d) /\ request[d].at \in SavedMoments => request'[d].at \in SavedMoments
    BY DEF ActsAlone, IsMinio
  <1> QED BY <1>1, <1>2, <1>3 DEF Grows

Sound == AddonsTypeOK /\ AddonsInvariant

LEMMA FitFacts ==
  ASSUME Sound, NEW c \in Callers
  PROVE  /\ request[c].op = "none" <=> request[c].at = "unused"
         /\ request[c].at = "upsert" => request[c].op \in {"bootstrap", "install"}
         /\ request[c].at = "test" => request[c].op = "adopt"
         /\ request[c].at \in {"store", "profile"} => IsMinio(c)
         /\ request[c].at = "secret" => request[c].op \in {"bootstrap", "install", "reuse"}
         /\ request[c].at = "helm" => request[c].op \in {"bootstrap", "install", "uninstall"}
         /\ request[c].at = "restart" => request[c].op \in {"bootstrap", "adopt"}
         /\ request[c].at \in {"location", "wait"} => request[c].op \in {"install", "reuse"}
         /\ request[c].at = "ready" => request[c].op \in {"bootstrap", "adopt", "install", "reuse", "uninstall"}
         /\ request[c].at = "failing" => request[c].op \in {"bootstrap", "install"}
         /\ request[c].at = "unstoring" => request[c].op \in {"adopt", "external"}
         /\ request[c].op \in Operations \cup {"none"}
         /\ request[c].at \in Moments
  <1>1. request[c].op \in Operations \cup {"none"} /\ request[c].at \in Moments
    BY TypesAre DEF Sound, RequestType
  <1>2. CallFits(c)
    BY DEF Sound, AddonsInvariant, RequestIsOwn
  <1> QED BY <1>1, <1>2 DEF CallFits, CallsOf, EndsOfRequests, Operations, MinioOps, VeleroOps, IsMinio

LEMMA NotReferenced ==
  ASSUME Sound, NEW c \in Callers, ~(request[c].at \in SavedMoments)
  PROVE  ~Referenced(c)
  BY DEF Sound, AddonsInvariant, ProfilesAreOwn, Referenced, SavedMoments

LEMMA RequestedFacts ==
  ASSUME Sound, NEW c \in Callers
  PROVE  /\ request[c].op \in {"bootstrap", "external"} => request[c].profile = c
         /\ IsManagedRequest(c) => request[c].profile \in ManagedIds /\ request[c].place = "managed"
         /\ request[c].op \in {"install", "reuse"} \/ At(c, "adopt", "test") =>
              /\ IsStored(request[c].profile) /\ ProfileOf(request[c].profile) \in profiles
              /\ ProfileOf(request[c].profile).id = request[c].profile
         /\ request[c].profile \in Ids \cup {"none"}
         /\ ProfilesAreOwn
  <1>1. RequestIsOwn(c) /\ ProfilesAreOwn
    BY DEF Sound, AddonsInvariant
  <1> QED BY <1>1, ProfileOfFacts, TypesAre DEF Sound, RequestType, RequestIsOwn

LEMMA RecordFailureFacts ==
  ASSUME Sound, NEW c \in Callers, RecordFailure(c)
  PROVE  /\ AddonsTypeOK' /\ Grows /\ ActsAlone(c)
         /\ request[c].op \in {"bootstrap", "install"} /\ request[c].at = "failing" /\ request'[c].at = "failed"
         /\ \A t \in AddonTypes : t # AddonOf(request[c].op) => rows'[t] = rows[t]
         /\ LET t == AddonOf(request[c].op)
            IN rows'[t] = rows[t] \/ (rows'[t].status = "FAILED" /\ rows'[t].profile = request[c].profile)
  <1> DEFINE t == AddonOf(request[c].op)
  <1> USE DEF RecordFailure
  <1>1. request[c].op \in {"bootstrap", "install"} /\ t \in AddonTypes
    BY FitFacts DEF AddonOf, AddonTypes
  <1>2. "failed" \in Moments /\ "FAILED" \in Statuses /\ "failed" \in SavedMoments
    BY DEF Moments, EndsOfRequests, Statuses, SavedMoments
  <1>3. /\ request' \in [Callers -> RequestType] /\ request'[c].at = "failed" /\ IsSame(c)
        /\ \A d \in Callers : d # c => request'[d] = request[d]
    BY <1>2, GoesFacts DEF Sound
  <1>4. request[c].profile \in Ids \cup {"none"} /\ IsManaging(c) \in BOOLEAN
    BY RequestedFacts DEF IsManaging
  <1>5. /\ rows' \in [AddonTypes -> RowType]
        /\ \A u \in AddonTypes : u # t => rows'[u] = rows[u]
        /\ rows'[t] = rows[t] \/ (rows'[t].status = "FAILED" /\ rows'[t].profile = request[c].profile)
    <2>1. CASE CanUpsert(c, "FAILED")
      BY <2>1, <1>1, <1>2, <1>4, UpsertFacts DEF Sound
    <2>2. CASE ~CanUpsert(c, "FAILED")
      BY <2>2, TypesAre DEF Sound
    <2> QED BY <2>1, <2>2
  <1>6. ActsAlone(c)
    BY <1>3 DEF ActsAlone
  <1>7. Grows
    BY <1>2, <1>3, <1>6, GrowsFrom DEF Sound, clusterVars
  <1>8. AddonsTypeOK'
    BY <1>3, <1>5, TypesFrom, TypesAre DEF Sound, clusterVars
  <1> QED BY <1>1, <1>3, <1>5, <1>6, <1>7, <1>8

LEMMA RemoveCredentialFacts ==
  ASSUME Sound, NEW c \in Callers, RemoveCredential(c)
  PROVE  /\ AddonsTypeOK' /\ Grows /\ ActsAlone(c)
         /\ request[c].op \in {"adopt", "external"} /\ request'[c].at = "failed"
  <1> USE DEF RemoveCredential
  <1>1. "failed" \in Moments /\ "failed" \in SavedMoments
    BY DEF Moments, EndsOfRequests, SavedMoments
  <1>2. /\ request' \in [Callers -> RequestType] /\ request'[c].at = "failed" /\ IsSame(c)
        /\ \A d \in Callers : d # c => request'[d] = request[d]
    BY <1>1, GoesFacts DEF Sound
  <1>3. NoCredential \in [key : Keys, seal : MasterKeys]
    BY DEF NoCredential, Keys, MasterKeys
  <1>4. vault' \in [Ids -> [key : Keys, seal : MasterKeys]] /\ \A d \in Ids : d # c => vault'[d] = vault[d]
    <2>1. CASE Referenced(c)
      BY <2>1, TypesAre DEF Sound
    <2>2. CASE ~Referenced(c)
      BY <2>2, <1>3, StoreFacts DEF Sound
    <2> QED BY <2>1, <2>2
  <1>5. ActsAlone(c)
    BY <1>2, <1>4 DEF ActsAlone
  <1>6. Grows
    BY <1>1, <1>2, <1>5, GrowsFrom DEF Sound, clusterVars
  <1>7. AddonsTypeOK'
    BY <1>2, <1>4, TypesFrom, TypesAre DEF Sound, clusterVars
  <1> QED BY <1>2, <1>5, <1>6, <1>7, FitFacts

LEMMA MarkInstallingFacts ==
  ASSUME Sound, NEW c \in Callers, MarkInstalling(c)
  PROVE  /\ AddonsTypeOK' /\ Grows /\ ActsAlone(c)
         /\ request[c].op \in {"bootstrap", "install"} /\ request[c].at = "upsert"
         /\ request'[c].at = IF request[c].op = "bootstrap" THEN "store" ELSE "secret"
         /\ \A t \in AddonTypes : t # AddonOf(request[c].op) => rows'[t] = rows[t]
         /\ rows'[AddonOf(request[c].op)].status = "INSTALLING"
         /\ rows'[AddonOf(request[c].op)].profile = request[c].profile
  <1> DEFINE t == AddonOf(request[c].op)
             a == IF request[c].op = "bootstrap" THEN "store" ELSE "secret"
  <1> USE DEF MarkInstalling
  <1>1. request[c].op \in {"bootstrap", "install"} /\ t \in AddonTypes
    BY FitFacts DEF AddonOf, AddonTypes
  <1>2. a \in Moments /\ "INSTALLING" \in Statuses /\ request[c].at \notin SavedMoments
    BY DEF Moments, Calls, Statuses, SavedMoments, EndsOfRequests
  <1>3. /\ request' \in [Callers -> RequestType] /\ request'[c].at = a /\ IsSame(c)
        /\ \A d \in Callers : d # c => request'[d] = request[d]
    BY <1>2, GoesFacts DEF Sound
  <1>4. request[c].profile \in Ids \cup {"none"} /\ IsManaging(c) \in BOOLEAN
    BY RequestedFacts DEF IsManaging
  <1>5. /\ rows' \in [AddonTypes -> RowType]
        /\ \A u \in AddonTypes : u # t => rows'[u] = rows[u]
        /\ rows'[t].status = "INSTALLING" /\ rows'[t].profile = request[c].profile
    BY <1>1, <1>2, <1>4, UpsertFacts DEF Sound
  <1>6. ActsAlone(c)
    BY <1>3 DEF ActsAlone
  <1>7. Grows
    BY <1>2, <1>3, <1>6, GrowsFrom DEF Sound, clusterVars
  <1>8. AddonsTypeOK'
    BY <1>3, <1>5, TypesFrom, TypesAre DEF Sound, clusterVars
  <1> QED BY <1>1, <1>3, <1>5, <1>6, <1>7, <1>8

LEMMA StoreCredentialFacts ==
  ASSUME Sound, NEW c \in Callers, StoreCredential(c)
  PROVE  /\ AddonsTypeOK' /\ Grows /\ ActsAlone(c) /\ IsMinio(c)
         /\ request[c].at = "store"
         /\ request'[c].at = CASE request[c].op = "bootstrap" -> "secret"
                               [] request[c].op = "adopt" -> "restart"
                               [] OTHER -> "profile"
         /\ vault'[c].seal = masterKey /\ vault'[c].key # "none"
         /\ request[c].op = "adopt" => vault'[c].key = minio.secret
  <1> DEFINE a == CASE request[c].op = "bootstrap" -> "secret"
                    [] request[c].op = "adopt" -> "restart"
                    [] OTHER -> "profile"
  <1> USE DEF StoreCredential
  <1>1. IsMinio(c) /\ request[c].op \in {"bootstrap", "adopt", "external"}
    BY FitFacts DEF IsMinio, MinioOps
  <1>2. a \in Moments /\ request[c].at \notin SavedMoments
    BY <1>1 DEF Moments, Calls, SavedMoments, EndsOfRequests
  <1>3. /\ request' \in [Callers -> RequestType] /\ request'[c].at = a /\ IsSame(c)
        /\ \A d \in Callers : d # c => request'[d] = request[d]
    BY <1>2, GoesFacts DEF Sound
  <1>4. PICK key \in KeysFor(c) : Store(c, key)
    OBVIOUS
  <1>5. key \in Keys /\ key # "none" /\ (request[c].op = "adopt" => key = minio.secret)
    <2>1. CASE request[c].op = "adopt"
      BY <1>4, <2>1, AddonTypeFacts DEF KeysFor, Passes, Sound
    <2>2. CASE request[c].op # "adopt"
      BY <1>1, <1>4, <2>2, AddonTypeFacts DEF KeysFor, Keys, Ids, Sound
    <2> QED BY <2>1, <2>2
  <1>6. masterKey \in MasterKeys
    BY AddonTypeFacts DEF Sound
  <1> DEFINE x == [key |-> key, seal |-> masterKey]
  <1>7. x \in [key : Keys, seal : MasterKeys] /\ x.key = key /\ x.seal = masterKey
    BY <1>5, <1>6
  <1>8. vault' = [vault EXCEPT ![c] = x]
    BY <1>4 DEF Store
  <1> HIDE DEF x
  <1>9. /\ vault' \in [Ids -> [key : Keys, seal : MasterKeys]] /\ vault'[c] = x
        /\ \A d \in Ids : d # c => vault'[d] = vault[d]
    BY <1>7, <1>8, StoreFacts DEF Sound
  <1>10. ActsAlone(c)
    BY <1>3, <1>9 DEF ActsAlone
  <1>11. Grows
    BY <1>2, <1>10, GrowsFrom, NotReferenced DEF Sound, clusterVars
  <1>12. AddonsTypeOK'
    BY <1>3, <1>9, TypesFrom, TypesAre DEF Sound, clusterVars
  <1> QED BY <1>1, <1>3, <1>5, <1>7, <1>9, <1>10, <1>11, <1>12

\* A call that changes the cluster only.
LEMMA ClusterFacts ==
  ASSUME Sound, NEW c \in Callers, NEW a \in Moments, Goes(c, a), UNCHANGED <<tableVars, masterKey, overlapped>>,
         minio' \in [release : BOOLEAN, secret : Keys, running : Keys],
         velero' \in [server : {"none", "managed", "foreign"}, secret : Keys, location : Ids \cup {"none"},
                      available : BOOLEAN, unrecorded : BOOLEAN],
         IsMinio(c) /\ request[c].at \in SavedMoments => a \in SavedMoments,
         minio.secret # "none" => minio'.secret # "none"
  PROVE  AddonsTypeOK' /\ Grows /\ ActsAlone(c) /\ request'[c].at = a
  <1> USE DEF tableVars
  <1>1. /\ request' \in [Callers -> RequestType] /\ request'[c].at = a /\ IsSame(c)
        /\ \A d \in Callers : d # c => request'[d] = request[d]
    BY GoesFacts DEF Sound
  <1>2. ActsAlone(c)
    BY <1>1 DEF ActsAlone
  <1>3. Grows
    BY <1>1, <1>2, GrowsFrom DEF Sound
  <1>4. AddonsTypeOK'
    BY <1>1, TypesFrom, TypesAre DEF Sound
  <1> QED BY <1>1, <1>2, <1>3, <1>4

LEMMA HasStored ==
  ASSUME Sound, NEW c \in Callers, IsMinio(c), request[c].at \in {"secret", "helm", "restart", "profile"}
  PROVE  Resolvable(c) /\ vault[c].key # "none" /\ vault[c].key \in Keys
  <1>1. Resolvable(c)
    BY DEF Sound, AddonsInvariant, RequestHasStored
  <1> QED BY <1>1, AddonTypeFacts DEF Resolvable, Sound

LEMMA MinioTypes ==
  ASSUME Sound
  PROVE  /\ Restarted \in [release : BOOLEAN, secret : Keys, running : Keys]
         /\ Restarted.secret = minio.secret /\ Restarted.release = minio.release /\ Restarted.running = minio.secret
         /\ InstalledMinio \in [release : BOOLEAN, secret : Keys, running : Keys]
         /\ InstalledMinio.secret = minio.secret /\ InstalledMinio.release = TRUE
         /\ minio.release => InstalledMinio.running = minio.running
         /\ \A key \in Keys : /\ [minio EXCEPT !.secret = key] \in [release : BOOLEAN, secret : Keys, running : Keys]
                              /\ [minio EXCEPT !.secret = key].secret = key
                              /\ [minio EXCEPT !.secret = key].release = minio.release
                              /\ [minio EXCEPT !.secret = key].running = minio.running
  BY TypesAre DEF Sound, Restarted, InstalledMinio

LEMMA PutMinioSecretFacts ==
  ASSUME Sound, NEW c \in Callers, PutMinioSecret(c)
  PROVE  /\ AddonsTypeOK' /\ Grows /\ ActsAlone(c)
         /\ request[c].op = "bootstrap" /\ request[c].at = "secret" /\ request'[c].at = "helm"
         /\ minio'.secret = vault[c].key /\ minio'.release = minio.release
  <1> USE DEF PutMinioSecret, At
  <1>1. vault[c].key # "none" /\ vault[c].key \in Keys
    BY HasStored DEF IsMinio, MinioOps
  <1>2. /\ minio' \in [release : BOOLEAN, secret : Keys, running : Keys]
        /\ minio'.secret = vault[c].key /\ minio'.release = minio.release
    BY <1>1, MinioTypes
  <1>3. "helm" \in Moments /\ request[c].at \notin SavedMoments
    BY DEF Moments, Calls, SavedMoments, EndsOfRequests
  <1> QED BY <1>1, <1>2, <1>3, ClusterFacts, TypesAre DEF Sound

LEMMA InstallMinioFacts ==
  ASSUME Sound, NEW c \in Callers, InstallMinio(c)
  PROVE  /\ AddonsTypeOK' /\ Grows /\ ActsAlone(c)
         /\ request[c].op = "bootstrap" /\ request[c].at = "helm" /\ request'[c].at = "restart"
         /\ minio' = InstalledMinio
  <1> USE DEF InstallMinio, At
  <1>1. "restart" \in Moments /\ request[c].at \notin SavedMoments
    BY DEF Moments, Calls, SavedMoments, EndsOfRequests
  <1> QED BY <1>1, MinioTypes, ClusterFacts, TypesAre DEF Sound

LEMMA RestartMinioFacts ==
  ASSUME Sound, NEW c \in Callers, RestartMinio(c)
  PROVE  /\ AddonsTypeOK' /\ Grows /\ ActsAlone(c)
         /\ request[c].op = "bootstrap" /\ request[c].at = "restart" /\ request'[c].at = "profile"
         /\ minio' = Restarted
  <1> USE DEF RestartMinio, At
  <1>1. "profile" \in Moments /\ request[c].at \notin SavedMoments
    BY DEF Moments, Calls, SavedMoments, EndsOfRequests
  <1> QED BY <1>1, MinioTypes, ClusterFacts, TypesAre DEF Sound

LEMMA ReloadCredentialFacts ==
  ASSUME Sound, NEW c \in Callers, ReloadCredential(c)
  PROVE  /\ AddonsTypeOK' /\ Grows /\ ActsAlone(c)
         /\ request[c].op = "adopt" /\ request[c].at = "restart"
         /\ request'[c].at \in {"profile", "unstoring"}
         /\ minio' \in {minio, Restarted}
  <1> USE DEF ReloadCredential, At
  <1>1. PICK a \in {"profile", "unstoring"} : Goes(c, a)
    OBVIOUS
  <1>2. a \in Moments /\ request[c].at \notin SavedMoments
    BY DEF Moments, Calls, SavedMoments, EndsOfRequests
  <1>3. minio' \in {minio, Restarted}
    OBVIOUS
  <1>4. minio' \in [release : BOOLEAN, secret : Keys, running : Keys] /\ minio'.secret = minio.secret
    BY <1>3, MinioTypes, TypesAre DEF Sound
  <1> QED BY <1>1, <1>2, <1>3, <1>4, ClusterFacts, TypesAre DEF Sound

LEMMA SaveProfileFacts ==
  ASSUME Sound, NEW c \in Callers, SaveProfile(c)
  PROVE  /\ AddonsTypeOK' /\ Grows /\ ActsAlone(c) /\ IsMinio(c)
         /\ request[c].at = "profile"
         /\ request'[c].at = IF request[c].op = "external" THEN "ok" ELSE "ready"
         /\ profiles' = profiles \cup {[id |-> request[c].profile, credential |-> c, place |-> request[c].place,
                   name |-> request[c].name]}
         /\ ~IsStored(request[c].profile) /\ Probe(request[c].place, vault[c].key)
         /\ request[c].profile \in Callers
  <1> DEFINE a == IF request[c].op = "external" THEN "ok" ELSE "ready"
             p == [id |-> request[c].profile, credential |-> c, place |-> request[c].place,
                   name |-> request[c].name]
  <1> USE DEF SaveProfile
  <1>1. IsMinio(c) /\ a \in Moments /\ a \in SavedMoments
    BY FitFacts DEF Moments, Calls, SavedMoments, EndsOfRequests
  <1>2. /\ request' \in [Callers -> RequestType] /\ request'[c].at = a /\ IsSame(c)
        /\ \A d \in Callers : d # c => request'[d] = request[d]
    BY <1>1, GoesFacts DEF Sound
  <1>3. profiles' = profiles \cup {p}
    BY DEF CreateProfile, PlaceOf
  <1>4. request[c].profile \in Callers
    BY <1>1, RequestedFacts DEF IsMinio, MinioOps, ManagedIds, IsManagedRequest
  <1>5. request[c].place \in Places /\ request[c].name \in Names
    BY TypesAre DEF Sound, RequestType
  <1>6. p \in [id : Ids, credential : Ids, place : Places, name : Names]
    BY <1>4, <1>5, AddonTypeFacts DEF Sound
  <1>7. ActsAlone(c)
    BY <1>2 DEF ActsAlone
  <1>8. Grows
    BY <1>1, <1>2, <1>3, <1>7, GrowsFrom DEF Sound, clusterVars
  <1>9. profiles' \subseteq [id : Ids, credential : Ids, place : Places, name : Names]
    BY <1>3, <1>6, TypesAre DEF Sound
  <1>10. AddonsTypeOK'
    BY <1>2, <1>9, TypesFrom, TypesAre DEF Sound, clusterVars
  <1>11. ~IsStored(request[c].profile) /\ Probe(request[c].place, vault[c].key)
    BY DEF Passes, CanCreateProfile, PlaceOf
  <1> QED BY <1>1, <1>2, <1>3, <1>4, <1>7, <1>8, <1>10, <1>11

LEMMA TestProfileFacts ==
  ASSUME Sound, NEW c \in Callers, TestProfile(c)
  PROVE  /\ AddonsTypeOK' /\ Grows /\ ActsAlone(c)
         /\ request[c].op = "adopt" /\ request[c].at = "test" /\ request'[c].at \in {"ok", "ready"}
         /\ Resolvable(ProfileOf(request[c].profile).credential)
         /\ UNCHANGED <<tableVars, clusterVars, masterKey, overlapped>>
  <1> USE DEF TestProfile, At
  <1>1. PICK a \in {"ok", "ready"} : Goes(c, a)
    OBVIOUS
  <1>2. a \in Moments /\ request[c].at \notin SavedMoments
    BY DEF Moments, Calls, SavedMoments, EndsOfRequests
  <1>3. UNCHANGED <<minio, velero>>
    BY DEF clusterVars
  <1>4. AddonsTypeOK' /\ Grows /\ ActsAlone(c) /\ request'[c].at = a
    BY <1>1, <1>2, <1>3, ClusterFacts, TypesAre DEF Sound
  <1>5. Resolvable(ProfileOf(request[c].profile).credential)
    BY DEF Passes
  <1> QED BY <1>4, <1>5

LEMMA MarkReadyFacts ==
  ASSUME Sound, NEW c \in Callers, MarkReady(c)
  PROVE  /\ AddonsTypeOK' /\ Grows /\ ActsAlone(c)
         /\ request[c].op \in {"bootstrap", "adopt", "install", "reuse"}
         /\ request[c].at = "ready" /\ request'[c].at = "ok"
         /\ \A t \in AddonTypes : t # AddonOf(request[c].op) => rows'[t] = rows[t]
         /\ rows'[AddonOf(request[c].op)].status = "READY"
         /\ rows'[AddonOf(request[c].op)].profile = request[c].profile
         /\ request[c].op \in {"bootstrap", "adopt"} => velero' = velero
         /\ velero'.server = velero.server /\ velero'.secret = velero.secret /\ velero'.location = velero.location
  <1> DEFINE t == AddonOf(request[c].op)
  <1> USE DEF MarkReady
  <1>1. request[c].op \in {"bootstrap", "adopt", "install", "reuse"} /\ StatusOf(c) = "READY"
    <2>1. CanUpsert(c, StatusOf(c))
      BY DEF Passes
    <2>2. request[c].op # "uninstall"
      BY <2>1 DEF CanUpsert, StatusOf, AllowedStatuses
    <2> QED BY <2>2, FitFacts DEF StatusOf
  <1>2. t \in AddonTypes /\ "ok" \in Moments /\ "READY" \in Statuses /\ "ok" \in SavedMoments
    BY <1>1 DEF AddonOf, AddonTypes, Moments, EndsOfRequests, Statuses, SavedMoments
  <1>3. /\ request' \in [Callers -> RequestType] /\ request'[c].at = "ok" /\ IsSame(c)
        /\ \A d \in Callers : d # c => request'[d] = request[d]
    BY <1>2, GoesFacts DEF Sound
  <1>4. request[c].profile \in Ids \cup {"none"} /\ IsManaging(c) \in BOOLEAN
    BY RequestedFacts DEF IsManaging
  <1>5. /\ rows' \in [AddonTypes -> RowType]
        /\ \A u \in AddonTypes : u # t => rows'[u] = rows[u]
        /\ rows'[t].status = "READY" /\ rows'[t].profile = request[c].profile
    BY <1>1, <1>2, <1>4, UpsertFacts DEF Sound
  <1>6. /\ velero' \in [server : {"none", "managed", "foreign"}, secret : Keys, location : Ids \cup {"none"},
                        available : BOOLEAN, unrecorded : BOOLEAN]
        /\ velero'.server = velero.server /\ velero'.secret = velero.secret /\ velero'.location = velero.location
        /\ request[c].op \in {"bootstrap", "adopt"} => velero' = velero
    BY TypesAre DEF Sound, AddonOf, VeleroOps
  <1>7. ActsAlone(c)
    BY <1>3 DEF ActsAlone
  <1>8. Grows
    BY <1>2, <1>3, <1>7, GrowsFrom DEF Sound
  <1>9. AddonsTypeOK'
    BY <1>3, <1>5, <1>6, TypesFrom, TypesAre DEF Sound
  <1> QED BY <1>1, <1>3, <1>5, <1>6, <1>7, <1>8, <1>9

VeleroType ==
  [server : {"none", "managed", "foreign"}, secret : Keys, location : Ids \cup {"none"},
   available : BOOLEAN, unrecorded : BOOLEAN]

\* How a change of some fields leaves the others.
LEMMA VeleroTypes ==
  ASSUME Sound, NEW server \in {"none", "managed", "foreign"}, NEW secret \in Keys,
         NEW location \in Ids \cup {"none"}, NEW unrecorded \in BOOLEAN
  PROVE  /\ LET v == [velero EXCEPT !.secret = secret, !.unrecorded = unrecorded]
            IN /\ v \in VeleroType /\ v.server = velero.server /\ v.secret = secret
               /\ v.location = velero.location /\ v.unrecorded = unrecorded
         /\ LET v == [velero EXCEPT !.server = server]
            IN /\ v \in VeleroType /\ v.server = server /\ v.secret = velero.secret
               /\ v.location = velero.location /\ v.unrecorded = velero.unrecorded
         /\ LET v == [velero EXCEPT !.server = server, !.unrecorded = unrecorded]
            IN /\ v \in VeleroType /\ v.server = server /\ v.secret = velero.secret
               /\ v.location = velero.location /\ v.unrecorded = unrecorded
         /\ LET v == [velero EXCEPT !.location = location]
            IN /\ v \in VeleroType /\ v.server = velero.server /\ v.secret = velero.secret
               /\ v.location = location /\ v.unrecorded = velero.unrecorded
  <1>1. velero \in VeleroType
    BY TypesAre DEF Sound, VeleroType
  <1>2. LET v == [velero EXCEPT !.secret = secret, !.unrecorded = unrecorded]
        IN /\ v \in VeleroType /\ v.server = velero.server /\ v.secret = secret
           /\ v.location = velero.location /\ v.unrecorded = unrecorded
    BY <1>1 DEF VeleroType
  <1>3. LET v == [velero EXCEPT !.server = server]
        IN /\ v \in VeleroType /\ v.server = server /\ v.secret = velero.secret
           /\ v.location = velero.location /\ v.unrecorded = velero.unrecorded
    BY <1>1 DEF VeleroType
  <1>4. LET v == [velero EXCEPT !.server = server, !.unrecorded = unrecorded]
        IN /\ v \in VeleroType /\ v.server = server /\ v.secret = velero.secret
           /\ v.location = velero.location /\ v.unrecorded = unrecorded
    BY <1>1 DEF VeleroType
  <1>5. LET v == [velero EXCEPT !.location = location]
        IN /\ v \in VeleroType /\ v.server = velero.server /\ v.secret = velero.secret
           /\ v.location = location /\ v.unrecorded = velero.unrecorded
    BY <1>1 DEF VeleroType
  <1> QED BY <1>2, <1>3, <1>4, <1>5

LEMMA PutVeleroSecretFacts ==
  ASSUME Sound, NEW c \in Callers, PutVeleroSecret(c)
  PROVE  /\ AddonsTypeOK' /\ Grows /\ ActsAlone(c)
         /\ request[c].op \in {"install", "reuse"} /\ request[c].at = "secret"
         /\ request'[c].at = IF request[c].op = "install" THEN "helm" ELSE "location"
         /\ velero'.secret = KeyOf(ProfileOf(request[c].profile))
         /\ velero'.unrecorded = (velero.unrecorded \/ request[c].op = "reuse")
         /\ velero'.server = velero.server /\ velero'.location = velero.location
         /\ request[c].op = "reuse" => velero.server # "none"
  <1> DEFINE a == IF request[c].op = "install" THEN "helm" ELSE "location"
             key == KeyOf(ProfileOf(request[c].profile))
             u == velero.unrecorded \/ request[c].op = "reuse"
  <1> USE DEF PutVeleroSecret
  <1>1. a \in Moments /\ request[c].at \notin SavedMoments
    BY DEF Moments, Calls, SavedMoments, EndsOfRequests
  <1>2. ProfileOf(request[c].profile) \in profiles
    BY RequestedFacts
  <1>3. key \in Keys
    BY <1>2, AddonTypeFacts DEF Sound, KeyOf
  <1>4. u \in BOOLEAN /\ velero' = [velero EXCEPT !.secret = key, !.unrecorded = u]
    BY TypesAre DEF Sound
  <1> HIDE DEF key, u
  <1>5. /\ velero' \in VeleroType /\ velero'.server = velero.server /\ velero'.secret = key
        /\ velero'.location = velero.location /\ velero'.unrecorded = u
    <2>1. CASE u = TRUE
      <3>1. velero' = [velero EXCEPT !.secret = key, !.unrecorded = TRUE]
        BY <1>4, <2>1
      <3> QED BY <1>3, <2>1, <3>1, TypesAre DEF Sound, VeleroType
    <2>2. CASE u = FALSE
      <3>1. velero' = [velero EXCEPT !.secret = key, !.unrecorded = FALSE]
        BY <1>4, <2>2
      <3> QED BY <1>3, <2>2, <3>1, TypesAre DEF Sound, VeleroType
    <2> QED BY <1>4, <2>1, <2>2
  <1>7. request[c].op = "reuse" => velero.server # "none"
    BY DEF Passes
  <1>8. Goes(c, a) /\ UNCHANGED <<tableVars, minio, masterKey, overlapped>>
    OBVIOUS
  <1> HIDE DEF a
  <1>9. AddonsTypeOK' /\ Grows /\ ActsAlone(c) /\ request'[c].at = a
    BY <1>1, <1>5, <1>8, ClusterFacts, TypesAre DEF Sound, VeleroType
  <1> QED BY <1>5, <1>7, <1>9 DEF a, key, u

LEMMA InstallVeleroFacts ==
  ASSUME Sound, NEW c \in Callers, InstallVelero(c)
  PROVE  /\ AddonsTypeOK' /\ Grows /\ ActsAlone(c)
         /\ request[c].op = "install" /\ request[c].at = "helm" /\ request'[c].at = "location"
         /\ velero'.server = "managed" /\ velero'.secret = velero.secret /\ velero'.location = velero.location
         /\ velero'.unrecorded = velero.unrecorded
  <1> USE DEF InstallVelero, At
  <1>1. "location" \in Moments /\ request[c].at \notin SavedMoments
    BY DEF Moments, Calls, SavedMoments, EndsOfRequests
  <1>2. /\ velero' \in VeleroType /\ velero'.server = "managed" /\ velero'.secret = velero.secret
        /\ velero'.location = velero.location /\ velero'.unrecorded = velero.unrecorded
    BY VeleroTypes, TypesAre DEF Sound
  <1> QED BY <1>1, <1>2, ClusterFacts, TypesAre DEF Sound, VeleroType

LEMMA EnsureLocationFacts ==
  ASSUME Sound, NEW c \in Callers, EnsureBackupStorageLocation(c)
  PROVE  /\ AddonsTypeOK' /\ Grows /\ ActsAlone(c)
         /\ request[c].op \in {"install", "reuse"} /\ request[c].at = "location" /\ request'[c].at = "wait"
         /\ velero'.location = request[c].profile
         /\ velero'.server = velero.server /\ velero'.secret = velero.secret
         /\ velero'.unrecorded = velero.unrecorded
  <1> USE DEF EnsureBackupStorageLocation, Ensured
  <1>1. "wait" \in Moments /\ request[c].at \notin SavedMoments
    BY DEF Moments, Calls, SavedMoments, EndsOfRequests
  <1>2. request[c].profile \in Ids \cup {"none"}
    BY RequestedFacts
  <1>3. /\ velero' \in VeleroType /\ velero'.server = velero.server /\ velero'.secret = velero.secret
        /\ velero'.location = request[c].profile /\ velero'.unrecorded = velero.unrecorded
    <2>1. velero \in VeleroType
      BY TypesAre DEF Sound, VeleroType
    <2> DEFINE a == velero.available /\ velero.location # "none"
    <2>2. a \in BOOLEAN /\ velero' = [velero EXCEPT !.location = request[c].profile, !.available = a]
      BY <2>1 DEF VeleroType
    <2> HIDE DEF a
    <2> QED BY <1>2, <2>1, <2>2 DEF VeleroType
  <1>4. request[c].op \in {"install", "reuse"}
    BY FitFacts
  <1> QED BY <1>1, <1>3, <1>4, ClusterFacts, TypesAre DEF Sound, VeleroType

LEMMA WaitForLocationFacts ==
  ASSUME Sound, NEW c \in Callers, WaitForLocation(c)
  PROVE  /\ AddonsTypeOK' /\ Grows /\ ActsAlone(c)
         /\ request[c].op \in {"install", "reuse"} /\ request[c].at = "wait" /\ request'[c].at = "ready"
         /\ UNCHANGED <<tableVars, clusterVars, masterKey, overlapped>>
  <1> USE DEF WaitForLocation
  <1>1. "ready" \in Moments /\ request[c].at \notin SavedMoments
    BY DEF Moments, Calls, SavedMoments, EndsOfRequests
  <1>2. request[c].op \in {"install", "reuse"}
    BY FitFacts
  <1>3. UNCHANGED <<minio, velero>>
    BY DEF clusterVars
  <1> QED BY <1>1, <1>2, <1>3, ClusterFacts, TypesAre DEF Sound

LEMMA UninstallVeleroFacts ==
  ASSUME Sound, NEW c \in Callers, UninstallVelero(c)
  PROVE  /\ AddonsTypeOK' /\ Grows /\ ActsAlone(c)
         /\ request[c].op = "uninstall" /\ request[c].at = "helm" /\ request'[c].at = "ready"
         /\ velero'.server = "none" /\ velero'.unrecorded
         /\ velero'.secret = velero.secret /\ velero'.location = velero.location
  <1> USE DEF UninstallVelero, At
  <1>1. "ready" \in Moments /\ request[c].at \notin SavedMoments
    BY DEF Moments, Calls, SavedMoments, EndsOfRequests
  <1>2. /\ velero' \in VeleroType /\ velero'.server = "none" /\ velero'.secret = velero.secret
        /\ velero'.location = velero.location /\ velero'.unrecorded
    BY VeleroTypes, TypesAre DEF Sound
  <1> QED BY <1>1, <1>2, ClusterFacts, TypesAre DEF Sound, VeleroType

LEMMA CallFailsFacts ==
  ASSUME Sound, NEW c \in Callers, CallFails(c)
  PROVE  /\ AddonsTypeOK' /\ Grows /\ ActsAlone(c)
         /\ Executing(c) /\ request'[c].at \in {"failing", "unstoring", "failed"}
         /\ request'[c].at = "failing" => RecordsFailure(c)
         /\ request'[c].at = "unstoring" => RemovesCredential(c)
         /\ UNCHANGED <<tableVars, clusterVars, masterKey, overlapped>>
  <1> USE DEF CallFails
  <1> DEFINE a == AfterFailure(c)
  <1>1. /\ a \in {"failing", "unstoring", "failed"}
        /\ a = "failing" => RecordsFailure(c)
        /\ a = "unstoring" => RemovesCredential(c)
    BY DEF AfterFailure
  <1>2. Goes(c, a)
    OBVIOUS
  <1> HIDE DEF a
  <1>3. a \in Moments
    BY <1>1 DEF Moments, Calls, EndsOfRequests
  <1>4. IsMinio(c) /\ request[c].at \in SavedMoments => a \in SavedMoments
    BY <1>1 DEF IsMinio, MinioOps, SavedMoments, EndsOfRequests, RecordsFailure
  <1>5. UNCHANGED <<minio, velero>>
    BY DEF clusterVars
  <1>6. AddonsTypeOK' /\ Grows /\ ActsAlone(c) /\ request'[c].at = a
    BY <1>2, <1>3, <1>4, <1>5, ClusterFacts, TypesAre DEF Sound
  <1> QED BY <1>1, <1>6

LEMMA CrashFacts ==
  ASSUME Sound, ApiCrashes
  PROVE  /\ AddonsTypeOK' /\ Grows
         /\ \A c \in Callers : IsSame(c) /\ request'[c].at = IF Executing(c) THEN "failed" ELSE request[c].at
         /\ \A c \in Callers : ~Executing(c) => request'[c] = request[c]
         /\ UNCHANGED <<tableVars, clusterVars, masterKey, overlapped>>
  <1> USE DEF ApiCrashes
  <1>1. request \in [Callers -> RequestType]
    BY TypesAre DEF Sound
  <1>2. ASSUME NEW c \in Callers
        PROVE  /\ request'[c] \in RequestType
               /\ IsSame(c) /\ request'[c].at = IF Executing(c) THEN "failed" ELSE request[c].at
               /\ ~Executing(c) => request'[c] = request[c]
    <2>1. CASE Executing(c)
      <3>1. request'[c] = [request[c] EXCEPT !.at = "failed"]
        BY <2>1
      <3>2. request[c] \in RequestType /\ "failed" \in Moments
        BY <1>1 DEF Moments, EndsOfRequests
      <3> QED BY <2>1, <3>1, <3>2 DEF RequestType, IsSame
    <2>2. CASE ~Executing(c)
      BY <1>1, <2>2 DEF IsSame
    <2> QED BY <2>1, <2>2
  <1>3. request' \in [Callers -> RequestType]
    <2>1. request' = [d \in Callers |-> request'[d]]
      OBVIOUS
    <2> QED BY <1>2, <2>1
  <1>4. AddonsTypeOK'
    BY <1>3, TypesFrom, TypesAre DEF Sound, tableVars, clusterVars
  <1>5. Grows
    BY <1>2 DEF Grows, SavedMoments, EndsOfRequests, tableVars, clusterVars
  <1> QED BY <1>2, <1>4, <1>5

\* A request begins, and nothing else happens.
Begins(c, op, a, profile, place, name) ==
  Begin(c, op, a, profile, place, name) /\ UNCHANGED <<tableVars, clusterVars, masterKey>>

LEMMA BeginsFacts ==
  ASSUME Sound, NEW c \in Callers, NEW op \in Operations, NEW a \in Calls,
         NEW profile \in Ids \cup {"none"}, NEW place \in Places, NEW name \in Names,
         Begins(c, op, a, profile, place, name)
  PROVE  /\ AddonsTypeOK' /\ Grows
         /\ request[c].op = "none" /\ request[c].at = "unused"
         /\ request'[c].op = op /\ request'[c].at = a /\ request'[c].profile = profile
         /\ request'[c].place = place
         /\ \A d \in Callers : d # c => request'[d] = request[d]
         /\ AddonOf(op) \notin overlapped' => ~Meets(c, op)
         /\ UNCHANGED <<tableVars, clusterVars, masterKey>>
  <1> USE DEF Begins, tableVars, clusterVars
  <1>1. /\ request[c].at = "unused"
        /\ request' \in [Callers -> RequestType]
        /\ request'[c].op = op /\ request'[c].at = a /\ request'[c].profile = profile
        /\ request'[c].place = place
        /\ \A d \in Callers : d # c => request'[d] = request[d]
        /\ overlapped' = overlapped \/ overlapped' = overlapped \cup {AddonOf(op)}
        /\ AddonOf(op) \notin overlapped' => ~Meets(c, op)
        /\ overlapped' \subseteq AddonTypes
    BY BeginFacts DEF Sound
  <1>2. request[c].op = "none"
    BY <1>1, FitFacts
  <1>3. AddonsTypeOK'
    BY <1>1, TypesFrom, TypesAre DEF Sound
  <1>4. \A d \in Callers : request[d].op # "none" => IsSame(d) /\ request'[d] = request[d]
    BY <1>1, <1>2 DEF IsSame
  <1>5. overlapped \subseteq overlapped'
    BY <1>1
  <1>6. Grows
    BY <1>4, <1>5 DEF Grows, IsMinio, MinioOps
  <1> QED BY <1>1, <1>2, <1>3, <1>6

\* What Velero has, whatever its status tells.
KeepsVelero ==
  /\ velero'.server = velero.server /\ velero'.secret = velero.secret
  /\ velero'.location = velero.location /\ velero'.unrecorded = velero.unrecorded

\* A step that no request makes.
Rests == UNCHANGED <<vault, profiles, request, overlapped>> /\ KeepsVelero

LEMMA RestsGrows ==
  ASSUME Sound, Rests, masterKey # "none" => masterKey' = masterKey,
         minio.secret # "none" => minio'.secret # "none"
  PROVE  Grows
  BY DEF Rests, Grows, IsSame

LEMMA EnvironmentFacts ==
  ASSUME Sound,
         \/ CreateEnvironment \/ DeleteEnvironment
         \/ TestConnection("CONNECTED") \/ TestConnection("DISCONNECTED")
         \/ RefreshCapabilities("CONNECTED") \/ RefreshCapabilities("ERROR")
  PROVE  /\ AddonsTypeOK' /\ Grows
         /\ rows' = rows \/ rows' = [type \in AddonTypes |-> NoRow]
         /\ Rests /\ UNCHANGED <<minio, masterKey>>
  <1> DEFINE EnvironmentType == [version : 0..MaxEnvironments,
                   status : {"absent", "PENDING", "CONNECTED", "DISCONNECTED", "ERROR"}]
  <1>1. Rests /\ UNCHANGED <<minio, velero, masterKey>>
    BY DEF CreateEnvironment, DeleteEnvironment, TestConnection, RefreshCapabilities, Rests, KeepsVelero, clusterVars
  <1>2. rows' = rows \/ rows' = [type \in AddonTypes |-> NoRow]
    BY DEF CreateEnvironment, DeleteEnvironment, TestConnection, RefreshCapabilities
  <1>3. environment' \in EnvironmentType
    <2>1. environment \in EnvironmentType
      BY TypesAre DEF Sound
    <2>2. CASE CreateEnvironment
      <3>1. environment.version \in 0..MaxEnvironments /\ environment.version < MaxEnvironments
        BY <2>1, <2>2 DEF CreateEnvironment
      <3>2. environment.version + 1 \in 0..MaxEnvironments
        BY <3>1, AddonAssumption
      <3> QED BY <2>2, <3>2 DEF CreateEnvironment
    <2>3. CASE ~CreateEnvironment
      BY <2>1, <2>3 DEF DeleteEnvironment, TestConnection, RefreshCapabilities
    <2> QED BY <2>2, <2>3
  <1>4. rows' \in [AddonTypes -> RowType]
    <2>1. NoRow \in RowType
      BY DEF NoRow, RowType
    <2> QED BY <1>2, <2>1, TypesAre DEF Sound
  <1>5. AddonsTypeOK'
    BY <1>1, <1>3, <1>4, TypesFrom, TypesAre DEF Sound, Rests
  <1>6. Grows
    BY <1>1, RestsGrows
  <1> QED BY <1>1, <1>2, <1>5, <1>6

LEMMA PodRestartsFacts ==
  ASSUME Sound, PodRestarts
  PROVE  AddonsTypeOK' /\ Grows /\ Rests /\ UNCHANGED <<rows, masterKey>> /\ minio' = Restarted
  <1> USE DEF PodRestarts, tableVars
  <1>1. Rests
    BY DEF Rests, KeepsVelero
  <1>2. Grows
    BY <1>1, MinioTypes, RestsGrows
  <1>3. AddonsTypeOK'
    BY MinioTypes, TypesFrom, TypesAre DEF Sound
  <1> QED BY <1>1, <1>2, <1>3

LEMMA ValidatesFacts ==
  ASSUME Sound, VeleroValidates
  PROVE  AddonsTypeOK' /\ Grows /\ Rests /\ UNCHANGED <<rows, minio, masterKey>>
  <1> USE DEF VeleroValidates, tableVars
  <1>1. velero' \in VeleroType /\ KeepsVelero
    <2>1. LocationWorks \in BOOLEAN
      BY DEF LocationWorks
    <2> QED BY <2>1, TypesAre DEF Sound, VeleroType, KeepsVelero
  <1>2. Rests
    BY <1>1 DEF Rests
  <1>3. Grows
    BY <1>2, RestsGrows
  <1>4. AddonsTypeOK'
    BY <1>1, TypesFrom, TypesAre DEF Sound, VeleroType
  <1> QED BY <1>2, <1>3, <1>4

LEMMA ApplicationSecretFacts ==
  ASSUME Sound, EnsureApplicationSecret
  PROVE  /\ AddonsTypeOK' /\ Grows /\ Rests /\ UNCHANGED <<rows, minio>>
         /\ masterKey # "none" => masterKey' = masterKey
         /\ masterKey' # "none"
  <1> USE DEF EnsureApplicationSecret, tableVars, clusterVars
  <1>1. deploy.attempt \in Attempts
    BY DEF Sound, AddonsInvariant, DeployIsSound, IsRunning
  <1>2. masterKey' \in MasterKeys /\ masterKey' # "none" /\ (masterKey # "none" => masterKey' = masterKey)
    BY <1>1, PlatformAssumption, AddonTypeFacts DEF KeptMasterKey, Sound, MasterKeys
  <1>3. Rests
    BY DEF Rests, KeepsVelero
  <1>4. Grows
    BY <1>2, <1>3, RestsGrows
  <1>5. AddonsTypeOK'
    BY <1>2, TypesFrom, TypesAre DEF Sound
  <1> QED BY <1>2, <1>3, <1>4, <1>5

LEMMA DefaultMinioFacts ==
  ASSUME Sound, EnsureDefaultMinIO
  PROVE  /\ AddonsTypeOK' /\ Grows /\ Rests /\ UNCHANGED <<rows, masterKey>>
         /\ minio'.release = minio.release /\ minio'.running = minio.running /\ minio'.secret # "none"
         /\ minio.secret # "none" => minio'.secret = minio.secret
  <1> USE DEF EnsureDefaultMinIO, tableVars
  <1> DEFINE key == IF minio.secret = "none" THEN deploy.attempt ELSE minio.secret
  <1>1. deploy.attempt \in Attempts
    BY DEF Sound, AddonsInvariant, DeployIsSound, IsRunning
  <1>2. key \in Keys /\ key # "none" /\ (minio.secret # "none" => key = minio.secret)
    BY <1>1, PlatformAssumption, AddonTypeFacts DEF Sound, Keys
  <1>3. minio' = [minio EXCEPT !.secret = key]
    OBVIOUS
  <1> HIDE DEF key
  <1>4. /\ minio' \in [release : BOOLEAN, secret : Keys, running : Keys]
        /\ minio'.secret = key /\ minio'.release = minio.release /\ minio'.running = minio.running
    BY <1>2, <1>3, MinioTypes
  <1>5. Rests
    BY DEF Rests, KeepsVelero
  <1>6. Grows
    BY <1>2, <1>4, <1>5, RestsGrows
  <1>7. AddonsTypeOK'
    BY <1>4, TypesFrom, TypesAre DEF Sound
  <1> QED BY <1>2, <1>4, <1>5, <1>6, <1>7

LEMMA InstallDefaultFacts ==
  ASSUME Sound, InstallDefaultMinIO
  PROVE  AddonsTypeOK' /\ Grows /\ Rests /\ UNCHANGED <<rows, masterKey>> /\ minio' = InstalledMinio
  <1> USE DEF InstallDefaultMinIO, tableVars
  <1>1. Rests
    BY DEF Rests, KeepsVelero
  <1>2. Grows
    BY <1>1, MinioTypes, RestsGrows
  <1>3. AddonsTypeOK'
    BY MinioTypes, TypesFrom, TypesAre DEF Sound
  <1> QED BY <1>1, <1>2, <1>3

(***************************************************************************)
(* What the steps have in common.                                          *)
(***************************************************************************)
LEMMA RequestStepFacts ==
  ASSUME Sound, NEW c \in Callers, RequestStep(c)
  PROVE  /\ AddonsTypeOK' /\ Grows /\ ActsAlone(c)
         /\ UNCHANGED <<environment, masterKey, overlapped>>
         /\ Executing(c) /\ request[c].op # "none"
         /\ request'[c].at \in CallsOf(request[c].op) \cup EndsOfRequests
         /\ request'[c].at # "test"
  <1> USE DEF Executing, Calls, CallsOf, EndsOfRequests, tableVars
  <1>1. CASE RecordFailure(c)
    BY <1>1, RecordFailureFacts DEF RecordFailure
  <1>2. CASE RemoveCredential(c)
    BY <1>2, RemoveCredentialFacts DEF RemoveCredential
  <1>3. CASE MarkInstalling(c)
    BY <1>3, MarkInstallingFacts DEF MarkInstalling
  <1>4. CASE StoreCredential(c)
    BY <1>4, StoreCredentialFacts DEF StoreCredential, IsMinio, MinioOps
  <1>5. CASE PutMinioSecret(c)
    BY <1>5, PutMinioSecretFacts DEF PutMinioSecret
  <1>6. CASE InstallMinio(c)
    BY <1>6, InstallMinioFacts DEF InstallMinio
  <1>7. CASE RestartMinio(c)
    BY <1>7, RestartMinioFacts DEF RestartMinio
  <1>8. CASE ReloadCredential(c)
    BY <1>8, ReloadCredentialFacts DEF ReloadCredential
  <1>9. CASE SaveProfile(c)
    BY <1>9, SaveProfileFacts DEF SaveProfile, IsMinio, MinioOps
  <1>10. CASE TestProfile(c)
    BY <1>10, TestProfileFacts DEF TestProfile
  <1>11. CASE MarkReady(c)
    BY <1>11, MarkReadyFacts DEF MarkReady
  <1>12. CASE PutVeleroSecret(c)
    BY <1>12, PutVeleroSecretFacts DEF PutVeleroSecret
  <1>13. CASE InstallVelero(c)
    BY <1>13, InstallVeleroFacts DEF InstallVelero
  <1>14. CASE EnsureBackupStorageLocation(c)
    BY <1>14, EnsureLocationFacts DEF EnsureBackupStorageLocation
  <1>15. CASE WaitForLocation(c)
    BY <1>15, WaitForLocationFacts DEF WaitForLocation
  <1>16. CASE UninstallVelero(c)
    BY <1>16, UninstallVeleroFacts DEF UninstallVelero
  <1> QED BY <1>1, <1>2, <1>3, <1>4, <1>5, <1>6, <1>7, <1>8, <1>9, <1>10, <1>11, <1>12, <1>13, <1>14, <1>15,
             <1>16 DEF RequestStep

\* A request begins, with whatever it may be asked for.
Asks(c) ==
  \/ \E name \in Names : \/ Bootstrap(c, name) \/ Adopt(c, name)
                         \/ \E place \in Stored : ConnectExternal(c, place, name)
  \/ (\E profile \in Ids : Install(c, profile) \/ Reuse(c, profile)) \/ Uninstall(c)

FirstCall(c) ==
  LET op == request'[c].op
      at == request'[c].at
      profile == request'[c].profile
  IN \/ /\ op = "bootstrap" /\ at = "upsert" /\ profile = c /\ request'[c].place = "managed" /\ CanBootstrap
     \/ /\ op = "adopt" /\ profile = ProfileIdFromInstallation(c) /\ request'[c].place = "managed" /\ CanAdopt
        /\ at = IF IsStored(profile) THEN "test" ELSE "store"
     \/ op = "external" /\ at = "store" /\ profile = c
     \/ op = "install" /\ at = "upsert" /\ IsStored(profile)
     \/ op = "reuse" /\ at = "secret" /\ IsStored(profile)
     \/ op = "uninstall" /\ at = "helm"

AsksAlone(c) ==
  /\ request[c].op = "none" /\ request[c].at = "unused"
  /\ \A d \in Callers : d # c => request'[d] = request[d]
  /\ AddonOf(request'[c].op) \notin overlapped' => ~Meets(c, request'[c].op)
  /\ UNCHANGED <<tableVars, clusterVars, masterKey>>

LEMMA AsksFacts ==
  ASSUME Sound, NEW c \in Callers, Asks(c)
  PROVE  AddonsTypeOK' /\ Grows /\ AsksAlone(c) /\ FirstCall(c)
  <1> USE DEF Operations, MinioOps, VeleroOps, Calls, Begins, AsksAlone, FirstCall
  <1>1. /\ c \in Ids \cup {"none"} /\ "managed" \in Places /\ Stored \subseteq Places /\ Ids \subseteq Ids \cup {"none"}
        /\ "managed" \in Names
    BY AddonTypeFacts, AddonAssumption DEF Places, Sound
  <1>2. rows["MINIO"].profile \in Ids \cup {"none"} /\ rows["VELERO"].profile \in Ids \cup {"none"}
    BY AddonTypeFacts DEF Sound, RowType
  <1>3. ASSUME NEW name \in Names, Bootstrap(c, name) PROVE AddonsTypeOK' /\ Grows /\ AsksAlone(c) /\ FirstCall(c)
    <2>1. Begins(c, "bootstrap", "upsert", c, "managed", name)
      BY <1>3 DEF Bootstrap
    <2>2. CanBootstrap
      BY <1>3 DEF Bootstrap
    <2> HIDE DEF Begins
    <2> QED BY <1>1, <2>1, <2>2, BeginsFacts
  <1>4. ASSUME NEW name \in Names, Adopt(c, name) PROVE AddonsTypeOK' /\ Grows /\ AsksAlone(c) /\ FirstCall(c)
    <2> DEFINE profile == ProfileIdFromInstallation(c)
               a == IF IsStored(profile) THEN "test" ELSE "store"
    <2>1. Begins(c, "adopt", a, profile, "managed", name)
      BY <1>4 DEF Adopt
    <2>2. profile \in Ids \cup {"none"}
      BY <1>1, <1>2 DEF ProfileIdFromInstallation
    <2>3. a \in Calls /\ (IsStored(profile) => a = "test") /\ (~IsStored(profile) => a = "store")
      OBVIOUS
    <2>4. CanAdopt
      BY <1>4 DEF Adopt
    <2> HIDE DEF Begins, profile, a
    <2>5. /\ AddonsTypeOK' /\ Grows
          /\ request[c].op = "none" /\ request[c].at = "unused"
          /\ request'[c].op = "adopt" /\ request'[c].at = a /\ request'[c].profile = profile
          /\ request'[c].place = "managed"
          /\ \A d \in Callers : d # c => request'[d] = request[d]
          /\ AddonOf("adopt") \notin overlapped' => ~Meets(c, "adopt")
          /\ UNCHANGED <<tableVars, clusterVars, masterKey>>
      BY <1>1, <2>1, <2>2, <2>3, BeginsFacts
    <2>6. profile = ProfileIdFromInstallation(c)
      BY DEF profile
    <2> QED BY <2>3, <2>4, <2>5, <2>6
  <1>5. ASSUME NEW place \in Stored, NEW name \in Names, ConnectExternal(c, place, name)
        PROVE  AddonsTypeOK' /\ Grows /\ AsksAlone(c) /\ FirstCall(c)
    <2>1. Begins(c, "external", "store", c, place, name)
      BY <1>5 DEF ConnectExternal
    <2> HIDE DEF Begins
    <2> QED BY <1>1, <2>1, BeginsFacts
  <1>6. ASSUME NEW profile \in Ids, Install(c, profile) PROVE AddonsTypeOK' /\ Grows /\ AsksAlone(c) /\ FirstCall(c)
    <2>1. Begins(c, "install", "upsert", profile, "managed", "managed") /\ IsStored(profile)
      BY <1>6 DEF Install
    <2> HIDE DEF Begins
    <2> QED BY <1>1, <2>1, BeginsFacts
  <1>7. ASSUME NEW profile \in Ids, Reuse(c, profile) PROVE AddonsTypeOK' /\ Grows /\ AsksAlone(c) /\ FirstCall(c)
    <2>1. Begins(c, "reuse", "secret", profile, "managed", "managed") /\ IsStored(profile)
      BY <1>7 DEF Reuse
    <2> HIDE DEF Begins
    <2> QED BY <1>1, <2>1, BeginsFacts
  <1>8. CASE Uninstall(c)
    <2>1. PICK profile \in Ids \cup {"none"} : profile = rows["VELERO"].profile
      BY <1>2
    <2>2. Begins(c, "uninstall", "helm", profile, "managed", "managed")
      BY <1>8, <2>1 DEF Uninstall
    <2> HIDE DEF Begins
    <2>3. /\ AddonsTypeOK' /\ Grows
          /\ request[c].op = "none" /\ request[c].at = "unused"
          /\ request'[c].op = "uninstall" /\ request'[c].at = "helm"
          /\ \A d \in Callers : d # c => request'[d] = request[d]
          /\ AddonOf("uninstall") \notin overlapped' => ~Meets(c, "uninstall")
          /\ UNCHANGED <<tableVars, clusterVars, masterKey>>
      BY <1>1, <2>2, BeginsFacts
    <2>4. AsksAlone(c)
      BY <2>3
    <2>5. FirstCall(c)
      BY <2>3
    <2> QED BY <2>3, <2>4, <2>5
  <1> QED BY <1>3, <1>4, <1>5, <1>6, <1>7, <1>8 DEF Asks

ChangesEnvironment ==
  \/ CreateEnvironment \/ DeleteEnvironment
  \/ TestConnection("CONNECTED") \/ TestConnection("DISCONNECTED")
  \/ RefreshCapabilities("CONNECTED") \/ RefreshCapabilities("ERROR")

AddonStep ==
  \/ \E c \in Callers : RequestStep(c) \/ CallFails(c)
  \/ \E c \in Callers : Asks(c) /\ masterKey # "none"
  \/ ApiCrashes \/ ChangesEnvironment \/ PodRestarts \/ VeleroValidates
  \/ EnsureApplicationSecret \/ EnsureDefaultMinIO \/ InstallDefaultMinIO
  \/ UNCHANGED addonVars

\* A step changes the add-ons in one of these ways, and a request begins only when there is a master key.
LEMMA StepsAre ==
  ASSUME Sound, scenario \in Scenarios, [Next]_vars
  PROVE  AddonStep
  <1> USE DEF AddonStep
  <1>1. KeyIsFirst
    BY DEF Sound, AddonsInvariant
  <1>2. CASE UNCHANGED vars
    BY <1>2 DEF vars
  <1>3. CASE \E skip, brings \in BOOLEAN : StartDeploy(skip, brings)
    BY <1>3 DEF StartDeploy
  <1>4. CASE DeployStep
    <2>1. CASE RequestAdoption
      <3>1. CASE IsRegistered /\ CanAdopt
        <4>1. deploy.attempt \in Attempts
          BY <2>1 DEF Sound, AddonsInvariant, DeployIsSound, IsRunning, RequestAdoption
        <4> QED BY <1>1, <2>1, <3>1, <4>1, PlatformAssumption, AddonAssumption DEF RequestAdoption, Asks, KeyIsFirst
      <3>2. CASE ~(IsRegistered /\ CanAdopt)
        BY <2>1, <3>2 DEF RequestAdoption
      <3> QED BY <3>1, <3>2
    <2>2. CASE RegisterEnvironment
      BY <2>2 DEF RegisterEnvironment, ChangesEnvironment
    <2>3. CASE TestEnvironment
      BY <2>3 DEF TestEnvironment, ChangesEnvironment
    <2>4. CASE AdoptionAnswers
      BY <2>4 DEF AdoptionAnswers
    <2> QED BY <1>4, <2>1, <2>2, <2>3, <2>4
            DEF DeployStep, ImagesImported, InspectPlatform, InstallPlatform, PlatformLogin, ListEnvironments,
                EndUnregistered
  <1>5. CASE DeployFails \/ DeployIsKilled \/ ImportByHand \/ ChangePassword
    BY <1>5 DEF DeployFails, DeployIsKilled, ImportByHand, ChangePassword
  <1>6. ASSUME NEW p \in Importers, ImportOn(p) \/ ImportFails(p) PROVE AddonStep
    BY <1>6 DEF ImportOn, ImportFails
  <1>7. ASSUME NEW image \in LockedImages, NEW d \in Descriptors, FileChanges(image, d) PROVE AddonStep
    BY <1>7 DEF FileChanges
  <1>8. ASSUME NEW c \in Callers, Request(c) PROVE AddonStep
    <2>1. Ask(c)
      BY <1>8 DEF Request
    <2>2. platform.release
      BY <2>1 DEF Ask, BootstrapHandler, AdoptHandler, ConnectExternalHandler, InstallAddonHandler, ReuseVeleroHandler,
                  UninstallAddonHandler, May
    <2>3. Asks(c)
      BY <2>1, PlatformAssumption DEF Ask, BootstrapHandler, AdoptHandler, ConnectExternalHandler, InstallAddonHandler, ReuseVeleroHandler,
                  UninstallAddonHandler, Asks
    <2> QED BY <1>1, <2>2, <2>3 DEF KeyIsFirst
  <1>9. ASSUME NEW c \in Callers, RequestGoesOn(c) \/ RequestFails(c) PROVE AddonStep
    BY <1>9 DEF RequestGoesOn, RequestFails
  <1>10. CASE ChangeEnvironment
    BY <1>10 DEF ChangeEnvironment, CreateEnvironmentHandler, TestEnvironmentHandler, RefreshCapabilitiesHandler,
                 DeleteEnvironmentHandler, ChangesEnvironment
  <1>11. CASE Crash \/ Reschedule \/ Validate
    BY <1>11 DEF Crash, Reschedule, Validate
  <1> QED BY <1>2, <1>3, <1>4, <1>5, <1>6, <1>7, <1>8, <1>9, <1>10, <1>11 DEF Next

LEMMA AddonStepGrows ==
  ASSUME Sound, AddonStep
  PROVE  AddonsTypeOK' /\ Grows
  <1>1. ASSUME NEW c \in Callers, RequestStep(c) \/ CallFails(c) \/ Asks(c) PROVE AddonsTypeOK' /\ Grows
    BY <1>1, RequestStepFacts, CallFailsFacts, AsksFacts
  <1>2. CASE ApiCrashes \/ ChangesEnvironment
    BY <1>2, CrashFacts, EnvironmentFacts DEF ChangesEnvironment
  <1>3. CASE PodRestarts \/ VeleroValidates \/ EnsureApplicationSecret \/ EnsureDefaultMinIO \/ InstallDefaultMinIO
    BY <1>3, PodRestartsFacts, ValidatesFacts, ApplicationSecretFacts, DefaultMinioFacts, InstallDefaultFacts
  <1>4. CASE UNCHANGED addonVars
    BY <1>4 DEF addonVars, tableVars, clusterVars, AddonsTypeOK, Sound, Grows, IsSame
  <1> QED BY <1>1, <1>2, <1>3, <1>4 DEF AddonStep

(***************************************************************************)
(* What a request is and refers to.                                        *)
(***************************************************************************)
LEMMA RequestStays ==
  ASSUME Sound, Grows, NEW d \in Callers, IsSame(d), request[d].op # "none",
         request'[d].at \in CallsOf(request[d].op) \cup EndsOfRequests,
         request'[d].at = "test" => request[d].at = "test"
  PROVE  RequestIsOwn(d)'
  <1>1. RequestIsOwn(d)
    BY DEF Sound, AddonsInvariant
  <1>2. CallFits(d)'
    BY DEF CallFits, IsSame
  <1>3. \A x : IsStored(x) => IsStored(x)'
    BY DEF IsStored, Grows
  <1>4. \A x \in ManagedIds : x \in ManagedIds'
    BY DEF ManagedIds, IsManagedRequest, Grows, IsSame
  <1> QED BY <1>1, <1>2, <1>3, <1>4 DEF RequestIsOwn, IsSame, At, IsManagedRequest

LEMMA RequestUnchanged ==
  ASSUME Sound, Grows, NEW d \in Callers, request'[d] = request[d]
  PROVE  RequestIsOwn(d)'
  <1>1. RequestIsOwn(d)
    BY DEF Sound, AddonsInvariant
  <1>2. CASE request[d].op # "none"
    BY <1>1, <1>2, RequestStays DEF RequestIsOwn, CallFits, IsSame
  <1>3. CASE request[d].op = "none"
    BY <1>1, <1>3 DEF RequestIsOwn, CallFits, IsManagedRequest, At
  <1> QED BY <1>2, <1>3

LEMMA RequestsStayOwn ==
  ASSUME Sound, AddonStep
  PROVE  \A c \in Callers : RequestIsOwn(c)'
  <1>1. Grows
    BY AddonStepGrows
  <1>2. ASSUME NEW c \in Callers, RequestStep(c), NEW d \in Callers PROVE RequestIsOwn(d)'
    <2>1. CASE d = c
      BY <1>1, <1>2, <2>1, RequestStepFacts, RequestStays DEF ActsAlone
    <2>2. CASE d # c
      BY <1>1, <1>2, <2>2, RequestStepFacts, RequestUnchanged DEF ActsAlone
    <2> QED BY <2>1, <2>2
  <1>3. ASSUME NEW c \in Callers, CallFails(c), NEW d \in Callers PROVE RequestIsOwn(d)'
    <2>1. CASE d = c
      <3>1. request[c].op # "none"
        BY <1>3, FitFacts DEF CallFails, Executing, Calls
      <3>2. request'[c].at \in CallsOf(request[c].op) \cup EndsOfRequests
        BY <1>3, CallFailsFacts DEF CallsOf, EndsOfRequests, RecordsFailure, RemovesCredential
      <3> QED BY <1>1, <1>3, <2>1, <3>1, <3>2, CallFailsFacts, RequestStays DEF ActsAlone
    <2>2. CASE d # c
      BY <1>1, <1>3, <2>2, CallFailsFacts, RequestUnchanged DEF ActsAlone
    <2> QED BY <2>1, <2>2
  <1>4. ASSUME NEW c \in Callers, Asks(c), masterKey # "none", NEW d \in Callers PROVE RequestIsOwn(d)'
    <2>1. CASE d = c
      <3> USE <2>1
      <3>1. AsksAlone(c) /\ FirstCall(c)
        BY <1>4, AsksFacts
      <3>2. \A x : IsStored(x) => IsStored(x)'
        BY <1>1 DEF IsStored, Grows
      <3>3. \A x \in ManagedIds : x \in ManagedIds'
        BY <1>1 DEF ManagedIds, IsManagedRequest, Grows, IsSame
      <3>4. CallFits(c)'
        BY <3>1 DEF FirstCall, CallFits, CallsOf
      <3>5. IsManagedRequest(c)' => request'[c].profile \in ManagedIds' /\ request'[c].place = "managed"
        <4> SUFFICES ASSUME IsManagedRequest(c)' PROVE request'[c].profile \in ManagedIds'
          BY <3>1 DEF FirstCall, IsManagedRequest
        <4>1. c \in ManagedIds'
          BY DEF ManagedIds
        <4>2. rows["MINIO"].profile \in ManagedIds \cup {"none"}
          BY DEF Sound, AddonsInvariant, ProfilesAreOwn
        <4> QED BY <3>1, <3>3, <4>1, <4>2 DEF FirstCall, IsManagedRequest, ProfileIdFromInstallation
      <3>6. request'[c].op \in {"install", "reuse"} \/ At(c, "adopt", "test")' => IsStored(request'[c].profile)
        BY <3>1 DEF FirstCall, At
      <3>7. request'[c].op \in {"bootstrap", "external"} => request'[c].profile = c
        BY <3>1 DEF FirstCall
      <3> QED BY <3>2, <3>4, <3>5, <3>6, <3>7 DEF RequestIsOwn
    <2>2. CASE d # c
      BY <1>1, <1>4, <2>2, AsksFacts, RequestUnchanged DEF AsksAlone
    <2> QED BY <2>1, <2>2
  <1>5. ASSUME ApiCrashes, NEW d \in Callers PROVE RequestIsOwn(d)'
    <2>1. CASE Executing(d)
      BY <1>1, <1>5, <2>1, CrashFacts, RequestStays, FitFacts DEF EndsOfRequests, Executing, Calls
    <2>2. CASE ~Executing(d)
      BY <1>1, <1>5, <2>2, CrashFacts, RequestUnchanged
    <2> QED BY <2>1, <2>2
  <1>6. CASE Rests \/ UNCHANGED addonVars
    BY <1>1, <1>6, RequestUnchanged DEF Rests, addonVars
  <1>7. CASE ChangesEnvironment
    BY <1>6, <1>7, EnvironmentFacts DEF ChangesEnvironment
  <1> QED BY <1>2, <1>3, <1>4, <1>5, <1>6, <1>7, PodRestartsFacts, ValidatesFacts, ApplicationSecretFacts,
             DefaultMinioFacts, InstallDefaultFacts DEF AddonStep

(***************************************************************************)
(* What a request has stored.                                              *)
(***************************************************************************)
LEMMA KeyStays ==
  ASSUME Sound, Grows, profiles # {} \/ \E c \in Callers : request[c].op # "none"
  PROVE  masterKey' = masterKey /\ masterKey # "none"
  BY DEF Sound, AddonsInvariant, KeyIsFirst, Grows

LEMMA StorageStays ==
  ASSUME Sound, Grows, HasStorage
  PROVE  HasStorage'
  <1>1. PICK p \in profiles : IsManaged(p) /\ Resolvable(p.credential)
    BY DEF HasStorage
  <1>2. p \in profiles' /\ vault'[p.credential] = vault[p.credential] /\ masterKey' = masterKey
    BY <1>1, KeyStays DEF Grows
  <1> QED BY <1>1, <1>2 DEF HasStorage, Resolvable

StoredMoments == {"secret", "helm", "restart", "profile"}

LEMMA StoredStays ==
  ASSUME Sound, Grows, NEW d \in Callers, IsSame(d), request[d].op # "none", vault'[d] = vault[d],
         IsMinio(d) /\ request'[d].at \in StoredMoments => request[d].at \in StoredMoments,
         IsManagedRequest(d) /\ request'[d].at \in {"ready", "ok"} => HasStorage \/ HasStorage'
  PROVE  RequestHasStored(d)'
  <1>1. RequestHasStored(d)
    BY DEF Sound, AddonsInvariant
  <1>2. masterKey' = masterKey
    BY KeyStays
  <1>3. IsMinio(d)' = IsMinio(d) /\ IsManagedRequest(d)' = IsManagedRequest(d)
    BY DEF IsMinio, IsManagedRequest, IsSame
  <1> QED BY <1>1, <1>2, <1>3, StorageStays DEF RequestHasStored, Resolvable, StoredMoments

LEMMA StoredUnchanged ==
  ASSUME Sound, Grows, NEW d \in Callers, request'[d] = request[d], vault'[d] = vault[d]
  PROVE  RequestHasStored(d)'
  <1>1. RequestHasStored(d)
    BY DEF Sound, AddonsInvariant
  <1>2. CASE request[d].op = "none"
    BY <1>2 DEF RequestHasStored, IsMinio, MinioOps, IsManagedRequest
  <1>3. CASE request[d].op # "none"
    BY <1>1, <1>3, StoredStays DEF RequestHasStored, StoredMoments, IsSame
  <1> QED BY <1>2, <1>3

LEMMA RequestStepStores ==
  ASSUME Sound, NEW c \in Callers, RequestStep(c)
  PROVE  RequestHasStored(c)'
  <1>1. Grows /\ ActsAlone(c) /\ request[c].op # "none" /\ IsSame(c)
    BY RequestStepFacts DEF ActsAlone
  <1>2. RequestHasStored(c) /\ c \in Ids
    BY AddonTypeFacts DEF Sound, AddonsInvariant
  <1> USE <1>1, <1>2 DEF StoredMoments, RequestHasStored
  <1>3. CASE RecordFailure(c)
    BY <1>3, RecordFailureFacts, StoredStays DEF RecordFailure
  <1>4. CASE RemoveCredential(c)
    BY <1>4, RemoveCredentialFacts DEF RemoveCredential
  <1>5. CASE MarkInstalling(c)
    BY <1>5, MarkInstallingFacts, StoredStays DEF MarkInstalling, IsMinio, MinioOps
  <1>6. CASE StoreCredential(c)
    <2>1. /\ vault'[c].seal = masterKey /\ vault'[c].key # "none" /\ masterKey' = masterKey
          /\ request'[c].at \notin {"ready", "ok"}
      BY <1>6, StoreCredentialFacts DEF StoreCredential
    <2> QED BY <2>1 DEF Resolvable
  <1>7. CASE PutMinioSecret(c)
    BY <1>7, PutMinioSecretFacts, StoredStays DEF PutMinioSecret, tableVars
  <1>8. CASE InstallMinio(c)
    BY <1>8, InstallMinioFacts, StoredStays DEF InstallMinio, tableVars
  <1>9. CASE RestartMinio(c)
    BY <1>9, RestartMinioFacts, StoredStays DEF RestartMinio, tableVars
  <1>10. CASE ReloadCredential(c)
    BY <1>10, ReloadCredentialFacts, StoredStays DEF ReloadCredential, tableVars
  <1>11. CASE SaveProfile(c)
    <2>1. IsMinio(c) /\ Resolvable(c) /\ vault' = vault /\ masterKey' = masterKey
      BY <1>11, SaveProfileFacts DEF SaveProfile
    <2>2. IsManagedRequest(c) => HasStorage'
      <3> SUFFICES ASSUME IsManagedRequest(c) PROVE HasStorage'
        OBVIOUS
      <3> DEFINE p == [id |-> request[c].profile, credential |-> c, place |-> request[c].place,
                   name |-> request[c].name]
      <3>1. p \in profiles'
        BY <1>11, SaveProfileFacts
      <3>2. p.credential = c /\ p.place = "managed"
        BY RequestedFacts
      <3> HIDE DEF p
      <3> QED BY <2>1, <3>1, <3>2 DEF HasStorage, IsManaged, Resolvable
    <2> QED BY <1>11, <2>1, <2>2, SaveProfileFacts, StoredStays
  <1>12. CASE TestProfile(c)
    <2>1. HasStorage
      <3>1. ProfileOf(request[c].profile) \in profiles /\ ProfileOf(request[c].profile).id \in ManagedIds
        BY <1>12, RequestedFacts DEF TestProfile, At, IsManagedRequest
      <3>2. IsManaged(ProfileOf(request[c].profile))
        BY <3>1, RequestedFacts DEF ProfilesAreOwn
      <3> QED BY <1>12, <3>1, <3>2, TestProfileFacts DEF HasStorage
    <2> QED BY <1>12, <2>1, TestProfileFacts, StoredStays DEF tableVars
  <1>13. CASE MarkReady(c)
    BY <1>13, MarkReadyFacts, StoredStays DEF MarkReady
  <1>14. CASE PutVeleroSecret(c)
    BY <1>14, PutVeleroSecretFacts, StoredStays DEF PutVeleroSecret, IsMinio, MinioOps, IsManagedRequest, tableVars
  <1>15. CASE InstallVelero(c)
    BY <1>15, InstallVeleroFacts, StoredStays DEF InstallVelero, IsMinio, MinioOps, IsManagedRequest, tableVars
  <1>16. CASE EnsureBackupStorageLocation(c)
    BY <1>16, EnsureLocationFacts, StoredStays
       DEF EnsureBackupStorageLocation, IsMinio, MinioOps, IsManagedRequest, tableVars
  <1>17. CASE WaitForLocation(c)
    BY <1>17, WaitForLocationFacts, StoredStays DEF WaitForLocation, IsMinio, MinioOps, IsManagedRequest, tableVars
  <1>18. CASE UninstallVelero(c)
    BY <1>18, UninstallVeleroFacts, StoredStays DEF UninstallVelero, IsMinio, MinioOps, IsManagedRequest, tableVars
  <1> QED BY <1>3, <1>4, <1>5, <1>6, <1>7, <1>8, <1>9, <1>10, <1>11, <1>12, <1>13, <1>14, <1>15, <1>16, <1>17,
             <1>18 DEF RequestStep

LEMMA RequestsHaveStored ==
  ASSUME Sound, AddonStep
  PROVE  \A c \in Callers : RequestHasStored(c)'
  <1>1. Grows /\ Callers \subseteq Ids
    BY AddonStepGrows, AddonTypeFacts DEF Sound
  <1>2. ASSUME NEW c \in Callers, RequestStep(c), NEW d \in Callers PROVE RequestHasStored(d)'
    <2>1. CASE d = c
      BY <1>2, <2>1, RequestStepStores
    <2>2. CASE d # c
      BY <1>1, <1>2, <2>2, RequestStepFacts, StoredUnchanged DEF ActsAlone
    <2> QED BY <2>1, <2>2
  <1>3. ASSUME NEW c \in Callers, CallFails(c), NEW d \in Callers PROVE RequestHasStored(d)'
    <2>1. CASE d = c
      <3>1. request[c].op # "none"
        BY <1>3, FitFacts DEF CallFails, Executing, Calls
      <3> QED BY <1>1, <1>3, <2>1, <3>1, CallFailsFacts, StoredStays DEF ActsAlone, StoredMoments, tableVars
    <2>2. CASE d # c
      BY <1>1, <1>3, <2>2, CallFailsFacts, StoredUnchanged DEF ActsAlone, tableVars
    <2> QED BY <2>1, <2>2
  <1>4. ASSUME NEW c \in Callers, Asks(c), NEW d \in Callers PROVE RequestHasStored(d)'
    <2>1. CASE d = c
      <3>1. FirstCall(c)
        BY <1>4, AsksFacts
      <3> QED BY <2>1, <3>1 DEF FirstCall, RequestHasStored, IsMinio, MinioOps, IsManagedRequest
    <2>2. CASE d # c
      BY <1>1, <1>4, <2>2, AsksFacts, StoredUnchanged DEF AsksAlone, tableVars
    <2> QED BY <2>1, <2>2
  <1>5. ASSUME ApiCrashes, NEW d \in Callers PROVE RequestHasStored(d)'
    <2>1. CASE Executing(d)
      BY <1>1, <1>5, <2>1, CrashFacts, StoredStays, FitFacts DEF Executing, Calls, StoredMoments, tableVars
    <2>2. CASE ~Executing(d)
      BY <1>1, <1>5, <2>2, CrashFacts, StoredUnchanged DEF tableVars
    <2> QED BY <2>1, <2>2
  <1>6. CASE Rests \/ UNCHANGED addonVars
    BY <1>1, <1>6, StoredUnchanged DEF Rests, addonVars, tableVars
  <1>7. CASE ChangesEnvironment
    BY <1>6, <1>7, EnvironmentFacts DEF ChangesEnvironment
  <1> QED BY <1>2, <1>3, <1>4, <1>5, <1>6, <1>7, PodRestartsFacts, ValidatesFacts, ApplicationSecretFacts,
             DefaultMinioFacts, InstallDefaultFacts DEF AddonStep

(***************************************************************************)
(* Profiles and the row of MinIO.                                          *)
(***************************************************************************)
\* The row of MinIO changes with a call of a request for the managed MinIO only.
RowStays == rows'["MINIO"] = rows["MINIO"] \/ rows'["MINIO"] = NoRow

LEMMA RowFacts ==
  ASSUME Sound, AddonStep
  PROVE  \/ RowStays
         \/ \E c \in Callers : /\ RecordFailure(c) \/ MarkInstalling(c) \/ MarkReady(c)
                               /\ IsManagedRequest(c) /\ rows'["MINIO"].profile = request[c].profile
  <1> USE AddonTypeFacts DEF Sound, RowStays
  <1>1. ASSUME NEW c \in Callers, RecordFailure(c)
        PROVE  RowStays \/ (IsManagedRequest(c) /\ rows'["MINIO"].profile = request[c].profile)
    BY <1>1, RecordFailureFacts DEF AddonOf, VeleroOps, IsManagedRequest
  <1>2. ASSUME NEW c \in Callers, MarkInstalling(c)
        PROVE  RowStays \/ (IsManagedRequest(c) /\ rows'["MINIO"].profile = request[c].profile)
    BY <1>2, MarkInstallingFacts DEF AddonOf, VeleroOps, IsManagedRequest
  <1>3. ASSUME NEW c \in Callers, MarkReady(c)
        PROVE  RowStays \/ (IsManagedRequest(c) /\ rows'["MINIO"].profile = request[c].profile)
    BY <1>3, MarkReadyFacts DEF AddonOf, VeleroOps, IsManagedRequest
  <1>4. ASSUME NEW c \in Callers, RequestStep(c), ~(RecordFailure(c) \/ MarkInstalling(c) \/ MarkReady(c))
        PROVE  RowStays
    BY <1>4 DEF RequestStep, RemoveCredential, StoreCredential, PutMinioSecret, InstallMinio, RestartMinio,
       ReloadCredential, SaveProfile, TestProfile, PutVeleroSecret, InstallVelero, EnsureBackupStorageLocation,
       WaitForLocation, UninstallVelero, tableVars
  <1>5. ASSUME NEW c \in Callers, CallFails(c) \/ Asks(c) PROVE RowStays
    BY <1>5, CallFailsFacts, AsksFacts DEF AsksAlone, tableVars
  <1>6. CASE ApiCrashes \/ UNCHANGED addonVars
    BY <1>6, CrashFacts DEF addonVars, tableVars
  <1>7. CASE ChangesEnvironment
    BY <1>7, EnvironmentFacts DEF ChangesEnvironment
  <1> QED BY <1>1, <1>2, <1>3, <1>4, <1>5, <1>6, <1>7, PodRestartsFacts, ValidatesFacts, ApplicationSecretFacts,
             DefaultMinioFacts, InstallDefaultFacts DEF AddonStep

\* A profile is added by a call that saves it only.
LEMMA SavedFacts ==
  ASSUME Sound, AddonStep
  PROVE  profiles' = profiles \/ \E c \in Callers : SaveProfile(c)
  <1>1. ASSUME NEW c \in Callers, RequestStep(c), ~SaveProfile(c)
        PROVE  profiles' = profiles
    BY <1>1 DEF RequestStep, RecordFailure, RemoveCredential, MarkInstalling, StoreCredential, PutMinioSecret,
       InstallMinio, RestartMinio, ReloadCredential, TestProfile, MarkReady, PutVeleroSecret, InstallVelero,
       EnsureBackupStorageLocation, WaitForLocation, UninstallVelero, tableVars
  <1>2. ASSUME NEW c \in Callers, CallFails(c) \/ Asks(c) PROVE profiles' = profiles
    BY <1>2, CallFailsFacts, AsksFacts DEF AsksAlone, tableVars
  <1>3. CASE ApiCrashes \/ UNCHANGED addonVars
    BY <1>3, CrashFacts DEF addonVars, tableVars
  <1>4. CASE ChangesEnvironment
    BY <1>4, EnvironmentFacts DEF ChangesEnvironment, Rests
  <1> QED BY <1>1, <1>2, <1>3, <1>4, PodRestartsFacts, ValidatesFacts, ApplicationSecretFacts,
             DefaultMinioFacts, InstallDefaultFacts DEF AddonStep, Rests

LEMMA ProfilesStayOwn ==
  ASSUME Sound, AddonStep
  PROVE  ProfilesAreOwn'
  <1>1. Grows /\ AddonsTypeOK
    BY AddonStepGrows DEF Sound
  <1>2. ProfilesAreOwn
    BY DEF Sound, AddonsInvariant
  <1>3. /\ \A x \in ManagedIds : x \in ManagedIds'
        /\ \A x \in Callers : IsMinio(x) => IsMinio(x)'
        /\ \A x \in Callers : IsMinio(x) /\ x \in ManagedIds' => x \in ManagedIds
    BY <1>1 DEF ManagedIds, IsManagedRequest, Grows, IsSame, IsMinio, MinioOps
  <1>4. rows'["MINIO"].profile \in ManagedIds' \cup {"none"}
    <2>1. CASE RowStays
      BY <1>2, <1>3, <2>1 DEF RowStays, NoRow, ProfilesAreOwn
    <2>2. ASSUME NEW c \in Callers, IsManagedRequest(c), rows'["MINIO"].profile = request[c].profile
          PROVE  rows'["MINIO"].profile \in ManagedIds'
      BY <1>3, <2>2, RequestedFacts
    <2> QED BY <2>1, <2>2, RowFacts
  <1>5. ASSUME NEW p \in profiles
        PROVE  /\ p.id \in Callers => IsMinio(p.id)'
               /\ p.id \in ManagedIds' => IsManaged(p)
               /\ p.credential \in Callers =>
                    /\ IsMinio(p.credential)'
                    /\ request'[p.credential].at \in {"ready", "unstoring"} \cup EndsOfRequests
    <2>1. ManagedIds' \subseteq Callers
      BY DEF ManagedIds
    <2> QED BY <1>1, <1>2, <1>3, <2>1 DEF ProfilesAreOwn, Grows, SavedMoments
  <1>6. CASE profiles' = profiles
    BY <1>2, <1>4, <1>5, <1>6 DEF ProfilesAreOwn, IsManaged
  <1>7. ASSUME NEW c \in Callers, SaveProfile(c) PROVE ProfilesAreOwn'
    <2>0. PICK p : p = [id |-> request[c].profile, credential |-> c, place |-> request[c].place,
                   name |-> request[c].name]
      OBVIOUS
    <2>1. /\ IsMinio(c) /\ profiles' = profiles \cup {p} /\ ~IsStored(request[c].profile)
          /\ request[c].profile \in Callers /\ IsSame(c)
          /\ request'[c].at \in SavedMoments
      BY <1>7, <2>0, SaveProfileFacts DEF ActsAlone, SavedMoments, EndsOfRequests
    <2>2. p.id = request[c].profile /\ p.credential = c /\ p.place = request[c].place
      BY <2>0
    <2>3. \A q \in profiles : q.id # p.id
      BY <2>1, <2>2 DEF IsStored
    <2>4. \/ IsManagedRequest(c) /\ p.id \in ManagedIds /\ p.place = "managed"
          \/ request[c].op = "external" /\ p.id = c
      BY <2>1, <2>2, RequestedFacts DEF IsMinio, MinioOps, IsManagedRequest
    <2>5. IsMinio(p.id)'
      BY <1>3, <2>1, <2>4 DEF ManagedIds, IsManagedRequest, IsMinio, MinioOps
    <2>6. p.id \in ManagedIds' => p.place = "managed"
      BY <1>3, <2>1, <2>4 DEF ManagedIds, IsManagedRequest
    <2>7. IsMinio(p.credential)' /\ request'[p.credential].at \in {"ready", "unstoring"} \cup EndsOfRequests
      BY <1>3, <2>1, <2>2 DEF SavedMoments
    <2>8. \A q, r \in profiles' : q.id = r.id => q = r
      BY <1>2, <2>1, <2>3 DEF ProfilesAreOwn
    <2>9. \A q \in profiles' : q = p \/ q \in profiles
      BY <2>1
    <2> QED BY <1>4, <1>5, <2>5, <2>6, <2>7, <2>8, <2>9 DEF ProfilesAreOwn, IsManaged
  <1> QED BY <1>6, <1>7, SavedFacts

(***************************************************************************)
(* The command.                                                            *)
(***************************************************************************)
DeployType == [attempt : Attempts \cup {"none"}, stage : DeployStages, fresh : BOOLEAN, skip : BOOLEAN,
               brings : BOOLEAN, target : 0..MaxEnvironments, registered : BOOLEAN]

LEMMA GoesOnFacts ==
  ASSUME deploy \in DeployType, NEW stage \in DeployStages, GoesOn(stage)
  PROVE  /\ deploy' \in DeployType /\ deploy'.stage = stage
         /\ deploy'.attempt = deploy.attempt /\ deploy'.fresh = deploy.fresh /\ deploy'.skip = deploy.skip
         /\ deploy'.registered = deploy.registered
  BY DEF GoesOn, DeployType

LEMMA TargetsFacts ==
  ASSUME deploy \in DeployType, NEW version \in 0..MaxEnvironments, NEW stage \in DeployStages, Targets(version, stage)
  PROVE  /\ deploy' \in DeployType /\ deploy'.stage = stage
         /\ deploy'.attempt = deploy.attempt /\ deploy'.fresh = deploy.fresh /\ deploy'.skip = deploy.skip
         /\ deploy'.registered = deploy.registered
  BY DEF Targets, DeployType

LEMMA StartFacts ==
  ASSUME deploy \in DeployType, NEW skip \in BOOLEAN, NEW brings \in BOOLEAN, StartDeploy(skip, brings)
  PROVE  /\ deploy' \in DeployType /\ deploy'.stage = "importing" /\ deploy'.attempt \in Attempts
         /\ deploy'.registered = FALSE /\ platform' = platform
  <1>1. PICK a \in Attempts : deploy' = [NoDeploy EXCEPT !.attempt = a, !.stage = "importing", !.skip = skip,
                                                         !.brings = brings]
    BY DEF StartDeploy, Unattempted
  <1>2. NoDeploy \in DeployType /\ NoDeploy.registered = FALSE /\ "importing" \in DeployStages
    BY AddonAssumption DEF NoDeploy, DeployType, DeployStages
  <1> QED BY <1>1, <1>2 DEF StartDeploy, DeployType

LEMMA InspectFacts ==
  ASSUME deploy \in DeployType, InspectPlatform
  PROVE  /\ deploy' \in DeployType /\ deploy'.stage = "application" /\ deploy'.attempt = deploy.attempt
         /\ deploy'.registered = deploy.registered /\ platform' = platform
  <1>1. PICK fresh \in BOOLEAN : deploy' = [deploy EXCEPT !.stage = "application", !.fresh = fresh]
    BY DEF InspectPlatform
  <1> QED BY <1>1 DEF InspectPlatform, DeployType, DeployStages

LEMMA AnswerFacts ==
  ASSUME deploy \in DeployType, AdoptionAnswers
  PROVE  /\ deploy' \in DeployType /\ deploy'.attempt = deploy.attempt
         /\ \/ deploy'.stage = "complete" /\ deploy'.registered /\ request[deploy.attempt].at = "ok"
            \/ deploy'.stage = "unregistered" /\ deploy'.registered = deploy.registered
  <1>1. CASE request[deploy.attempt].at = "ok"
    <2>1. deploy' = [deploy EXCEPT !.stage = "complete", !.registered = TRUE]
      BY <1>1 DEF AdoptionAnswers
    <2> QED BY <1>1, <2>1 DEF DeployType, DeployStages
  <1>2. CASE request[deploy.attempt].at # "ok"
    <2>1. deploy' = [deploy EXCEPT !.stage = "unregistered"]
      BY <1>2 DEF AdoptionAnswers
    <2> QED BY <2>1 DEF DeployType, DeployStages
  <1> QED BY <1>1, <1>2

\* The steps that change the state of the command, or that of the platform.
CommandStep ==
  \/ \E skip, brings \in BOOLEAN : StartDeploy(skip, brings)
  \/ DeployStep \/ DeployFails \/ DeployIsKilled
  \/ ImportFails(Command) \/ ChangePassword

LEMMA CommandRests ==
  ASSUME [Next]_vars, ~CommandStep
  PROVE  UNCHANGED <<deploy, platform>>
  BY DEF Next, vars, CommandStep, deployVars, ImportByHand, ImportOn, ImportFails, FileChanges, Request, RequestGoesOn,
         RequestFails, ChangeEnvironment, Crash, Reschedule, Validate

LEMMA KeyStaysFirst ==
  ASSUME Sound, scenario \in Scenarios, deploy \in DeployType, [Next]_vars
  PROVE  KeyIsFirst'
  <1> DEFINE Early == {"idle", "importing", "inspect", "application", "failed"}
  <1> SUFFICES ASSUME masterKey' = "none" PROVE KeyIsFirst'
    BY DEF KeyIsFirst
  <1>1. AddonStep /\ Grows
    BY StepsAre, AddonStepGrows
  <1>2. masterKey = "none"
    BY <1>1 DEF Grows
  <1>3. /\ ~platform.release /\ profiles = {} /\ deploy.stage \in Early
        /\ \A c \in Callers : request[c].op = "none"
    BY <1>2 DEF Sound, AddonsInvariant, KeyIsFirst
  <1>4. \A c \in Callers : ~Executing(c) /\ ~RequestStep(c) /\ ~CallFails(c)
    <2>1. \A c \in Callers : request[c].at = "unused"
      BY <1>3, FitFacts
    <2>2. \A c \in Callers : ~Executing(c)
      BY <2>1 DEF Executing, Calls
    <2> QED BY <2>2, RequestStepFacts DEF CallFails
  <1>5. request' = request /\ profiles' = profiles
    <2>1. CASE ChangesEnvironment
      BY <2>1, EnvironmentFacts DEF ChangesEnvironment, Rests
    <2> QED BY <1>1, <1>2, <1>4, <2>1, PodRestartsFacts, ValidatesFacts, ApplicationSecretFacts, DefaultMinioFacts,
               InstallDefaultFacts
            DEF AddonStep, Rests, ApiCrashes, addonVars, tableVars
  <1>6. ~platform'.release /\ deploy'.stage \in Early
    <2>1. CASE UNCHANGED <<deploy, platform>>
      BY <1>3, <2>1
    <2>2. ASSUME NEW skip \in BOOLEAN, NEW brings \in BOOLEAN, StartDeploy(skip, brings)
          PROVE  ~platform'.release /\ deploy'.stage \in Early
      BY <1>3, <2>2, StartFacts
    <2>3. CASE ImagesImported
      BY <1>3, <2>3, GoesOnFacts DEF ImagesImported, DeployStages
    <2>4. CASE InspectPlatform
      BY <1>3, <2>4, InspectFacts
    <2>5. ~EnsureApplicationSecret
      BY ApplicationSecretFacts
    <2>6. CASE DeployFails \/ DeployIsKilled \/ ImportFails(Command)
      <3>1. GoesOn("failed") /\ platform' = platform
        BY <1>3, <2>6 DEF DeployFails, DeployIsKilled, ImportFails, Registering, ReadsPassword
      <3> QED BY <1>3, <3>1, GoesOnFacts DEF DeployStages
    <2>7. ~ChangePassword
      BY <1>3 DEF ChangePassword, May
    <2>8. DeployStep => ImagesImported \/ InspectPlatform \/ EnsureApplicationSecret
      BY <1>3 DEF DeployStep, EnsureDefaultMinIO, InstallDefaultMinIO, InstallPlatform, PlatformLogin,
           ListEnvironments, RegisterEnvironment, TestEnvironment, RequestAdoption, AdoptionAnswers, EndUnregistered
    <2> QED BY <2>1, <2>2, <2>3, <2>4, <2>5, <2>6, <2>7, <2>8, CommandRests DEF CommandStep
  <1> QED BY <1>3, <1>5, <1>6 DEF KeyIsFirst

LEMMA ImporterRests ==
  ASSUME RegistryInvariant, Sound, [Next]_vars
  PROVE  \/ importer'[Command] = importer[Command]
         \/ importer'[Command].stage \notin {"layout", "pushing"}
         \/ importer[Command].stage \in {"layout", "pushing"} /\ UNCHANGED deploy
         \/ \E skip, brings \in BOOLEAN : StartDeploy(skip, brings)
  <1>1. Command \in Importers /\ Manual \in Importers /\ Command # Manual
    BY PlatformAssumption DEF Command, Manual
  <1>3. importer \in [Importers -> [stage : ImporterStages, project : Projects, image : LockedImages,
                     last : LockedImages, stack : Seq([manifest : Parents, pushed : Nat]), visited : SUBSET Parents]]
    BY DEF RegistryInvariant, RegistryTypeOK
  <1>4. CASE ImportByHand
    BY <1>1, <1>3, <1>4 DEF ImportByHand, ImportAll, ImportOne, BeginImport
  <1>5. ASSUME NEW p \in Importers, p # Command, ImportOn(p) \/ ImportFails(p)
        PROVE  importer'[Command] = importer[Command]
    <2>1. PICK x : importer' = [importer EXCEPT ![p] = x]
      <3>1. CASE Import(p)
        BY <3>1, <1>3 DEF Import
      <3>2. CASE Descend(p) \/ PushBlob(p)
        BY <3>2, <1>3 DEF Descend, PushBlob
      <3>3. CASE PutManifest(p)
        BY <3>3, <1>3 DEF PutManifest
      <3>4. CASE TagImage(p)
        BY <3>4, <1>3 DEF TagImage
      <3>5. CASE ImportEnds(p)
        BY <3>5, <1>3 DEF ImportEnds
      <3> QED BY <1>5, <3>1, <3>2, <3>3, <3>4, <3>5 DEF ImportOn, ImportFails, ImportStep
    <2> QED BY <1>1, <1>3, <1>5, <2>1
  <1>6. CASE ImportOn(Command)
    BY <1>6 DEF ImportOn, ImportStep, Import, Descend, PushBlob, PutManifest, TagImage, Pushing, deployVars
  <1>7. CASE ImportFails(Command)
    <2>1. importer' = [importer EXCEPT ![Command] = [NoImport EXCEPT !.stage = "failed"]]
      BY <1>7 DEF ImportFails, ImportEnds
    <2>2. [NoImport EXCEPT !.stage = "failed"].stage = "failed"
      BY NoImportType DEF ImporterStages
    <2> QED BY <1>1, <1>3, <2>1, <2>2
  <1>8. DeployStep \/ DeployFails \/ DeployIsKilled \/ (\E c \in Callers : Request(c) \/ RequestGoesOn(c) \/ RequestFails(c))
          \/ ChangeEnvironment \/ ChangePassword \/ Crash \/ Reschedule \/ Validate \/ UNCHANGED vars
          \/ (\E image \in LockedImages, d \in Descriptors : FileChanges(image, d)) => importer' = importer
    BY DEF DeployStep, DeployFails, DeployIsKilled, ImagesImported, InspectPlatform,
           EnsureApplicationSecret, EnsureDefaultMinIO, InstallDefaultMinIO, InstallPlatform, PlatformLogin,
           ListEnvironments, RegisterEnvironment, TestEnvironment, RequestAdoption, AdoptionAnswers, EndUnregistered,
           Request, RequestGoesOn, RequestFails, ChangeEnvironment, ChangePassword, Crash, Reschedule, Validate, vars,
           registryVars,
           FileChanges, Spoil
  <1> QED BY <1>4, <1>5, <1>6, <1>7, <1>8 DEF Next

\* The command moves to another stage.
LEMMA GoesOnSound ==
  ASSUME Sound, deploy \in DeployType, Grows, NEW stage \in DeployStages, GoesOn(stage), IsRunning,
         importer'[Command].stage \notin {"layout", "pushing"},
         stage = "minio_chart" => minio'.secret # "none",
         stage = "adopting" => request'[deploy.attempt].op = "adopt",
         stage = "complete" => deploy.skip \/ ~deploy.fresh
  PROVE  DeployIsSound'
  <1>1. DeployIsSound
    BY DEF Sound, AddonsInvariant
  <1>2. deploy.attempt \in Attempts /\ ~deploy.registered
    BY <1>1 DEF DeployIsSound, IsRunning, DeployType
  <1> QED BY <1>2, GoesOnFacts DEF DeployIsSound

\* The command rests.
LEMMA DeployRests ==
  ASSUME Sound, Grows, UNCHANGED deploy,
         importer'[Command].stage \in {"layout", "pushing"} => deploy.stage = "importing"
  PROVE  DeployIsSound'
  <1>1. DeployIsSound
    BY DEF Sound, AddonsInvariant
  <1>2. IsRunning' = IsRunning
    BY DEF IsRunning
  <1>3. deploy.registered => HasStorage'
    BY <1>1, StorageStays DEF DeployIsSound
  <1>4. deploy.stage = "minio_chart" => minio'.secret # "none"
    BY <1>1 DEF DeployIsSound, Grows
  <1>5. deploy.stage = "adopting" => request'[deploy.attempt].op = "adopt"
    <2> SUFFICES ASSUME deploy.stage = "adopting" PROVE request'[deploy.attempt].op = "adopt"
      OBVIOUS
    <2>1. deploy.attempt \in Callers /\ request[deploy.attempt].op = "adopt"
      BY <1>1, PlatformAssumption DEF DeployIsSound, IsRunning
    <2> QED BY <2>1 DEF Grows, IsSame
  <1> QED BY <1>1, <1>2, <1>3, <1>4, <1>5 DEF DeployIsSound

LEMMA DeployStaysSound ==
  ASSUME Sound, RegistryInvariant, scenario \in Scenarios, deploy \in DeployType, [Next]_vars
  PROVE  DeployIsSound' /\ deploy' \in DeployType
  <1>1. AddonStep /\ Grows /\ AddonsTypeOK'
    BY StepsAre, AddonStepGrows
  <1>2. DeployIsSound
    BY DEF Sound, AddonsInvariant
  <1>3. CASE UNCHANGED deploy /\ ~\E skip, brings \in BOOLEAN : StartDeploy(skip, brings)
    <2>1. importer'[Command].stage \in {"layout", "pushing"} => deploy.stage = "importing"
      BY <1>2, <1>3, ImporterRests DEF DeployIsSound
    <2> QED BY <1>1, <1>3, <2>1, DeployRests
  <1>4. ASSUME NEW skip \in BOOLEAN, NEW brings \in BOOLEAN, StartDeploy(skip, brings)
        PROVE  DeployIsSound' /\ deploy' \in DeployType
    BY <1>4, StartFacts DEF DeployIsSound
  <1>5. ASSUME IsRunning, importer'[Command].stage \notin {"layout", "pushing"},
               NEW stage \in DeployStages \ {"minio_chart", "adopting", "complete"}, GoesOn(stage)
        PROVE  DeployIsSound' /\ deploy' \in DeployType
    BY <1>1, <1>5, GoesOnSound, GoesOnFacts
  <1>6. ASSUME importer' = importer, deploy.stage # "importing"
        PROVE  importer'[Command].stage \notin {"layout", "pushing"}
    BY <1>2, <1>6 DEF DeployIsSound
  <1> USE DEF DeployStages
  <1>7. CASE DeployFails \/ DeployIsKilled
    <2>1. importer' = importer /\ deploy.stage # "importing" /\ IsRunning
      BY <1>7 DEF DeployFails, DeployIsKilled, registryVars
    <2>2. GoesOn("failed") \/ GoesOn("unregistered")
      BY <1>7 DEF DeployFails, DeployIsKilled
    <2> QED BY <1>5, <1>6, <2>1, <2>2
  <1>8. CASE ImportFails(Command)
    <2>1. importer[Command].stage \in {"layout", "pushing"} /\ GoesOn("failed")
      BY <1>8 DEF ImportFails, ImportEnds
    <2>2. deploy.stage = "importing" /\ IsRunning
      BY <1>2, <2>1 DEF DeployIsSound, IsRunning
    <2>3. importer' = [importer EXCEPT ![Command] = [NoImport EXCEPT !.stage = "failed"]]
      BY <1>8 DEF ImportFails, ImportEnds
    <2>4. [NoImport EXCEPT !.stage = "failed"].stage = "failed" /\ Command \in Importers
      BY NoImportType, PlatformAssumption DEF ImporterStages
    <2>5. importer'[Command].stage = "failed"
      BY <2>3, <2>4 DEF RegistryInvariant, RegistryTypeOK
    <2> QED BY <1>5, <2>1, <2>2, <2>5
  <1>9. CASE DeployStep
    <2>1. importer' = importer
      BY <1>9 DEF DeployStep, ImagesImported, InspectPlatform,
           EnsureApplicationSecret, EnsureDefaultMinIO, InstallDefaultMinIO, InstallPlatform, PlatformLogin,
           ListEnvironments, RegisterEnvironment, TestEnvironment, RequestAdoption, AdoptionAnswers, EndUnregistered,
           registryVars
    <2>2. importer[Command].stage \in {"layout", "pushing"} => deploy.stage = "importing"
      BY <1>2 DEF DeployIsSound
    <2>3. CASE ImagesImported
      <3>1. IsRunning /\ importer'[Command].stage \notin {"layout", "pushing"} /\ GoesOn("inspect")
        BY <2>1, <2>3 DEF ImagesImported, IsRunning
      <3> QED BY <1>5, <3>1
    <2>4. CASE InspectPlatform
      <3>1. importer'[Command].stage \notin {"layout", "pushing"} /\ IsRunning /\ ~deploy.registered
        BY <1>2, <2>1, <2>2, <2>4 DEF InspectPlatform, IsRunning, DeployIsSound
      <3> QED BY <1>2, <2>4, <3>1, InspectFacts DEF DeployIsSound, DeployType
    <2>5. CASE EnsureApplicationSecret
      <3>1. IsRunning /\ importer'[Command].stage \notin {"layout", "pushing"} /\ (GoesOn("chart") \/ GoesOn("minio"))
        BY <2>1, <2>2, <2>5 DEF EnsureApplicationSecret, IsRunning
      <3> QED BY <1>5, <3>1
    <2>6. CASE EnsureDefaultMinIO
      <3>1. IsRunning /\ importer'[Command].stage \notin {"layout", "pushing"}
            /\ (GoesOn("chart") \/ GoesOn("minio_chart")) /\ minio'.secret # "none"
        BY <2>1, <2>2, <2>6, DefaultMinioFacts DEF EnsureDefaultMinIO, IsRunning
      <3> QED BY <1>1, <1>5, <3>1, GoesOnSound, GoesOnFacts
    <2>7. CASE InstallDefaultMinIO
      <3>1. IsRunning /\ importer'[Command].stage \notin {"layout", "pushing"} /\ GoesOn("chart")
        BY <2>1, <2>2, <2>7 DEF InstallDefaultMinIO, IsRunning
      <3> QED BY <1>5, <3>1
    <2>8. CASE InstallPlatform
      <3>1. IsRunning /\ importer'[Command].stage \notin {"layout", "pushing"}
            /\ (GoesOn("login") \/ (GoesOn("complete") /\ deploy.skip))
        BY <2>1, <2>2, <2>8 DEF InstallPlatform, IsRunning
      <3> QED BY <1>1, <1>5, <3>1, GoesOnSound, GoesOnFacts
    <2>9. CASE PlatformLogin
      <3>1. IsRunning /\ importer'[Command].stage \notin {"layout", "pushing"}
            /\ (GoesOn("environments") \/ GoesOn("unregistered"))
        BY <2>1, <2>2, <2>9 DEF PlatformLogin, IsRunning
      <3> QED BY <1>5, <3>1
    <2>10. CASE ListEnvironments \/ RegisterEnvironment
      <3>1. IsRunning /\ importer'[Command].stage \notin {"layout", "pushing"}
        BY <2>1, <2>2, <2>10 DEF ListEnvironments, RegisterEnvironment, IsRunning
      <3>2. CASE GoesOn("register") \/ GoesOn("unregistered")
        BY <1>5, <3>1, <3>2
      <3>3. ASSUME NEW version \in 0..MaxEnvironments, Targets(version, "test")
            PROVE  DeployIsSound' /\ deploy' \in DeployType
        <4>1. deploy.attempt \in Attempts /\ ~deploy.registered
          BY <1>2, <3>1 DEF DeployIsSound, IsRunning, DeployType
        <4> QED BY <3>1, <3>3, <4>1, TargetsFacts DEF DeployIsSound
      <3>4. environment.version \in 0..MaxEnvironments /\ environment'.version \in 0..MaxEnvironments
        BY <1>1, AddonTypeFacts DEF Sound, AddonsTypeOK
      <3> QED BY <2>10, <3>2, <3>3, <3>4 DEF ListEnvironments, RegisterEnvironment
    <2>11. CASE TestEnvironment
      <3>1. IsRunning /\ importer'[Command].stage \notin {"layout", "pushing"}
            /\ (GoesOn("unregistered") \/ GoesOn("adopt"))
        BY <2>1, <2>2, <2>11 DEF TestEnvironment, IsRunning
      <3> QED BY <1>5, <3>1
    <2>12. CASE RequestAdoption
      <3>1. IsRunning /\ importer'[Command].stage \notin {"layout", "pushing"}
        BY <2>1, <2>2, <2>12 DEF RequestAdoption, IsRunning
      <3>2. CASE IsRegistered /\ CanAdopt
        <4>1. deploy.attempt \in Callers
          BY <1>2, <3>1, PlatformAssumption DEF DeployIsSound
        <4>2. Adopt(deploy.attempt, "managed") /\ GoesOn("adopting")
          BY <2>12, <3>2 DEF RequestAdoption
        <4>3. request'[deploy.attempt].op = "adopt"
          <5>2. request \in [Callers -> RequestType]
            BY TypesAre DEF Sound
          <5> QED BY <4>1, <4>2, <5>2 DEF Adopt, Begin
        <4> QED BY <1>1, <3>1, <4>2, <4>3, GoesOnSound, GoesOnFacts
      <3>3. CASE ~(IsRegistered /\ CanAdopt)
        BY <1>5, <2>12, <3>1, <3>3 DEF RequestAdoption
      <3> QED BY <3>2, <3>3
    <2>13. CASE AdoptionAnswers
      <3>1. importer'[Command].stage \notin {"layout", "pushing"} /\ ~deploy.registered
            /\ deploy.attempt \in Attempts /\ request[deploy.attempt].op = "adopt" /\ deploy.attempt \in Callers
        BY <1>2, <2>1, <2>2, <2>13, PlatformAssumption DEF AdoptionAnswers, DeployIsSound, IsRunning
      <3>2. request[deploy.attempt].at = "ok" => HasStorage'
        BY <1>1, <3>1, StorageStays DEF Sound, AddonsInvariant, RequestHasStored, IsManagedRequest
      <3> QED BY <2>13, <3>1, <3>2, AnswerFacts DEF DeployIsSound, DeployType
    <2>14. CASE EndUnregistered
      <3>1. IsRunning /\ importer'[Command].stage \notin {"layout", "pushing"}
            /\ (GoesOn("failed") \/ (GoesOn("complete") /\ ~deploy.fresh))
        BY <2>1, <2>2, <2>14 DEF EndUnregistered, FailsClosed, IsRunning
      <3> QED BY <1>1, <1>5, <3>1, GoesOnSound, GoesOnFacts
    <2> QED BY <1>9, <2>3, <2>4, <2>5, <2>6, <2>7, <2>8, <2>9, <2>10, <2>11, <2>12, <2>13, <2>14 DEF DeployStep
  <1>10. CASE ~CommandStep \/ ChangePassword
    <2>1. UNCHANGED deploy
      BY <1>10, CommandRests DEF ChangePassword
    <2> QED BY <1>3, <1>4, <2>1
  <1> QED BY <1>4, <1>7, <1>8, <1>9, <1>10 DEF CommandStep

(***************************************************************************)
(* The managed object storage.                                             *)
(***************************************************************************)
\* What the managed MinIO runs with stays what it was.
KeepsMinio ==
  /\ minio.secret # "none" => minio'.secret = minio.secret
  /\ minio.release => minio'.release
  /\ minio.release /\ minio.running = minio.secret => minio'.running = minio'.secret \/ minio.secret = "none"

LEMMA MinioKept ==
  ASSUME Sound, \/ minio' \in {minio, Restarted, InstalledMinio}
                \/ EnsureDefaultMinIO
  PROVE  KeepsMinio
  <1>1. CASE minio' \in {minio, Restarted, InstalledMinio}
    BY <1>1, MinioTypes DEF KeepsMinio
  <1>2. CASE EnsureDefaultMinIO
    BY <1>2, DefaultMinioFacts DEF KeepsMinio
  <1> QED BY <1>1, <1>2

LEMMA WorksStays ==
  ASSUME Sound, Grows, KeepsMinio, NEW p \in profiles, Works(p)
  PROVE  Works(p)' /\ p \in profiles'
  <1>1. vault'[p.credential] = vault[p.credential] /\ masterKey' = masterKey
    BY KeyStays DEF Grows
  <1>2. vault[p.credential].key # "none" /\ minio.secret # "none"
    BY DEF Works, Resolvable, KeyOf
  <1> QED BY <1>1, <1>2 DEF Works, Resolvable, KeyOf, KeepsMinio, Grows

LEMMA IdWorksStays ==
  ASSUME Sound, Grows, KeepsMinio, ProfilesAreOwn', NEW id, IdWorks(id)
  PROVE  IdWorks(id)'
  <1>1. PICK p \in profiles : p.id = id /\ Works(p)
    BY DEF IdWorks, IsStored
  <1>2. p \in profiles' /\ Works(p)'
    BY <1>1, WorksStays
  <1>3. \A q \in profiles' : q.id = id => q = p
    BY <1>1, <1>2 DEF ProfilesAreOwn
  <1> QED BY <1>1, <1>2, <1>3 DEF IdWorks, IsStored

\* The row of MinIO, when only the profiles grow.
LEMMA RowStaysSound ==
  ASSUME Sound, AddonsTypeOK', StorageIsSound, Grows, KeepsMinio, RowStays,
         \A p \in profiles' : p \in profiles \/ p.id # rows["MINIO"].profile
  PROVE  /\ \A p \in profiles' : p.id = rows'["MINIO"].profile => Works(p)'
         /\ rows'["MINIO"].status = "READY" => \E p \in profiles' : p.id = rows'["MINIO"].profile
  <1>1. CASE rows'["MINIO"] = rows["MINIO"]
    <2>1. ASSUME NEW p \in profiles', p.id = rows["MINIO"].profile PROVE Works(p)'
      BY <2>1, WorksStays DEF StorageIsSound
    <2> QED BY <1>1, <2>1 DEF StorageIsSound, IsStored, Grows
  <1>2. CASE rows'["MINIO"] = NoRow
    <2>1. ASSUME NEW p \in profiles', p.id = "none" PROVE FALSE
      <3>1. p \in [id : Ids, credential : Ids, place : Places, name : Names]
        BY DEF AddonsTypeOK
      <3> QED BY <2>1, <3>1, AddonAssumption
    <2> QED BY <1>2, <2>1 DEF NoRow
  <1> QED BY <1>1, <1>2 DEF RowStays

\* What a request for the managed MinIO may do while it only fails.
StepsBack(d) ==
  /\ IsSame(d) /\ vault'[d] = vault[d]
  /\ \/ request'[d].at = request[d].at
     \/ request'[d].at = "failing" /\ request[d].at \notin {"upsert", "ready"}
     \/ request'[d].at = "unstoring" /\ request[d].op = "adopt"

LEMMA BootstrapStays ==
  ASSUME Sound, Grows, KeepsMinio, ProfilesAreOwn', RowStays, NEW d \in Callers, StepsBack(d), Executing(d),
         request[d].op = "bootstrap", BootstrapIsSound(d),
         \A p \in profiles' : p \in profiles \/ p.id # d
  PROVE  BootstrapIsSound(d)'
  <1>1. /\ request'[d].at \in {request[d].at, "failing"}
        /\ request'[d].at = "failing" => request[d].at \notin {"upsert", "ready"} \/ request[d].at = "failing"
        /\ request'[d].at # "failing" => request'[d].at = request[d].at
        /\ vault'[d] = vault[d]
    BY DEF StepsBack
  <1>2. rows'["MINIO"].status # "READY"
    BY DEF RowStays, NoRow, BootstrapIsSound
  <1>3. request'[d].at # "ready" => ~IsStored(d)'
    BY <1>1 DEF BootstrapIsSound, IsStored
  <1>4. request'[d].at # "upsert" => rows'["MINIO"].profile \in {d, "none"}
    BY <1>1 DEF BootstrapIsSound, RowStays, NoRow
  <1>5. /\ request'[d].at \in {"helm", "restart", "profile"} => minio'.secret = vault'[d].key
        /\ request'[d].at \in {"restart", "profile"} => minio'.release
    <2> SUFFICES ASSUME request'[d].at \in {"helm", "restart", "profile"}
                 PROVE  /\ minio'.secret = vault'[d].key
                        /\ request'[d].at \in {"restart", "profile"} => minio'.release
      OBVIOUS
    <2>1. vault[d].key # "none"
      BY <1>1, HasStored DEF IsMinio, MinioOps
    <2> QED BY <1>1, <2>1 DEF KeepsMinio, BootstrapIsSound
  <1>6. request'[d].at = "ready" => IdWorks(d)'
    BY <1>1, IdWorksStays DEF BootstrapIsSound
  <1> QED BY <1>2, <1>3, <1>4, <1>5, <1>6 DEF BootstrapIsSound

LEMMA AdoptStays ==
  ASSUME Sound, Grows, KeepsMinio, ProfilesAreOwn', NEW d \in Callers, StepsBack(d), Executing(d),
         request[d].op = "adopt", AdoptIsSound(d),
         \A p \in profiles' : p \in profiles \/ p.id # request[d].profile
  PROVE  AdoptIsSound(d)'
  <1>1. /\ request'[d].at \notin {"failing", "unstoring"} => request'[d].at = request[d].at
        /\ vault'[d] = vault[d] /\ request'[d].profile = request[d].profile
    BY DEF StepsBack, IsSame
  <1>2. request'[d].at \in {"store", "restart", "profile"} => ~IsStored(request[d].profile)'
    <2>1. request'[d].at \in {"store", "restart", "profile"} => \A p \in profiles' : p.id # request[d].profile
      BY <1>1 DEF AdoptIsSound, IsStored
    <2> QED BY <1>1, <2>1 DEF IsStored
  <1>3. request'[d].at \in {"restart", "profile"} => minio'.secret = vault'[d].key
    <2> SUFFICES ASSUME request'[d].at \in {"restart", "profile"} PROVE minio'.secret = vault'[d].key
      OBVIOUS
    <2>1. vault[d].key # "none"
      BY <1>1, HasStored DEF IsMinio, MinioOps
    <2> QED BY <1>1, <2>1 DEF KeepsMinio, AdoptIsSound
  <1>4. request'[d].at \in {"test", "ready"} => IdWorks(request[d].profile)'
    <2> SUFFICES ASSUME request'[d].at \in {"test", "ready"} PROVE IdWorks(request[d].profile)'
      OBVIOUS
    <2>1. IdWorks(request[d].profile)
      BY <1>1 DEF AdoptIsSound
    <2>2. PICK id : id = request[d].profile
      OBVIOUS
    <2>3. IdWorks(id)'
      BY <2>1, <2>2, IdWorksStays
    <2> QED BY <1>1, <2>2, <2>3
  <1> QED BY <1>2, <1>3, <1>4 DEF AdoptIsSound

IsStorage(c) == AddonOf(request[c].op) = "MINIO"

\* The requests for the managed MinIO rest or fail.
LEMMA StorageRests ==
  ASSUME Sound, AddonsTypeOK', StorageIsSound, Grows, ProfilesAreOwn', KeepsMinio, RowStays,
         \A p \in profiles' : p \in profiles \/ p.id \notin ManagedIds,
         \A d \in Callers : Executing(d)' /\ IsStorage(d)' =>
           Executing(d) /\ IsSame(d) /\ (request[d].op = "external" \/ StepsBack(d))
  PROVE  StorageIsSound'
  <1>1. \A d \in Callers : Executing(d)' /\ IsStorage(d)' => Executing(d) /\ IsStorage(d)
    BY DEF IsStorage, IsSame
  <1>2. AreAlone("MINIO")'
    BY <1>1 DEF StorageIsSound, AreAlone, IsStorage
  <1>3. \A p \in profiles' : p \in profiles \/ p.id # rows["MINIO"].profile
    <2> SUFFICES ASSUME NEW p \in profiles', p.id \notin ManagedIds PROVE p.id # rows["MINIO"].profile
      OBVIOUS
    <2>1. p.id # "none"
      <3>1. p \in [id : Ids, credential : Ids, place : Places, name : Names]
        BY DEF AddonsTypeOK
      <3> QED BY <3>1, AddonAssumption
    <2> QED BY <2>1 DEF Sound, AddonsInvariant, ProfilesAreOwn
  <1>4. /\ \A p \in profiles' : p.id = rows'["MINIO"].profile => Works(p)'
        /\ rows'["MINIO"].status = "READY" => \E p \in profiles' : p.id = rows'["MINIO"].profile
    BY <1>3, RowStaysSound
  <1>5. ASSUME NEW d \in Callers, Executing(d)', request'[d].op = "bootstrap" PROVE BootstrapIsSound(d)'
    <2>1. Executing(d) /\ request[d].op = "bootstrap" /\ StepsBack(d)
      BY <1>5 DEF IsStorage, AddonOf, VeleroOps, IsSame
    <2>2. d \in ManagedIds /\ BootstrapIsSound(d)
      BY <2>1 DEF ManagedIds, IsManagedRequest, StorageIsSound
    <2>3. \A p \in profiles' : p \in profiles \/ p.id # d
      BY <2>2
    <2> QED BY <2>1, <2>2, <2>3, BootstrapStays
  <1>6. ASSUME NEW d \in Callers, Executing(d)', request'[d].op = "adopt" PROVE AdoptIsSound(d)'
    <2>1. Executing(d) /\ request[d].op = "adopt" /\ StepsBack(d)
      BY <1>6 DEF IsStorage, AddonOf, VeleroOps, IsSame
    <2>2. request[d].profile \in ManagedIds /\ AdoptIsSound(d)
      BY <2>1, RequestedFacts DEF IsManagedRequest, StorageIsSound
    <2>3. \A p \in profiles' : p \in profiles \/ p.id # request[d].profile
      BY <2>2
    <2> QED BY <2>1, <2>2, <2>3, AdoptStays
  <1> QED BY <1>2, <1>4, <1>5, <1>6 DEF StorageIsSound, IsStored

\* One request for the managed MinIO moves, and no other is executed.
LEMMA OneIsAlone ==
  ASSUME StorageIsSound, NEW c \in Callers, ActsAlone(c), Executing(c), IsStorage(c)
  PROVE  \A d \in Callers : d # c /\ Executing(d)' => ~IsStorage(d)'
  BY DEF StorageIsSound, AreAlone, IsStorage, ActsAlone, Executing

LEMMA StorageOfOne ==
  ASSUME NEW c \in Callers, \A d \in Callers : d # c /\ Executing(d)' => ~IsStorage(d)',
         \A p \in profiles' : p.id = rows'["MINIO"].profile => Works(p)',
         rows'["MINIO"].status = "READY" => \E p \in profiles' : p.id = rows'["MINIO"].profile,
         Executing(c)' /\ request'[c].op = "bootstrap" => BootstrapIsSound(c)',
         Executing(c)' /\ request'[c].op = "adopt" => AdoptIsSound(c)'
  PROVE  StorageIsSound'
  <1>1. AreAlone("MINIO")'
    BY DEF AreAlone, IsStorage
  <1>2. \A d \in Callers : Executing(d)' /\ request'[d].op \in {"bootstrap", "adopt"} => d = c
    BY DEF IsStorage, AddonOf, VeleroOps
  <1> QED BY <1>1, <1>2 DEF StorageIsSound, IsStored

LEMMA FailureIsSound ==
  ASSUME Sound, StorageIsSound, NEW c \in Callers, RecordFailure(c), request[c].op = "bootstrap"
  PROVE  StorageIsSound'
  <1>1. /\ Grows /\ ActsAlone(c) /\ request[c].at = "failing" /\ request'[c].at = "failed"
        /\ AddonsTypeOK' /\ IsSame(c)
        /\ rows'["MINIO"] = rows["MINIO"]
             \/ (rows'["MINIO"].status = "FAILED" /\ rows'["MINIO"].profile = request[c].profile)
    BY RecordFailureFacts DEF ActsAlone, AddonOf, VeleroOps
  <1>2. Executing(c) /\ IsStorage(c) /\ ~Executing(c)' /\ request[c].profile = c
    BY <1>1, RequestedFacts DEF Executing, Calls, IsStorage, AddonOf, VeleroOps
  <1>3. ~IsStored(c) /\ profiles' = profiles
    BY <1>1, <1>2 DEF StorageIsSound, BootstrapIsSound, RecordFailure
  <1>4. KeepsMinio
    BY MinioKept DEF RecordFailure, clusterVars
  <1>5. /\ \A p \in profiles' : p.id = rows'["MINIO"].profile => Works(p)'
        /\ rows'["MINIO"].status = "READY" => \E p \in profiles' : p.id = rows'["MINIO"].profile
    <2>1. CASE rows'["MINIO"] = rows["MINIO"]
      BY <1>1, <1>3, <1>4, <2>1, RowStaysSound DEF RowStays
    <2>2. CASE rows'["MINIO"].status = "FAILED" /\ rows'["MINIO"].profile = request[c].profile
      BY <1>2, <1>3, <2>2 DEF IsStored
    <2> QED BY <1>1, <2>1, <2>2
  <1> QED BY <1>1, <1>2, <1>5, OneIsAlone, StorageOfOne

LEMMA InstallingIsSound ==
  ASSUME Sound, StorageIsSound, NEW c \in Callers, MarkInstalling(c), request[c].op = "bootstrap"
  PROVE  StorageIsSound'
  <1>1. /\ ActsAlone(c) /\ IsSame(c) /\ request[c].at = "upsert" /\ request'[c].at = "store"
        /\ rows'["MINIO"].status = "INSTALLING" /\ rows'["MINIO"].profile = request[c].profile
    BY MarkInstallingFacts DEF ActsAlone, AddonOf, VeleroOps
  <1>2. Executing(c) /\ IsStorage(c) /\ request[c].profile = c
    BY <1>1, RequestedFacts DEF Executing, Calls, IsStorage, AddonOf, VeleroOps
  <1>3. ~IsStored(c) /\ profiles' = profiles
    BY <1>1, <1>2 DEF StorageIsSound, BootstrapIsSound, MarkInstalling
  <1>4. \A p \in profiles' : p.id # rows'["MINIO"].profile
    BY <1>1, <1>2, <1>3 DEF IsStored
  <1>5. BootstrapIsSound(c)'
    BY <1>1, <1>2, <1>3 DEF BootstrapIsSound, IsStored
  <1> QED BY <1>1, <1>2, <1>4, <1>5, OneIsAlone, StorageOfOne DEF IsSame

LEMMA StoringIsSound ==
  ASSUME Sound, StorageIsSound, NEW c \in Callers, StoreCredential(c), IsManagedRequest(c)
  PROVE  StorageIsSound'
  <1>1. /\ Grows /\ ActsAlone(c) /\ IsSame(c) /\ AddonsTypeOK' /\ request[c].at = "store"
        /\ request[c].op = "bootstrap" => request'[c].at = "secret"
        /\ request[c].op = "adopt" => request'[c].at = "restart" /\ vault'[c].key = minio.secret
        /\ minio' = minio /\ rows' = rows /\ profiles' = profiles
    BY StoreCredentialFacts DEF ActsAlone, StoreCredential, clusterVars, IsManagedRequest
  <1>2. Executing(c) /\ IsStorage(c)
    BY <1>1 DEF Executing, Calls, IsStorage, AddonOf, VeleroOps, IsManagedRequest
  <1>3. /\ \A p \in profiles' : p.id = rows'["MINIO"].profile => Works(p)'
        /\ rows'["MINIO"].status = "READY" => \E p \in profiles' : p.id = rows'["MINIO"].profile
    BY <1>1, MinioKept, RowStaysSound DEF RowStays
  <1>4. request[c].op = "bootstrap" => BootstrapIsSound(c)'
    BY <1>1, <1>2 DEF StorageIsSound, BootstrapIsSound, IsStored
  <1>5. request[c].op = "adopt" => AdoptIsSound(c)'
    BY <1>1, <1>2 DEF StorageIsSound, AdoptIsSound, IsStored, IsSame
  <1> QED BY <1>1, <1>2, <1>3, <1>4, <1>5, OneIsAlone, StorageOfOne DEF IsSame

\* While a bootstrap is between its rows, no profile has the id of the row.
LEMMA NoProfileYet ==
  ASSUME Sound, StorageIsSound, NEW c \in Callers, Executing(c), request[c].op = "bootstrap",
         request[c].at \notin {"upsert", "ready"}
  PROVE  \A p \in profiles : p.id # rows["MINIO"].profile /\ p.id # c
  <1>1. BootstrapIsSound(c)
    BY DEF StorageIsSound
  <1>2. \A p \in profiles : p.id # "none" /\ p.id # c
    BY <1>1, AddonTypeFacts DEF Sound, BootstrapIsSound, IsStored
  <1> QED BY <1>1, <1>2 DEF BootstrapIsSound

LEMMA MinioStepIsSound ==
  ASSUME Sound, StorageIsSound, NEW c \in Callers, PutMinioSecret(c) \/ InstallMinio(c) \/ RestartMinio(c)
  PROVE  StorageIsSound'
  <1>1. /\ ActsAlone(c) /\ IsSame(c) /\ request[c].op = "bootstrap"
        /\ UNCHANGED <<profiles, rows, vault>>
    BY PutMinioSecretFacts, InstallMinioFacts, RestartMinioFacts
       DEF ActsAlone, PutMinioSecret, InstallMinio, RestartMinio, tableVars
  <1>2. \/ request[c].at = "secret" /\ request'[c].at = "helm" /\ minio'.secret = vault[c].key
        \/ request[c].at = "helm" /\ request'[c].at = "restart" /\ minio'.secret = minio.secret /\ minio'.release
        \/ request[c].at = "restart" /\ request'[c].at = "profile" /\ minio'.secret = minio.secret
             /\ minio'.release = minio.release
    BY PutMinioSecretFacts, InstallMinioFacts, RestartMinioFacts, MinioTypes
  <1>3. Executing(c) /\ IsStorage(c) /\ BootstrapIsSound(c)
    BY <1>1, <1>2 DEF Executing, Calls, IsStorage, AddonOf, VeleroOps, StorageIsSound
  <1>4. \A p \in profiles' : p.id # rows'["MINIO"].profile /\ p.id # c
    BY <1>1, <1>2, <1>3, NoProfileYet
  <1>5. rows'["MINIO"].status # "READY"
    BY <1>1, <1>3 DEF BootstrapIsSound
  <1>6. BootstrapIsSound(c)'
    BY <1>1, <1>2, <1>3, <1>4, <1>5 DEF BootstrapIsSound, IsStored
  <1> QED BY <1>1, <1>3, <1>4, <1>5, <1>6, OneIsAlone, StorageOfOne DEF IsSame

LEMMA ReloadIsSound ==
  ASSUME Sound, StorageIsSound, NEW c \in Callers, ReloadCredential(c)
  PROVE  StorageIsSound'
  <1>1. /\ Grows /\ ActsAlone(c) /\ IsSame(c) /\ AddonsTypeOK' /\ request[c].op = "adopt" /\ request[c].at = "restart"
        /\ request'[c].at \in {"profile", "unstoring"} /\ minio' \in {minio, Restarted}
        /\ UNCHANGED <<profiles, rows, vault>>
    BY ReloadCredentialFacts DEF ActsAlone, ReloadCredential, tableVars
  <1>2. Executing(c) /\ IsStorage(c) /\ AdoptIsSound(c)
    BY <1>1 DEF Executing, Calls, IsStorage, AddonOf, VeleroOps, StorageIsSound
  <1>3. /\ \A p \in profiles' : p.id = rows'["MINIO"].profile => Works(p)'
        /\ rows'["MINIO"].status = "READY" => \E p \in profiles' : p.id = rows'["MINIO"].profile
    BY <1>1, MinioKept, RowStaysSound DEF RowStays
  <1>4. minio'.secret = minio.secret
    BY <1>1, MinioTypes
  <1>5. AdoptIsSound(c)'
    BY <1>1, <1>2, <1>4 DEF AdoptIsSound, IsStored, IsSame
  <1> QED BY <1>1, <1>2, <1>3, <1>5, OneIsAlone, StorageOfOne DEF IsSame

LEMMA SavingIsSound ==
  ASSUME Sound, StorageIsSound, NEW c \in Callers, SaveProfile(c), IsManagedRequest(c), ProfilesAreOwn'
  PROVE  StorageIsSound'
  <1>0. PICK p : p = [id |-> request[c].profile, credential |-> c, place |-> request[c].place,
                   name |-> request[c].name]
    OBVIOUS
  <1>1. /\ Grows /\ ActsAlone(c) /\ IsSame(c) /\ AddonsTypeOK'
        /\ request[c].at = "profile" /\ request'[c].at = "ready"
        /\ profiles' = profiles \cup {p} /\ Probe(request[c].place, vault[c].key)
        /\ UNCHANGED <<rows, vault, minio, masterKey>>
    BY <1>0, SaveProfileFacts DEF ActsAlone, SaveProfile, clusterVars, IsManagedRequest
  <1>2. p.id = request[c].profile /\ p.credential = c /\ request[c].place = "managed"
        /\ (request[c].op = "bootstrap" => request[c].profile = c)
    BY <1>0, RequestedFacts
  <1>3. Executing(c) /\ IsStorage(c)
    BY <1>1 DEF Executing, Calls, IsStorage, AddonOf, VeleroOps, IsManagedRequest
  <1>4. minio.secret = vault[c].key /\ Resolvable(c)
    BY <1>1, <1>3, HasStored
       DEF StorageIsSound, BootstrapIsSound, AdoptIsSound, IsManagedRequest, IsMinio, MinioOps
  <1>5. minio.release /\ vault[c].key = minio.running
    BY <1>1, <1>2 DEF Probe, ProbePasses
  <1>6. Works(p)'
    BY <1>1, <1>2, <1>4, <1>5 DEF Works, Resolvable, KeyOf
  <1>7. KeepsMinio
    BY <1>1, MinioKept
  <1>8. \A q \in profiles' : q.id = rows'["MINIO"].profile => Works(q)'
    BY <1>1, <1>6, <1>7, WorksStays DEF StorageIsSound
  <1>9. rows'["MINIO"].status = "READY" => \E q \in profiles' : q.id = rows'["MINIO"].profile
    BY <1>1 DEF StorageIsSound, IsStored
  <1>10. \A q \in profiles' : q.id = request[c].profile => q = p
    BY <1>1, <1>2 DEF ProfilesAreOwn
  <1>11. IdWorks(request[c].profile)'
    BY <1>1, <1>2, <1>6, <1>10 DEF IdWorks, IsStored, IsSame
  <1>12. request[c].op = "bootstrap" => BootstrapIsSound(c)'
    <2> SUFFICES ASSUME request[c].op = "bootstrap" PROVE BootstrapIsSound(c)'
      OBVIOUS
    <2>1. BootstrapIsSound(c)
      BY <1>3 DEF StorageIsSound
    <2>2. IdWorks(c)'
      BY <1>1, <1>2, <1>6, <1>10 DEF IdWorks, IsStored
    <2> QED BY <1>1, <2>1, <2>2 DEF BootstrapIsSound
  <1>13. AdoptIsSound(c)'
    <2>1. request'[c].profile = request[c].profile /\ request'[c].at = "ready"
      BY <1>1 DEF IsSame
    <2>2. PICK id : id = request[c].profile
      OBVIOUS
    <2>3. IdWorks(id)'
      BY <1>1, <1>2, <1>6, <1>10, <2>2 DEF IdWorks, IsStored
    <2> QED BY <2>1, <2>2, <2>3 DEF AdoptIsSound
  <1> QED BY <1>1, <1>3, <1>8, <1>9, <1>12, <1>13, OneIsAlone, StorageOfOne DEF IsSame

LEMMA TestingIsSound ==
  ASSUME Sound, StorageIsSound, NEW c \in Callers, TestProfile(c), ProfilesAreOwn'
  PROVE  StorageIsSound'
  <1>1. /\ Grows /\ ActsAlone(c) /\ IsSame(c) /\ AddonsTypeOK' /\ request[c].op = "adopt" /\ request[c].at = "test"
        /\ request'[c].at \in {"ok", "ready"}
        /\ UNCHANGED <<profiles, rows, vault, minio>>
    BY TestProfileFacts DEF ActsAlone, tableVars, clusterVars
  <1>2. Executing(c) /\ IsStorage(c) /\ AdoptIsSound(c)
    BY <1>1 DEF Executing, Calls, IsStorage, AddonOf, VeleroOps, StorageIsSound
  <1>3. KeepsMinio
    BY <1>1, MinioKept
  <1>4. /\ \A p \in profiles' : p.id = rows'["MINIO"].profile => Works(p)'
        /\ rows'["MINIO"].status = "READY" => \E p \in profiles' : p.id = rows'["MINIO"].profile
    BY <1>1, <1>3, RowStaysSound DEF RowStays
  <1>5. PICK id : id = request[c].profile
    OBVIOUS
  <1>6. IdWorks(id)'
    BY <1>1, <1>2, <1>3, <1>5, IdWorksStays DEF AdoptIsSound
  <1>7. AdoptIsSound(c)'
    BY <1>1, <1>5, <1>6 DEF AdoptIsSound, IsSame
  <1> QED BY <1>1, <1>2, <1>4, <1>7, OneIsAlone, StorageOfOne DEF IsSame

LEMMA ReadyIsSound ==
  ASSUME Sound, StorageIsSound, NEW c \in Callers, MarkReady(c), IsManagedRequest(c), ProfilesAreOwn'
  PROVE  StorageIsSound'
  <1>1. /\ Grows /\ ActsAlone(c) /\ IsSame(c) /\ request[c].at = "ready" /\ request'[c].at = "ok"
        /\ rows'["MINIO"].status = "READY" /\ rows'["MINIO"].profile = request[c].profile
        /\ minio' = minio /\ profiles' = profiles
    BY MarkReadyFacts DEF ActsAlone, MarkReady, AddonOf, VeleroOps, IsManagedRequest
  <1>2. /\ Executing(c) /\ IsStorage(c) /\ ~Executing(c)'
        /\ request[c].op = "bootstrap" => request[c].profile = c
    BY <1>1, RequestedFacts DEF Executing, Calls, IsStorage, AddonOf, VeleroOps, IsManagedRequest
  <1>3. IdWorks(request[c].profile)
    BY <1>1, <1>2 DEF StorageIsSound, BootstrapIsSound, AdoptIsSound, IsManagedRequest
  <1>4. PICK id : id = request[c].profile
    OBVIOUS
  <1>5. IdWorks(id)'
    BY <1>1, <1>3, <1>4, MinioKept, IdWorksStays
  <1>6. /\ \A p \in profiles' : p.id = rows'["MINIO"].profile => Works(p)'
        /\ \E p \in profiles' : p.id = rows'["MINIO"].profile
    BY <1>1, <1>4, <1>5 DEF IdWorks, IsStored
  <1> QED BY <1>1, <1>2, <1>6, OneIsAlone, StorageOfOne

LEMMA AskingIsSound ==
  ASSUME Sound, StorageIsSound, NEW c \in Callers, Asks(c), IsStorage(c)', "MINIO" \notin overlapped'
  PROVE  StorageIsSound'
  <1>1. AddonsTypeOK' /\ Grows /\ AsksAlone(c) /\ FirstCall(c) /\ UNCHANGED <<profiles, rows, vault, minio, masterKey>>
    BY AsksFacts DEF AsksAlone, tableVars, clusterVars
  <1>2. \A d \in Callers : d # c /\ Executing(d)' => ~IsStorage(d)'
    BY <1>1 DEF AsksAlone, Meets, IsStorage, Executing
  <1>3. ~IsStored(c)
    BY <1>1 DEF AsksAlone, Sound, AddonsInvariant, ProfilesAreOwn, IsStored, IsMinio, MinioOps
  <1>4. /\ \A p \in profiles' : p.id = rows'["MINIO"].profile => Works(p)'
        /\ rows'["MINIO"].status = "READY" => \E p \in profiles' : p.id = rows'["MINIO"].profile
    BY <1>1, MinioKept, RowStaysSound DEF RowStays
  <1>5. request'[c].op = "bootstrap" => BootstrapIsSound(c)'
    <2> SUFFICES ASSUME request'[c].op = "bootstrap" PROVE BootstrapIsSound(c)'
      OBVIOUS
    <2>1. request'[c].at = "upsert" /\ rows["MINIO"].status # "READY"
      BY <1>1 DEF FirstCall, CanBootstrap
    <2> QED BY <1>1, <1>3, <2>1 DEF BootstrapIsSound, IsStored
  <1>6. request'[c].op = "adopt" => AdoptIsSound(c)'
    <2> SUFFICES ASSUME request'[c].op = "adopt" PROVE AdoptIsSound(c)'
      OBVIOUS
    <2>1. PICK id : id = ProfileIdFromInstallation(c)
      OBVIOUS
    <2>2. request'[c].profile = id /\ request'[c].at = IF IsStored(id) THEN "test" ELSE "store"
      BY <1>1, <2>1 DEF FirstCall
    <2>3. CASE IsStored(id)
      <3>1. id = rows["MINIO"].profile
        BY <1>3, <2>1, <2>3 DEF ProfileIdFromInstallation
      <3>2. IdWorks(id)'
        BY <1>1, <1>4, <2>3, <3>1 DEF IdWorks, IsStored
      <3> QED BY <2>2, <2>3, <3>2 DEF AdoptIsSound
    <2>4. CASE ~IsStored(id)
      <3>1. request'[c].at = "store" /\ ~IsStored(id)'
        BY <1>1, <2>2, <2>4 DEF IsStored
      <3> QED BY <2>2, <3>1 DEF AdoptIsSound
    <2> QED BY <2>3, <2>4
  <1> QED BY <1>2, <1>4, <1>5, <1>6, StorageOfOne

\* The other calls of a request.
LEMMA OtherCallIsSound ==
  ASSUME Sound, StorageIsSound, NEW c \in Callers, RequestStep(c), ~IsManagedRequest(c), ProfilesAreOwn'
  PROVE  StorageIsSound'
  <1>1. Grows /\ AddonsTypeOK' /\ ActsAlone(c) /\ IsSame(c) /\ AddonStep
    BY RequestStepFacts DEF ActsAlone, AddonStep
  <1>2. minio' = minio
    BY DEF RequestStep, RecordFailure, RemoveCredential, MarkInstalling, StoreCredential, PutMinioSecret,
       InstallMinio, RestartMinio, ReloadCredential, SaveProfile, TestProfile, MarkReady, PutVeleroSecret, InstallVelero,
       EnsureBackupStorageLocation, WaitForLocation, UninstallVelero, clusterVars, At, IsManagedRequest
  <1>3. RowStays
    <2>1. ASSUME RecordFailure(c) \/ MarkInstalling(c) \/ MarkReady(c) PROVE RowStays
      BY <2>1, RecordFailureFacts, MarkInstallingFacts, MarkReadyFacts, AddonTypeFacts
         DEF RowStays, AddonOf, VeleroOps, IsManagedRequest, Sound
    <2>2. ASSUME ~(RecordFailure(c) \/ MarkInstalling(c) \/ MarkReady(c)) PROVE RowStays
      BY <2>2 DEF RowStays, RequestStep, RemoveCredential, StoreCredential, PutMinioSecret,
       InstallMinio, RestartMinio, ReloadCredential, SaveProfile, TestProfile, PutVeleroSecret, InstallVelero,
       EnsureBackupStorageLocation, WaitForLocation, UninstallVelero, tableVars
    <2> QED BY <2>1, <2>2
  <1>4. \A p \in profiles' : p \in profiles \/ p.id \notin ManagedIds
    <2>1. CASE SaveProfile(c)
      <3>1. request[c].op = "external" /\ request[c].profile = c /\ c \notin ManagedIds
        BY <2>1, SaveProfileFacts, RequestedFacts DEF IsMinio, MinioOps, IsManagedRequest, ManagedIds
      <3> QED BY <2>1, <3>1, SaveProfileFacts
    <2>2. CASE ~SaveProfile(c)
      BY <2>2 DEF RequestStep, RecordFailure, RemoveCredential, MarkInstalling, StoreCredential, PutMinioSecret,
       InstallMinio, RestartMinio, ReloadCredential, TestProfile, MarkReady, PutVeleroSecret,
       InstallVelero, EnsureBackupStorageLocation, WaitForLocation, UninstallVelero, tableVars
    <2> QED BY <2>1, <2>2
  <1>5. ASSUME NEW d \in Callers, Executing(d)', IsStorage(d)'
        PROVE  Executing(d) /\ IsSame(d) /\ (request[d].op = "external" \/ StepsBack(d))
    <2>1. CASE d = c
      <3>1. request[c].op \in Operations
        BY RequestStepFacts, FitFacts
      <3>2. request[c].op = "external"
        BY <1>1, <1>5, <2>1, <3>1 DEF IsStorage, IsSame, AddonOf, VeleroOps, IsManagedRequest, Operations, MinioOps
      <3> QED BY <1>1, <2>1, <3>2, RequestStepFacts
    <2>2. CASE d # c
      BY <1>1, <1>5, <2>2, AddonTypeFacts DEF ActsAlone, StepsBack, Executing, IsSame, Sound
    <2> QED BY <2>1, <2>2
  <1> QED BY <1>1, <1>2, <1>3, <1>4, <1>5, MinioKept, StorageRests

LEMMA StorageStaysSound ==
  ASSUME Sound, AddonStep, ProfilesAreOwn', "MINIO" \notin overlapped'
  PROVE  StorageIsSound'
  <1>1. Grows /\ AddonsTypeOK'
    BY AddonStepGrows
  <1>2. StorageIsSound
    BY <1>1 DEF Sound, AddonsInvariant, Grows
  <1>3. ASSUME NEW c \in Callers, RequestStep(c) PROVE StorageIsSound'
    <2>1. CASE ~IsManagedRequest(c)
      BY <1>2, <1>3, <2>1, OtherCallIsSound
    <2>2. CASE IsManagedRequest(c)
      <3>1. CASE RecordFailure(c)
        <4>1. request[c].op = "bootstrap"
          BY <2>2, <3>1, RecordFailureFacts DEF IsManagedRequest
        <4> QED BY <1>2, <3>1, <4>1, FailureIsSound
      <3>2. CASE MarkInstalling(c)
        <4>1. request[c].op = "bootstrap"
          BY <2>2, <3>2, MarkInstallingFacts DEF IsManagedRequest
        <4> QED BY <1>2, <3>2, <4>1, InstallingIsSound
      <3>3. CASE RemoveCredential(c)
        <4>1. /\ ActsAlone(c) /\ request[c].at = "unstoring" /\ request'[c].at = "failed"
              /\ UNCHANGED <<rows, profiles, minio>>
          BY <3>3, RemoveCredentialFacts DEF RemoveCredential, clusterVars
        <4>2. \A d \in Callers : Executing(d)' /\ IsStorage(d)' => Executing(d) /\ IsSame(d) /\ StepsBack(d)
          BY <4>1, AddonTypeFacts DEF ActsAlone, StepsBack, Executing, Calls, IsSame, Sound
        <4> QED BY <1>1, <1>2, <4>1, <4>2, MinioKept, StorageRests DEF RowStays
      <3>4. ~(PutVeleroSecret(c) \/ InstallVelero(c) \/ EnsureBackupStorageLocation(c) \/ WaitForLocation(c)
              \/ UninstallVelero(c))
        BY <2>2, PutVeleroSecretFacts, InstallVeleroFacts, EnsureLocationFacts, WaitForLocationFacts,
           UninstallVeleroFacts DEF IsManagedRequest
      <3>5. CASE StoreCredential(c) \/ PutMinioSecret(c) \/ InstallMinio(c) \/ RestartMinio(c)
        BY <1>2, <2>2, <3>5, StoringIsSound, MinioStepIsSound
      <3>6. CASE ReloadCredential(c) \/ SaveProfile(c) \/ TestProfile(c) \/ MarkReady(c)
        BY <1>2, <2>2, <3>6, ReloadIsSound, SavingIsSound, TestingIsSound, ReadyIsSound
      <3> QED BY <1>3, <3>1, <3>2, <3>3, <3>4, <3>5, <3>6 DEF RequestStep
    <2> QED BY <2>1, <2>2
  <1>4. ASSUME NEW c \in Callers, CallFails(c) PROVE StorageIsSound'
    <2>1. /\ ActsAlone(c) /\ Executing(c) /\ request'[c].at \in {"failing", "unstoring", "failed"}
          /\ request'[c].at = "failing" => RecordsFailure(c)
          /\ request'[c].at = "unstoring" => RemovesCredential(c)
          /\ UNCHANGED <<rows, profiles, vault, minio>>
      BY <1>4, CallFailsFacts DEF tableVars, clusterVars
    <2>2. \A d \in Callers : Executing(d)' /\ IsStorage(d)' =>
            Executing(d) /\ IsSame(d) /\ (request[d].op = "external" \/ StepsBack(d))
      BY <2>1, AddonTypeFacts
         DEF ActsAlone, StepsBack, Executing, Calls, IsSame, Sound, RecordsFailure, RemovesCredential, IsStorage,
             AddonOf, VeleroOps
    <2> QED BY <1>1, <1>2, <2>1, <2>2, MinioKept, StorageRests DEF RowStays
  <1>5. ASSUME NEW c \in Callers, Asks(c) PROVE StorageIsSound'
    <2>1. CASE IsStorage(c)'
      BY <1>2, <1>5, <2>1, AskingIsSound
    <2>2. CASE ~IsStorage(c)'
      <3>1. /\ \A d \in Callers : d # c => request'[d] = request[d]
            /\ UNCHANGED <<rows, profiles, vault, minio>>
        BY <1>5, AsksFacts DEF AsksAlone, tableVars, clusterVars
      <3>2. \A d \in Callers : Executing(d)' /\ IsStorage(d)' => Executing(d) /\ IsSame(d) /\ StepsBack(d)
        BY <2>2, <3>1 DEF Executing, IsSame, StepsBack
      <3> QED BY <1>1, <1>2, <3>1, <3>2, MinioKept, StorageRests DEF RowStays
    <2> QED BY <2>1, <2>2
  <1>6. CASE ApiCrashes
    <2>1. \A d \in Callers : ~Executing(d)'
      BY <1>6, CrashFacts, FitFacts DEF Executing, Calls, Moments, EndsOfRequests
    <2> QED BY <1>1, <1>2, <1>6, <2>1, CrashFacts, MinioKept, StorageRests DEF RowStays, tableVars, clusterVars
  <1>7. ASSUME request' = request, vault' = vault, profiles' = profiles, RowStays,
               minio' \in {minio, Restarted, InstalledMinio} \/ EnsureDefaultMinIO
        PROVE  StorageIsSound'
    <2>1. \A d \in Callers : Executing(d)' /\ IsStorage(d)' => Executing(d) /\ IsSame(d) /\ StepsBack(d)
      BY <1>7 DEF Executing, IsSame, StepsBack
    <2> QED BY <1>1, <1>2, <1>7, <2>1, MinioKept, StorageRests
  <1>8. CASE ChangesEnvironment
    <2>1. Rests /\ minio' = minio /\ RowStays
      BY <1>8, EnvironmentFacts, AddonTypeFacts DEF ChangesEnvironment, RowStays, Sound
    <2> QED BY <1>7, <2>1 DEF Rests
  <1>9. CASE PodRestarts \/ VeleroValidates \/ EnsureApplicationSecret \/ EnsureDefaultMinIO \/ InstallDefaultMinIO
    <2>1. Rests /\ RowStays /\ (minio' \in {minio, Restarted, InstalledMinio} \/ EnsureDefaultMinIO)
      BY <1>9, PodRestartsFacts, ValidatesFacts, ApplicationSecretFacts, DefaultMinioFacts, InstallDefaultFacts DEF RowStays
    <2> QED BY <1>7, <2>1 DEF Rests
  <1>10. CASE UNCHANGED addonVars
    BY <1>7, <1>10 DEF addonVars, tableVars, clusterVars, RowStays
  <1> QED BY <1>3, <1>4, <1>5, <1>6, <1>8, <1>9, <1>10 DEF AddonStep

(***************************************************************************)
(* Velero.                                                                 *)
(***************************************************************************)
\* A stored profile keeps its keys.
LEMMA SecretStays ==
  ASSUME Sound, Grows, ProfilesAreOwn', NEW id, IsStored(id)
  PROVE  IsStored(id)' /\ KeyOf(ProfileOf(id))' = KeyOf(ProfileOf(id))
  <1>1. PICK p \in profiles : p.id = id
    BY DEF IsStored
  <1>2. p \in profiles' /\ vault'[p.credential] = vault[p.credential]
    BY DEF Grows
  <1>3. ProfileOf(id) = p
    BY <1>1, ProfileOfFacts DEF Sound, AddonsInvariant
  <1>4. ProfileOf(id)' = p
    BY <1>1, <1>2 DEF ProfilesAreOwn, ProfileOf
  <1> QED BY <1>1, <1>2, <1>3, <1>4 DEF IsStored, KeyOf

LEMMA UsesStays ==
  ASSUME Sound, Grows, ProfilesAreOwn', NEW id, IsStored(id), velero'.secret = velero.secret
  PROVE  /\ IsStored(id)'
         /\ HasSecretOf(id) => HasSecretOf(id)'
         /\ Uses(id) /\ velero'.server = velero.server /\ velero'.location = velero.location => Uses(id)'
  BY SecretStays DEF HasSecretOf, Uses

VeleroRowStays == rows'["VELERO"] = rows["VELERO"] \/ rows'["VELERO"] = NoRow

LEMMA VeleroRowStaysSound ==
  ASSUME Sound, VeleroIsSound, Grows, ProfilesAreOwn', VeleroRowStays, KeepsVelero
  PROVE  rows'["VELERO"].status = "READY" /\ ~velero'.unrecorded =>
           \E id : id = rows'["VELERO"].profile /\ IsStored(id)' /\ Uses(id)'
  <1> SUFFICES ASSUME rows'["VELERO"].status = "READY", ~velero'.unrecorded
               PROVE  \E id : id = rows'["VELERO"].profile /\ IsStored(id)' /\ Uses(id)'
    OBVIOUS
  <1>1. rows'["VELERO"] = rows["VELERO"]
    BY DEF VeleroRowStays, NoRow
  <1>2. PICK id : id = rows["VELERO"].profile
    OBVIOUS
  <1>3. IsStored(id) /\ Uses(id)
    BY <1>1, <1>2 DEF VeleroIsSound, KeepsVelero
  <1> QED BY <1>1, <1>2, <1>3, UsesStays DEF KeepsVelero

LEMMA VeleroRests ==
  ASSUME Sound, VeleroIsSound, Grows, ProfilesAreOwn', VeleroRowStays, KeepsVelero,
         \A d \in Callers : Executing(d)' /\ IsVelero(d)' =>
           /\ Executing(d) /\ IsSame(d)
           /\ \/ request'[d].at = request[d].at
              \/ request'[d].at = "failing" /\ request[d].op = "install" /\ request[d].at # "upsert"
  PROVE  VeleroIsSound'
  <1>1. \A d \in Callers : Executing(d)' /\ IsVelero(d)' => Executing(d) /\ IsVelero(d)
    BY DEF IsVelero, IsSame
  <1>2. AreAlone("VELERO")'
    <2>1. \A d \in Callers : AddonOf(request'[d].op) = "VELERO" => IsVelero(d)'
      BY DEF AddonOf, IsVelero
    <2>2. \A d \in Callers : IsVelero(d) => AddonOf(request[d].op) = "VELERO"
      BY DEF AddonOf, IsVelero
    <2> QED BY <1>1, <2>1, <2>2 DEF VeleroIsSound, AreAlone
  <1>3. rows'["VELERO"].status = "READY" /\ ~velero'.unrecorded =>
          \E id : id = rows'["VELERO"].profile /\ IsStored(id)' /\ Uses(id)'
    BY VeleroRowStaysSound
  <1>4. ASSUME NEW d \in Callers, Executing(d)', IsVelero(d)' PROVE BackupIsSound(d)'
    <2>1. /\ Executing(d) /\ IsVelero(d) /\ IsSame(d)
          /\ \/ request'[d].at = request[d].at
             \/ request'[d].at = "failing" /\ request[d].op = "install" /\ request[d].at # "upsert"
      BY <1>1, <1>4
    <2>2. BackupIsSound(d)
      BY <2>1 DEF VeleroIsSound
    <2>3. rows["VELERO"].status # "READY" => rows'["VELERO"].status # "READY"
      BY DEF VeleroRowStays, NoRow
    <2>4. PICK id : id = request[d].profile
      OBVIOUS
    <2>5. request[d].op # "uninstall" => IsStored(id)
      BY <2>1, <2>4, RequestedFacts DEF IsVelero, VeleroOps
    <2>6. request[d].op # "uninstall" => (HasSecretOf(id) => HasSecretOf(id)') /\ (Uses(id) => Uses(id)')
      BY <2>5, UsesStays DEF KeepsVelero
    <2>7. request[d].at = "location" => request[d].op # "uninstall"
      BY FitFacts
    <2> QED BY <2>1, <2>2, <2>3, <2>4, <2>6, <2>7 DEF BackupIsSound, IsSame, KeepsVelero
  <1> QED BY <1>2, <1>3, <1>4 DEF VeleroIsSound

LEMMA OneVeleroIsAlone ==
  ASSUME VeleroIsSound, NEW c \in Callers, ActsAlone(c), Executing(c), IsVelero(c)
  PROVE  \A d \in Callers : d # c /\ Executing(d)' => ~IsVelero(d)'
  BY DEF VeleroIsSound, AreAlone, IsVelero, ActsAlone, Executing, AddonOf

LEMMA VeleroOfOne ==
  ASSUME NEW c \in Callers, \A d \in Callers : d # c /\ Executing(d)' => ~IsVelero(d)',
         rows'["VELERO"].status = "READY" /\ ~velero'.unrecorded =>
           \E id : id = rows'["VELERO"].profile /\ IsStored(id)' /\ Uses(id)',
         Executing(c)' /\ IsVelero(c)' => BackupIsSound(c)'
  PROVE  VeleroIsSound'
  <1>1. AreAlone("VELERO")'
    BY DEF AreAlone, IsVelero, AddonOf
  <1> QED BY <1>1 DEF VeleroIsSound

LEMMA VeleroRowCallIsSound ==
  ASSUME Sound, VeleroIsSound, ProfilesAreOwn', NEW c \in Callers, IsVelero(c),
         RecordFailure(c) \/ MarkInstalling(c) \/ MarkReady(c)
  PROVE  VeleroIsSound'
  <1>1. Grows /\ ActsAlone(c) /\ IsSame(c) /\ Executing(c)
    BY RequestStepFacts DEF RequestStep, ActsAlone
  <1>2. /\ request[c].op \in {"install", "reuse"}
        /\ velero'.server = velero.server /\ velero'.secret = velero.secret /\ velero'.location = velero.location
    <2>1. CASE MarkReady(c)
      BY <2>1, MarkReadyFacts DEF IsVelero, VeleroOps
    <2>2. CASE RecordFailure(c)
      BY <2>2, RecordFailureFacts DEF IsVelero, VeleroOps, RecordFailure, clusterVars
    <2>3. CASE MarkInstalling(c)
      BY <2>3, MarkInstallingFacts DEF IsVelero, VeleroOps, MarkInstalling, clusterVars
    <2> QED BY <2>1, <2>2, <2>3
  <1>3. PICK id : id = request[c].profile
    OBVIOUS
  <1>4. IsStored(id) /\ BackupIsSound(c)
    BY <1>1, <1>2, <1>3, RequestedFacts DEF VeleroIsSound
  <1>5. CASE MarkReady(c)
    <2>1. /\ request[c].at = "ready" /\ request'[c].at = "ok"
          /\ rows'["VELERO"].profile = id
      BY <1>2, <1>3, <1>5, MarkReadyFacts DEF AddonOf, VeleroOps
    <2>2. Uses(id)
      BY <1>2, <1>3, <1>4, <2>1 DEF BackupIsSound
    <2>3. IsStored(id)' /\ Uses(id)'
      BY <1>1, <1>2, <1>4, <2>2, UsesStays
    <2>4. ~Executing(c)'
      BY <2>1 DEF Executing, Calls
    <2> QED BY <1>1, <2>1, <2>3, <2>4, OneVeleroIsAlone, VeleroOfOne
  <1>6. CASE RecordFailure(c)
    <2>1. /\ request[c].op = "install" /\ request[c].at = "failing" /\ request'[c].at = "failed"
          /\ rows'["VELERO"] = rows["VELERO"] \/ rows'["VELERO"].status = "FAILED"
      BY <1>2, <1>6, RecordFailureFacts DEF AddonOf, VeleroOps
    <2>2. rows'["VELERO"].status # "READY" /\ ~Executing(c)'
      BY <1>4, <2>1 DEF BackupIsSound, Executing, Calls
    <2> QED BY <1>1, <2>2, OneVeleroIsAlone, VeleroOfOne
  <1>7. CASE MarkInstalling(c)
    <2>1. /\ request[c].op = "install" /\ request'[c].at = "secret"
          /\ rows'["VELERO"].status = "INSTALLING"
      BY <1>2, <1>7, MarkInstallingFacts DEF AddonOf, VeleroOps
    <2>2. BackupIsSound(c)'
      BY <1>1, <2>1 DEF BackupIsSound, IsSame
    <2> QED BY <1>1, <2>1, <2>2, OneVeleroIsAlone, VeleroOfOne
  <1> QED BY <1>5, <1>6, <1>7

LEMMA VeleroCallIsSound ==
  ASSUME Sound, VeleroIsSound, ProfilesAreOwn', NEW c \in Callers,
         PutVeleroSecret(c) \/ InstallVelero(c) \/ EnsureBackupStorageLocation(c) \/ WaitForLocation(c)
           \/ UninstallVelero(c)
  PROVE  VeleroIsSound'
  <1>1. Grows /\ ActsAlone(c) /\ IsSame(c) /\ Executing(c)
    BY RequestStepFacts DEF RequestStep, ActsAlone
  <1>2. request[c].op \in VeleroOps /\ IsVelero(c) /\ rows' = rows /\ profiles' = profiles /\ vault' = vault
    BY PutVeleroSecretFacts, InstallVeleroFacts, EnsureLocationFacts, WaitForLocationFacts, UninstallVeleroFacts
       DEF VeleroOps, IsVelero, PutVeleroSecret, InstallVelero, EnsureBackupStorageLocation, WaitForLocation,
           UninstallVelero, tableVars
  <1>3. PICK id : id = request[c].profile
    OBVIOUS
  <1>4. BackupIsSound(c)
    BY <1>1, <1>2 DEF VeleroIsSound
  <1>5. KeyOf(ProfileOf(id))' = KeyOf(ProfileOf(id))
    BY <1>2 DEF KeyOf, ProfileOf
  <1>6. CASE PutVeleroSecret(c)
    <2>1. /\ request[c].op \in {"install", "reuse"} /\ request[c].at = "secret"
          /\ request'[c].at = IF request[c].op = "install" THEN "helm" ELSE "location"
          /\ velero'.secret = KeyOf(ProfileOf(id)) /\ velero'.server = velero.server
          /\ request[c].op = "reuse" => velero'.unrecorded /\ velero.server # "none"
      BY <1>3, <1>6, PutVeleroSecretFacts
    <2>2. rows'["VELERO"].status = "READY" => velero'.unrecorded
      BY <1>2, <1>4, <2>1 DEF BackupIsSound
    <2>3. HasSecretOf(id)'
      BY <1>5, <2>1 DEF HasSecretOf
    <2>4. BackupIsSound(c)'
      BY <1>1, <1>2, <1>3, <1>4, <2>1, <2>3 DEF BackupIsSound, IsSame
    <2> QED BY <1>1, <1>2, <2>2, <2>4, OneVeleroIsAlone, VeleroOfOne
  <1>7. CASE InstallVelero(c)
    <2>1. /\ request[c].op = "install" /\ request[c].at = "helm" /\ request'[c].at = "location"
          /\ velero'.server = "managed" /\ velero'.secret = velero.secret
      BY <1>7, InstallVeleroFacts
    <2>2. rows'["VELERO"].status # "READY"
      BY <1>2, <1>4, <2>1 DEF BackupIsSound
    <2>3. HasSecretOf(id)'
      BY <1>3, <1>4, <1>5, <2>1 DEF HasSecretOf, BackupIsSound
    <2>4. BackupIsSound(c)'
      BY <1>1, <1>3, <2>1, <2>2, <2>3 DEF BackupIsSound, IsSame
    <2> QED BY <1>1, <1>2, <2>2, <2>4, OneVeleroIsAlone, VeleroOfOne
  <1>8. CASE EnsureBackupStorageLocation(c)
    <2>1. /\ request[c].op \in {"install", "reuse"} /\ request[c].at = "location" /\ request'[c].at = "wait"
          /\ velero'.location = id /\ velero'.server = velero.server /\ velero'.secret = velero.secret
          /\ velero'.unrecorded = velero.unrecorded
      BY <1>3, <1>8, EnsureLocationFacts
    <2>2. /\ request[c].op = "install" => rows'["VELERO"].status # "READY"
          /\ request[c].op = "reuse" => velero'.unrecorded
      BY <1>2, <1>4, <2>1 DEF BackupIsSound
    <2>3. Uses(id)'
      BY <1>3, <1>4, <1>5, <2>1 DEF HasSecretOf, BackupIsSound, Uses
    <2>4. BackupIsSound(c)'
      BY <1>1, <1>3, <2>1, <2>2, <2>3 DEF BackupIsSound, IsSame
    <2> QED BY <1>1, <1>2, <2>1, <2>2, <2>4, OneVeleroIsAlone, VeleroOfOne
  <1>9. CASE WaitForLocation(c)
    <2>1. /\ request[c].op \in {"install", "reuse"} /\ request[c].at = "wait" /\ request'[c].at = "ready"
          /\ velero' = velero
      BY <1>9, WaitForLocationFacts DEF clusterVars
    <2>2. /\ request[c].op = "install" => rows'["VELERO"].status # "READY"
          /\ request[c].op = "reuse" => velero'.unrecorded
      BY <1>2, <1>4, <2>1 DEF BackupIsSound
    <2>3. Uses(id)'
      BY <1>3, <1>4, <1>5, <2>1 DEF HasSecretOf, BackupIsSound, Uses
    <2>4. BackupIsSound(c)'
      BY <1>1, <1>3, <2>1, <2>2, <2>3 DEF BackupIsSound, IsSame
    <2> QED BY <1>1, <1>2, <2>1, <2>2, <2>4, OneVeleroIsAlone, VeleroOfOne
  <1>10. CASE UninstallVelero(c)
    <2>1. request[c].op = "uninstall" /\ request'[c].at = "ready" /\ velero'.unrecorded
      BY <1>10, UninstallVeleroFacts
    <2>2. BackupIsSound(c)'
      BY <1>1, <2>1 DEF BackupIsSound, IsSame
    <2> QED BY <1>1, <1>2, <2>1, <2>2, OneVeleroIsAlone, VeleroOfOne
  <1> QED BY <1>6, <1>7, <1>8, <1>9, <1>10

\* A call of a request for the object storage.
LEMMA OtherThanVelero ==
  ASSUME Sound, VeleroIsSound, ProfilesAreOwn', NEW c \in Callers, RequestStep(c), ~IsVelero(c)
  PROVE  VeleroIsSound'
  <1>1. Grows /\ ActsAlone(c) /\ IsSame(c)
    BY RequestStepFacts DEF ActsAlone
  <1>2. ~(PutVeleroSecret(c) \/ InstallVelero(c) \/ EnsureBackupStorageLocation(c) \/ WaitForLocation(c)
          \/ UninstallVelero(c))
    BY PutVeleroSecretFacts, InstallVeleroFacts, EnsureLocationFacts, WaitForLocationFacts, UninstallVeleroFacts
       DEF IsVelero, VeleroOps
  <1>3. velero' = velero
    <2>1. CASE MarkReady(c)
      BY <2>1, MarkReadyFacts DEF IsVelero, VeleroOps
    <2>2. CASE ~MarkReady(c)
      BY <1>2, <2>2 DEF RequestStep, RecordFailure, RemoveCredential, MarkInstalling, StoreCredential, PutMinioSecret,
        InstallMinio, RestartMinio, ReloadCredential, SaveProfile, TestProfile, clusterVars
    <2> QED BY <2>1, <2>2
  <1>4. VeleroRowStays
    <2>1. CASE RecordFailure(c) \/ MarkInstalling(c) \/ MarkReady(c)
      BY <2>1, RecordFailureFacts, MarkInstallingFacts, MarkReadyFacts, AddonTypeFacts
         DEF VeleroRowStays, AddonOf, VeleroOps, IsVelero, Sound
    <2>2. CASE ~(RecordFailure(c) \/ MarkInstalling(c) \/ MarkReady(c))
      BY <1>2, <2>2 DEF VeleroRowStays, RequestStep, RemoveCredential, StoreCredential, PutMinioSecret,
        InstallMinio, RestartMinio, ReloadCredential, SaveProfile, TestProfile, tableVars
    <2> QED BY <2>1, <2>2
  <1>5. ASSUME NEW d \in Callers, Executing(d)', IsVelero(d)'
        PROVE  Executing(d) /\ IsSame(d) /\ request'[d].at = request[d].at
    BY <1>1, <1>5 DEF ActsAlone, IsVelero, IsSame, Executing
  <1> QED BY <1>1, <1>3, <1>4, <1>5, VeleroRests DEF KeepsVelero

LEMMA VeleroStaysSound ==
  ASSUME Sound, AddonStep, ProfilesAreOwn', "VELERO" \notin overlapped'
  PROVE  VeleroIsSound'
  <1>1. Grows
    BY AddonStepGrows
  <1>2. VeleroIsSound
    BY <1>1 DEF Sound, AddonsInvariant, Grows
  <1>3. ASSUME NEW c \in Callers, RequestStep(c) PROVE VeleroIsSound'
    <2>1. CASE ~IsVelero(c)
      BY <1>2, <1>3, <2>1, OtherThanVelero
    <2>2. CASE IsVelero(c)
      <3>1. ~(RemoveCredential(c) \/ StoreCredential(c) \/ PutMinioSecret(c) \/ InstallMinio(c)
              \/ RestartMinio(c) \/ ReloadCredential(c) \/ SaveProfile(c) \/ TestProfile(c))
        BY <2>2, RemoveCredentialFacts, StoreCredentialFacts, PutMinioSecretFacts, InstallMinioFacts,
           RestartMinioFacts, ReloadCredentialFacts, SaveProfileFacts, TestProfileFacts
           DEF IsVelero, VeleroOps, IsMinio, MinioOps
      <3> QED BY <1>2, <1>3, <2>2, <3>1, VeleroRowCallIsSound, VeleroCallIsSound DEF RequestStep
    <2> QED BY <2>1, <2>2
  <1>4. ASSUME NEW c \in Callers, CallFails(c) PROVE VeleroIsSound'
    <2>1. /\ ActsAlone(c) /\ Executing(c) /\ request'[c].at \in {"failing", "unstoring", "failed"}
          /\ request'[c].at = "failing" => RecordsFailure(c)
          /\ request'[c].at = "unstoring" => RemovesCredential(c)
          /\ rows' = rows /\ velero' = velero
      BY <1>4, CallFailsFacts DEF tableVars, clusterVars
    <2>2. \A d \in Callers : Executing(d)' /\ IsVelero(d)' =>
            /\ Executing(d) /\ IsSame(d)
            /\ \/ request'[d].at = request[d].at
               \/ request'[d].at = "failing" /\ request[d].op = "install" /\ request[d].at # "upsert"
      BY <2>1 DEF ActsAlone, Executing, Calls, IsSame, RecordsFailure, RemovesCredential, IsVelero, VeleroOps
    <2> QED BY <1>1, <1>2, <2>1, <2>2, VeleroRests DEF VeleroRowStays, KeepsVelero
  <1>5. ASSUME NEW c \in Callers, Asks(c) PROVE VeleroIsSound'
    <2>1. /\ AsksAlone(c) /\ FirstCall(c) /\ rows' = rows /\ velero' = velero
          /\ \A d \in Callers : d # c => request'[d] = request[d]
      BY <1>5, AsksFacts DEF AsksAlone, tableVars, clusterVars
    <2>2. CASE ~IsVelero(c)'
      <3>1. \A d \in Callers : Executing(d)' /\ IsVelero(d)' =>
              Executing(d) /\ IsSame(d) /\ request'[d].at = request[d].at
        BY <2>1, <2>2 DEF Executing, IsSame
      <3> QED BY <1>1, <1>2, <2>1, <3>1, VeleroRests DEF VeleroRowStays, KeepsVelero
    <2>3. CASE IsVelero(c)'
      <3>1. AddonOf(request'[c].op) = "VELERO" /\ ~Meets(c, request'[c].op)
        BY <2>1, <2>3 DEF IsVelero, AddonOf, AsksAlone
      <3>2. \A d \in Callers : d # c /\ Executing(d)' => ~IsVelero(d)'
        BY <2>1, <3>1 DEF Meets, IsVelero, AddonOf, Executing
      <3>3. BackupIsSound(c)'
        BY <2>1, <2>3 DEF FirstCall, BackupIsSound, IsVelero, VeleroOps
      <3>4. rows'["VELERO"].status = "READY" /\ ~velero'.unrecorded =>
              \E id : id = rows'["VELERO"].profile /\ IsStored(id)' /\ Uses(id)'
        BY <1>1, <1>2, <2>1, VeleroRowStaysSound DEF VeleroRowStays, KeepsVelero
      <3> QED BY <3>2, <3>3, <3>4, VeleroOfOne
    <2> QED BY <2>2, <2>3
  <1>6. CASE ApiCrashes
    <2>1. \A d \in Callers : ~Executing(d)'
      BY <1>6, CrashFacts, FitFacts DEF Executing, Calls, Moments, EndsOfRequests
    <2> QED BY <1>1, <1>2, <1>6, <2>1, CrashFacts, VeleroRests DEF VeleroRowStays, KeepsVelero, tableVars, clusterVars
  <1>7. ASSUME request' = request, KeepsVelero, VeleroRowStays PROVE VeleroIsSound'
    <2>1. \A d \in Callers : Executing(d)' /\ IsVelero(d)' =>
            Executing(d) /\ IsSame(d) /\ request'[d].at = request[d].at
      BY <1>7 DEF Executing, IsSame
    <2> QED BY <1>1, <1>2, <1>7, <2>1, VeleroRests
  <1>8. CASE ChangesEnvironment
    <2>1. Rests /\ VeleroRowStays
      BY <1>8, EnvironmentFacts, AddonTypeFacts DEF ChangesEnvironment, VeleroRowStays, Sound
    <2> QED BY <1>7, <2>1 DEF Rests
  <1>9. CASE PodRestarts \/ VeleroValidates \/ EnsureApplicationSecret \/ EnsureDefaultMinIO \/ InstallDefaultMinIO
    <2>1. Rests /\ VeleroRowStays
      BY <1>9, PodRestartsFacts, ValidatesFacts, ApplicationSecretFacts, DefaultMinioFacts, InstallDefaultFacts DEF VeleroRowStays
    <2> QED BY <1>7, <2>1 DEF Rests
  <1>10. CASE UNCHANGED addonVars
    BY <1>7, <1>10 DEF addonVars, tableVars, clusterVars, VeleroRowStays, KeepsVelero
  <1> QED BY <1>3, <1>4, <1>5, <1>6, <1>8, <1>9, <1>10 DEF AddonStep

(***************************************************************************)
(* The platform.                                                           *)
(***************************************************************************)
RestTypeOK ==
  /\ scenario \in Scenarios /\ deploy \in DeployType
  /\ platform \in [release : BOOLEAN, changed : BOOLEAN]
  /\ faults \in 0..scenario.faults

PlatformInvariant == RestTypeOK /\ RegistryInvariant /\ AddonsTypeOK /\ AddonsInvariant

LEMMA ScenariosLast ==
  ASSUME scenario \in Scenarios, faults \in 0..scenario.faults, [Next]_vars
  PROVE  scenario' = scenario /\ faults' \in 0..scenario.faults
  <1>1. scenario' = scenario
    BY ScenarioStays
  <1>2. faults' = faults \/ Fault
    BY DEF Next, vars, StartDeploy, DeployStep, ImagesImported, InspectPlatform, EnsureApplicationSecret,
       EnsureDefaultMinIO, InstallDefaultMinIO, InstallPlatform, PlatformLogin, ListEnvironments, RegisterEnvironment,
       TestEnvironment, RequestAdoption, AdoptionAnswers, EndUnregistered, DeployFails, DeployIsKilled, ImportByHand, ImportOn,
       ImportFails, FileChanges, Request, RequestGoesOn, RequestFails, ChangeEnvironment, ChangePassword, Crash,
       Reschedule, Validate, CreateEnvironmentHandler, TestEnvironmentHandler, RefreshCapabilitiesHandler,
       DeleteEnvironmentHandler, Probed
  <1>3. scenario.faults \in Nat
    BY PlatformAssumption
  <1> QED BY <1>1, <1>2, <1>3 DEF Fault

LEMMA PlatformKeeps ==
  ASSUME platform \in [release : BOOLEAN, changed : BOOLEAN], [Next]_vars
  PROVE  platform' \in [release : BOOLEAN, changed : BOOLEAN]
  <1>1. CASE ~CommandStep
    BY <1>1, CommandRests
  <1>2. CASE CommandStep
    BY <1>2 DEF CommandStep, StartDeploy, DeployStep, ImagesImported, InspectPlatform, EnsureApplicationSecret,
       EnsureDefaultMinIO, InstallDefaultMinIO, InstallPlatform, PlatformLogin, ListEnvironments, RegisterEnvironment,
       TestEnvironment, RequestAdoption, AdoptionAnswers, EndUnregistered, DeployFails, DeployIsKilled, ImportFails, ChangePassword
  <1> QED BY <1>1, <1>2

\* The profiles of an installed platform are external ones.
LEMMA AddonsStart ==
  ASSUME Init
  PROVE  AddonsTypeOK /\ AddonsInvariant
  <1>1. scenario.installed \in BOOLEAN
    BY PlatformAssumption DEF Init
  <1>2. /\ rows = [type \in AddonTypes |-> NoRow] /\ request = [c \in Callers |-> NoRequest]
        /\ deploy = NoDeploy /\ overlapped = {}
        /\ minio = [release |-> FALSE, secret |-> "none", running |-> "none"]
        /\ platform.release = scenario.installed
    BY DEF Init
  <1>3. /\ masterKey \in {"none", "first"} /\ (scenario.installed <=> masterKey = "first")
        /\ masterKey = "none" => profiles = {}
    BY <1>1 DEF Init
  <1>4. /\ profiles \subseteq [id : Ids, credential : Ids, place : Places, name : Names]
        /\ \A p \in profiles : p.id \in Stored /\ p.credential = p.id /\ p.place = p.id
    <2>1. Stored \subseteq Ids /\ Stored \subseteq Places /\ Stored \subseteq Names
      BY AddonAssumption DEF Ids, Places
    <2>2. \A p \in profiles : \E c \in Stored : p = [id |-> c, credential |-> c, place |-> c, name |-> c]
      BY <1>1 DEF Init
    <2> QED BY <2>1, <2>2
  <1>5. vault \in [Ids -> [key : Keys, seal : MasterKeys]]
    <2>1. /\ [key |-> "external", seal |-> "first"] \in [key : Keys, seal : MasterKeys]
          /\ NoCredential \in [key : Keys, seal : MasterKeys]
      BY DEF Keys, MasterKeys, NoCredential
    <2> QED BY <2>1 DEF Init
  <1>6. /\ \A t \in AddonTypes : rows[t] = NoRow
        /\ \A c \in Callers : request[c].op = "none" /\ request[c].at = "unused" /\ request[c] \in RequestType
    BY <1>2, AddonAssumption DEF NoRequest, RequestType, Operations, Moments, Places
  <1>7. AddonsTypeOK
    <2>1. environment \in [version : 0..MaxEnvironments,
                            status : {"absent", "PENDING", "CONNECTED", "DISCONNECTED", "ERROR"}]
      <3>1. 0 \in 0..MaxEnvironments /\ 1 \in 0..MaxEnvironments
        BY AddonAssumption
      <3> QED BY <1>1, <3>1 DEF Init
    <2>2. rows \in [AddonTypes -> RowType]
      <3>1. NoRow \in RowType
        BY DEF NoRow, RowType
      <3> QED BY <1>2, <3>1
    <2>3. request \in [Callers -> RequestType]
      BY <1>2, <1>6
    <2>4. masterKey \in MasterKeys
      BY <1>3 DEF MasterKeys
    <2>5. /\ minio \in [release : BOOLEAN, secret : Keys, running : Keys]
          /\ velero \in [server : {"none", "managed", "foreign"}, secret : Keys, location : Ids \cup {"none"},
                          available : BOOLEAN, unrecorded : BOOLEAN]
      BY <1>1 DEF Init, Keys
    <2> QED BY <1>2, <1>4, <1>5, <2>1, <2>2, <2>3, <2>4, <2>5
            DEF AddonsTypeOK, RequestType, Operations, Moments, RowType
  <1>8. \A c \in Callers : ~Executing(c) /\ RequestIsOwn(c) /\ RequestHasStored(c)
    BY <1>6 DEF Executing, Calls, RequestIsOwn, RequestHasStored, CallFits, IsManagedRequest, IsMinio, MinioOps, At
  <1>9. rows["MINIO"] = NoRow /\ rows["VELERO"] = NoRow
    BY <1>6 DEF AddonTypes
  <1>10. ProfilesAreOwn
    <2>1. \A p, q \in profiles : p.id = q.id => p = q
      BY <1>1 DEF Init
    <2>2. \A p \in profiles : p.id \notin Callers /\ p.credential \notin Callers
      BY <1>4, AddonAssumption
    <2> QED BY <1>9, <2>1, <2>2 DEF ProfilesAreOwn, NoRow, ManagedIds
  <1>11. KeyIsFirst
    BY <1>1, <1>2, <1>3, <1>6 DEF KeyIsFirst, NoDeploy
  <1>12. DeployIsSound
    <2>1. importer[Command].stage = "idle"
      BY PlatformAssumption DEF Init, RegistryInit, NoImport
    <2> QED BY <1>2, <2>1 DEF DeployIsSound, NoDeploy, IsRunning
  <1>13. StorageIsSound
    <2>1. \A p \in profiles : p.id # "none"
      BY <1>4, AddonAssumption
    <2> QED BY <1>8, <1>9, <2>1 DEF StorageIsSound, AreAlone, NoRow
  <1>14. VeleroIsSound
    BY <1>8, <1>9 DEF VeleroIsSound, AreAlone, NoRow
  <1> QED BY <1>7, <1>8, <1>10, <1>11, <1>12, <1>13, <1>14 DEF AddonsInvariant

LEMMA PlatformStarts == Init => PlatformInvariant
  <1> SUFFICES ASSUME Init PROVE PlatformInvariant
    OBVIOUS
  <1>1. RestTypeOK
    <2>1. scenario.faults \in Nat /\ scenario.installed \in BOOLEAN
      BY PlatformAssumption DEF Init
    <2>2. NoDeploy \in DeployType
      BY AddonAssumption DEF NoDeploy, DeployType, DeployStages
    <2> QED BY <2>1, <2>2 DEF Init, RestTypeOK
  <1> QED BY <1>1, AddonsStart, RegistryBegins DEF PlatformInvariant

LEMMA InvariantKeeps ==
  ASSUME PlatformInvariant, [Next]_vars
  PROVE  PlatformInvariant'
  <1>1. Sound
    BY DEF PlatformInvariant, Sound
  <1>2. AddonStep /\ AddonsTypeOK'
    BY <1>1, StepsAre, AddonStepGrows DEF PlatformInvariant, RestTypeOK
  <1>3. ProfilesAreOwn' /\ \A c \in Callers : RequestIsOwn(c)' /\ RequestHasStored(c)'
    BY <1>1, <1>2, ProfilesStayOwn, RequestsStayOwn, RequestsHaveStored
  <1>4. KeyIsFirst' /\ DeployIsSound' /\ deploy' \in DeployType
    BY <1>1, KeyStaysFirst, DeployStaysSound DEF PlatformInvariant, RestTypeOK
  <1>5. /\ "MINIO" \notin overlapped' => StorageIsSound'
        /\ "VELERO" \notin overlapped' => VeleroIsSound'
    BY <1>1, <1>2, <1>3, StorageStaysSound, VeleroStaysSound
  <1>6. AddonsInvariant'
    BY <1>3, <1>4, <1>5 DEF AddonsInvariant
  <1>7. RegistryInvariant'
    BY RegistryKeeps DEF PlatformInvariant, RestTypeOK
  <1>8. RestTypeOK'
    BY <1>4, ScenariosLast, PlatformKeeps DEF PlatformInvariant, RestTypeOK
  <1> QED BY <1>2, <1>6, <1>7, <1>8 DEF PlatformInvariant

\* The inductive invariant: types, the registry's, the add-ons'.
LEMMA PlatformInvariantHolds == Spec => []PlatformInvariant
  <1>1. PlatformInvariant /\ [Next]_vars => PlatformInvariant'
    BY InvariantKeeps
  <1> QED BY <1>1, PlatformStarts, PTL DEF Spec

\* Types of the bundle's import, the add-ons and the command, for any number of requests,
\* stored profiles, importers and scenarios.
THEOREM PlatformTypesHold == Spec => []PlatformTypeOK
  <1>1. PlatformInvariant => PlatformTypeOK
    BY DEF PlatformInvariant, PlatformTypeOK, RestTypeOK, DeployType, RegistryInvariant
  <1> QED BY <1>1, PlatformInvariantHolds, PTL

\* A run of the command that found no platform, or that reports a registration, completes
\* with a managed profile whose credential the platform's key opens (registerDefaultObjectStorage
\* fails closed on a fresh installation): whatever failed before it or is asked for meanwhile.
THEOREM FreshInstallsHaveStorage == Spec => []FreshInstallHasStorage
  <1>1. PlatformInvariant => FreshInstallHasStorage
    BY DEF PlatformInvariant, AddonsInvariant, DeployIsSound, HasStorage, FreshInstallHasStorage
  <1> QED BY <1>1, PlatformInvariantHolds, PTL

\* A READY row of MinIO tells of a profile whose keys open MinIO now and after its next
\* restart (Bootstrap and Adopt probe before they mark it), until two requests overlap.
THEOREM ReadyStoragesWork == Spec => []ReadyStorageWorks
  <1>1. PlatformInvariant => ReadyStorageWorks
    BY DEF PlatformInvariant, AddonsInvariant, StorageIsSound, IsStored, Works, ReadyStorageWorks
  <1> QED BY <1>1, PlatformInvariantHolds, PTL

\* A READY row of Velero names the profile whose location and keys Velero has (Install and
\* Reuse write Secret and location before the row), until two requests overlap or the cluster
\* was changed without the row.
THEOREM ReadyVelerosUseTheirProfiles == Spec => []ReadyVeleroUsesItsProfile
  <1>1. PlatformInvariant => ReadyVeleroUsesItsProfile
    BY DEF PlatformInvariant, AddonsInvariant, VeleroIsSound, Uses, HasSecretOf, ReadyVeleroUsesItsProfile
  <1> QED BY <1>1, PlatformInvariantHolds, PTL
=============================================================================
