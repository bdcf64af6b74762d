--------------------------- MODULE RegistryImport ---------------------------
(***************************************************************************)
(* Pushing the images of an offline bundle into a registry.  Every image   *)
(* of the image lock has an OCI layout in the bundle: a tree of            *)
(* descriptors, indexes and manifests above blobs.  RegistryImporter walks *)
(* the tree depth first, skips blobs the registry has, puts a manifest     *)
(* after what it refers to, and tags the root at the end.  An import that  *)
(* fails is started again from the first image of the lock.                *)
(***************************************************************************)
EXTENDS Naturals, Sequences, FiniteSets

CONSTANTS
  Projects,   \* what --target-project may name; "locked" is its absence
  Lock,       \* the image lock: a sequence of [targets, root], a repository for each project
  Children,   \* what every index and manifest refers to, in order
  Importers   \* the processes that import

LockedImages == DOMAIN Lock
Parents == DOMAIN Children
RefersTo(d) == IF d \in Parents THEN {Children[d][k] : k \in DOMAIN Children[d]} ELSE {}
Descriptors == Parents \cup (UNION {RefersTo(d) : d \in Parents}) \cup {Lock[i].root : i \in LockedImages}
Repositories == UNION {{Lock[i].targets[project] : project \in Projects} : i \in LockedImages}

ASSUME LockAssumption ==
  /\ "locked" \in Projects
  /\ Lock \in Seq([targets : [Projects -> Repositories], root : Parents]) /\ Lock # << >>
  /\ \A d \in Parents : Children[d] \in Seq(Descriptors)

\* A manifest contains the digests of what it refers to, so none is below itself.
ASSUME DigestAssumption ==
  \A S \in SUBSET Descriptors : S # {} => \E d \in S : RefersTo(d) \cap S = {}

VARIABLES
  spoiled,    \* files of the bundle that changed: pairs of an image and a descriptor
  registry,   \* what the registry holds: pairs of a repository and a descriptor
  tags,       \* the tags that exist: pairs of a locked image and a project
  importer    \* what each importer does

registryVars == <<spoiled, registry, tags, importer>>

\* The image at hand and the last one of the import; stack holds the manifests on
\* the way to the current one, with the number of children of each that have been
\* pushed.
ImporterStages == {"idle", "layout", "pushing", "imported", "failed"}
NoImport == [stage |-> "idle", project |-> "locked", image |-> 1, last |-> 1, stack |-> << >>, visited |-> {}]

RegistryTypeOK ==
  /\ spoiled \subseteq LockedImages \X Descriptors
  /\ registry \subseteq Repositories \X Descriptors
  /\ tags \subseteq LockedImages \X Projects
  /\ importer \in [Importers -> [stage : ImporterStages, project : Projects, image : LockedImages,
                     last : LockedImages, stack : Seq([manifest : Parents, pushed : Nat]), visited : SUBSET Parents]]

RegistryInit(complete) ==
  /\ spoiled = {}
  /\ registry = IF complete THEN Repositories \X Descriptors ELSE {}
  /\ tags = IF complete THEN LockedImages \X Projects ELSE {}
  /\ importer = [p \in Importers |-> NoImport]

\* The descriptors of the tree below one.
Tree[d \in Descriptors] == {d} \cup UNION {Tree[c] : c \in RefersTo(d)}

Intact(image, d) == <<image, d>> \notin spoiled
LayoutIsValid(image) == \A d \in Tree[Lock[image].root] : Intact(image, d)
BundleIsValid == spoiled = {}

Top(p) == importer[p].stack[Len(importer[p].stack)]
Popped(p) == SubSeq(importer[p].stack, 1, Len(importer[p].stack) - 1)
\* RetargetImage
RepositoryOf(p) == Lock[importer[p].image].targets[importer[p].project]
Push(p, d) == Append(importer[p].stack, [manifest |-> d, pushed |-> 0])
NextChild(p) == Children[Top(p).manifest][Top(p).pushed + 1]
ChildrenLeft(p) == Top(p).pushed < Len(Children[Top(p).manifest])
Counted(stack) == [stack EXCEPT ![Len(stack)].pushed = @ + 1]
CountChild(p) == Counted(importer[p].stack)

Pushing(p) == importer[p].stage = "pushing"

\* VerifyDirectory has accepted the bundle; of its lock the images from the first
\* to the last are imported.
BeginImport(p, project, first, last) ==
  /\ importer[p].stage \notin {"layout", "pushing"}
  /\ BundleIsValid
  /\ importer' = [importer EXCEPT ![p] =
       [stage |-> "layout", project |-> project, image |-> first, last |-> last, stack |-> << >>, visited |-> {}]]
  /\ UNCHANGED <<spoiled, registry, tags>>

\* All images, or with --image one of them.
ImportAll(p, project) == BeginImport(p, project, 1, Len(Lock))
ImportOne(p, project) == \E image \in LockedImages : BeginImport(p, project, image, image)

\* Import checks the image's layout again; a walk begins with nothing visited.
StillVisited(p) == importer[p].visited
NothingVisited(p) == {}

Import(p) ==
  /\ importer[p].stage = "layout"
  /\ LayoutIsValid(importer[p].image)
  /\ importer' = [importer EXCEPT
       ![p].stage = "pushing",
       ![p].visited = NothingVisited(p),
       ![p].stack = <<[manifest |-> Lock[importer[p].image].root, pushed |-> 0]>>]
  /\ UNCHANGED <<spoiled, registry, tags>>

\* pushDescriptor enters a manifest, or passes over one it has visited.
Descend(p) ==
  /\ Pushing(p) /\ importer[p].stack # << >> /\ ChildrenLeft(p)
  /\ NextChild(p) \in Parents
  /\ Intact(importer[p].image, NextChild(p))
  /\ importer' = [importer EXCEPT ![p].stack =
       IF NextChild(p) \in importer[p].visited THEN CountChild(p) ELSE Push(p, NextChild(p))]
  /\ UNCHANGED <<spoiled, registry, tags>>

PushBlob(p) ==
  /\ Pushing(p) /\ importer[p].stack # << >> /\ ChildrenLeft(p)
  /\ NextChild(p) \notin Parents
  /\ Intact(importer[p].image, NextChild(p))
  /\ registry' = registry \cup {<<RepositoryOf(p), NextChild(p)>>}
  /\ importer' = [importer EXCEPT ![p].stack = CountChild(p)]
  /\ UNCHANGED <<spoiled, tags>>

PutManifest(p) ==
  /\ Pushing(p) /\ importer[p].stack # << >> /\ ~ChildrenLeft(p)
  /\ registry' = registry \cup {<<RepositoryOf(p), Top(p).manifest>>}
  /\ importer' = [importer EXCEPT
       ![p].visited = @ \cup {Top(p).manifest},
       ![p].stack = IF Popped(p) = << >> THEN << >> ELSE Counted(Popped(p))]
  /\ UNCHANGED <<spoiled, tags>>

\* The root is put once more, under the tag; then the next image follows.
TagImage(p) ==
  /\ Pushing(p) /\ importer[p].stack = << >>
  /\ tags' = tags \cup {<<importer[p].image, importer[p].project>>}
  /\ importer' = [importer EXCEPT ![p] =
       IF @.image = @.last THEN [@ EXCEPT !.stage = "imported"]
       ELSE [@ EXCEPT !.stage = "layout", !.image = importer[p].image + 1]]
  /\ UNCHANGED <<spoiled, registry>>

\* Whether the next descriptor, or the layout, fails its verification.
Corrupt(p) ==
  \/ importer[p].stage = "layout" /\ ~LayoutIsValid(importer[p].image)
  \/ /\ Pushing(p) /\ importer[p].stack # << >> /\ ChildrenLeft(p)
     /\ ~Intact(importer[p].image, NextChild(p))

\* The verification fails, the registry answers with an error, the process dies.
ImportEnds(p) ==
  /\ importer[p].stage \in {"layout", "pushing"}
  /\ importer' = [importer EXCEPT ![p] = [NoImport EXCEPT !.stage = "failed"]]
  /\ UNCHANGED <<spoiled, registry, tags>>

ImportStep(p) == Import(p) \/ Descend(p) \/ PushBlob(p) \/ PutManifest(p) \/ TagImage(p)

\* A file of an image's layout changes.
Spoil(image, d) ==
  /\ d \in Tree[Lock[image].root]
  /\ spoiled' = spoiled \cup {<<image, d>>}
  /\ UNCHANGED <<registry, tags, importer>>
-----------------------------------------------------------------------------
\* Whatever imports failed, were repeated, overlapped or went to another project,
\* with files of the bundle changing under them: everything a tag leads to is in
\* its repository (RegistryImporter tags an image last, and what it skips was there).
TagsAreComplete ==
  \A tag \in tags :
    LET image == Lock[tag[1]]
    IN  \A d \in Tree[image.root] : <<image.targets[tag[2]], d>> \in registry
=============================================================================
