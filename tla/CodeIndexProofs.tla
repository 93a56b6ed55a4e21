---------------------------- MODULE CodeIndexProofs ---------------------------
(***************************************************************************)
(* Proofs about CodeIndex, for every set of files, texts and classes, and  *)
(* any number of starts, edits and failures:                               *)
(*                                                                         *)
(*   IndexTypeCorrect      types                                           *)
(*   IndexHoldsOneBuild    IndexIsItsBuild, from Building: what the build  *)
(*                         of an index has read and still has to save      *)
(*   OrphansAreNotBacked   BackedKept, from the same invariant             *)
(*   UsersAreTheGraphs     UsedByIsGraph, and                              *)
(*   DescribedIsFound      StageOneFinds, from Enriching: what is true of  *)
(*                         the classes the last pass has done              *)
(*   ForcedRunsAreCurrent  ForcedRunIsCurrent, from Progress: what every   *)
(*                         loop of a run in which nothing failed has done  *)
(*                         for what is behind it, one lemma for each action*)
(*                                                                         *)
(* The files before the one a loop is at are told by their number: a class *)
(* has the description and the users of the last of them that declares it  *)
(* (LastOf).                                                               *)
(***************************************************************************)
EXTENDS CodeIndex, FiniteSetTheorems, WellFoundedInduction, TLAPS

-----------------------------------------------------------------------------
\* What SetToSeq makes of a finite set is a sequence of all its elements.
LEMMA EnumerationLists ==
    ASSUME NEW S, IsFiniteSet(S)
    PROVE  SetToSeq(S) \in Seq(S) /\ Range(SetToSeq(S)) = S
<1> DEFINE n == Cardinality(S)
           e == SetToSeq(S)
<1>1. n \in Nat /\ ExistsBijection(1 .. n, S)
  BY FS_CardinalityType
<1>2. PICK f : f \in Bijection(1 .. n, S)
  BY <1>1 DEF ExistsBijection
<1>3. f \in [1 .. n -> S] /\ IsInjective(f)
  BY <1>2 DEF Bijection, Injection
<1>4. e \in [1 .. n -> S] /\ IsInjective(e)
  BY <1>3 DEF SetToSeq
<1>5. Cardinality(1 .. n) = n
  BY <1>1, FS_Interval
<1> HIDE DEF e
<1>6. e \in Injection(1 .. n, S)
  BY <1>4 DEF Injection
<1>7. e \in Surjection(1 .. n, S)
  BY <1>5, <1>6, FS_Injection
<1>8. \A y \in S : \E x \in 1 .. n : e[x] = y
  BY <1>7 DEF Surjection
<1>9. Range(e) = S
  BY <1>4, <1>8 DEF Range
<1>10. e \in Seq(S)
  BY <1>1, <1>4
<1> QED
  BY <1>9, <1>10 DEF e

\* The elements of a sequence are its head and those of its tail.
LEMMA HeadAndTail ==
    ASSUME NEW S, NEW q \in Seq(S), q # <<>>
    PROVE  /\ Head(q) \in S /\ Tail(q) \in Seq(S)
           /\ Range(q) = {Head(q)} \cup Range(Tail(q))
           /\ Len(Tail(q)) = Len(q) - 1
           /\ \A i \in DOMAIN Tail(q) : Tail(q)[i] = q[i + 1] /\ i + 1 \in DOMAIN q
<1>1. Len(q) \in Nat \ {0} /\ DOMAIN q = 1 .. Len(q)
  OBVIOUS
<1>2. /\ Head(q) \in S /\ Tail(q) \in Seq(S) /\ Head(q) = q[1]
      /\ Len(Tail(q)) = Len(q) - 1
      /\ \A i \in DOMAIN Tail(q) : Tail(q)[i] = q[i + 1]
  OBVIOUS
<1>3. DOMAIN Tail(q) = 1 .. Len(q) - 1
  BY <1>2
<1>4. \A i \in DOMAIN q \ {1} : i - 1 \in DOMAIN Tail(q) /\ Tail(q)[i - 1] = q[i]
  BY <1>1, <1>2, <1>3
<1>5. Range(q) = {Head(q)} \cup Range(Tail(q))
  <2> DEFINE t == Tail(q)
             h == Head(q)
  <2>1. /\ h = q[1] /\ 1 \in DOMAIN q
        /\ \A i \in DOMAIN t : t[i] = q[i + 1] /\ i + 1 \in DOMAIN q
        /\ \A i \in DOMAIN q \ {1} : i - 1 \in DOMAIN t /\ t[i - 1] = q[i]
    BY <1>1, <1>2, <1>3, <1>4
  <2> HIDE DEF t, h
  <2>2. Range(q) = {h} \cup Range(t)
    BY <2>1 DEF Range
  <2> QED
    BY <2>2 DEF t, h
<1> QED
  BY <1>1, <1>2, <1>3, <1>5

LEMMA NotEmpty == \A q : Len(q) # 0 => q # <<>>
  OBVIOUS

LEMMA TailLeft ==
    ASSUME NEW S, NEW q \in Seq(S), q # <<>>, Len(q) > 1
    PROVE  Tail(q) # <<>>
<1> DEFINE t == Tail(q)
           n == Len(q)
<1>1. n \in Nat /\ Len(t) = n - 1 /\ n > 1
  BY HeadAndTail
<1> HIDE DEF t, n
<1>2. Len(t) # 0
  BY <1>1
<1> QED
  BY <1>2, NotEmpty DEF t

LEMMA EmptyRange == \A q : q = <<>> => Range(q) = {}
  BY DEF Range

\* The table of chunks as a set of rows and how often each is there.
Table(rows) ==
    rows \in [DOMAIN rows -> Nat \ {0}]

\* A row that is added.
LEMMA RowAdded ==
    ASSUME Table(chunks), NEW c
    PROVE  LET after == chunks (+) SetToBag({c})
           IN  /\ DOMAIN after = DOMAIN chunks \cup {c}
               /\ Table(after)
               /\ \A d \in DOMAIN chunks \ {c} : after[d] = chunks[d]
               /\ c \notin DOMAIN chunks => after[c] = 1
  BY DEF (+), SetToBag, Table

\* What is left without the rows of one strategy.
LEMMA RowsLeft ==
    ASSUME Table(chunks), NEW s
    PROVE  /\ DOMAIN Without(s) = {c \in DOMAIN chunks : c.strategy # s}
           /\ Table(Without(s))
           /\ \A c \in DOMAIN Without(s) : Without(s)[c] = chunks[c]
  BY DEF Without, BagToSet, Table

\* What a function takes on a finite set is finite.
LEMMA ImageFinite ==
    ASSUME NEW g, IsFiniteSet(DOMAIN g)
    PROVE  IsFiniteSet(Range(g))
<1>1. g \in Surjection(DOMAIN g, Range(g)) \/ ~ (g \in [DOMAIN g -> Range(g)])
  BY DEF Surjection, Range
<1> DEFINE h == [x \in DOMAIN g |-> g[x]]
<1>2. h \in Surjection(DOMAIN g, Range(g))
  BY DEF Surjection, Range
<1> HIDE DEF h
<1> QED
  BY <1>2, FS_Surjection

LEMMA WiderSeq ==
    ASSUME NEW S, NEW T, S \subseteq T, NEW q \in Seq(S)
    PROVE  q \in Seq(T)
<1>1. Len(q) \in Nat /\ q \in [1 .. Len(q) -> T]
  OBVIOUS
<1> QED
  BY <1>1

-----------------------------------------------------------------------------
\* The chunks a text is split into: each says where it comes from, no two are
\* the same, and in the structural index they name what the text declares.
LEMMA SplitChunks ==
    ASSUME NEW s \in Strategies, NEW f \in Files, NEW text \in Contents
    PROVE  LET q == Split(s, f, text)
           IN  /\ q \in Seq(Chunks) /\ q # <<>>
               /\ \A i, j \in DOMAIN q : q[i] = q[j] => i = j
               /\ \A c \in Range(q) : c.strategy = s /\ c.file = f /\ c.of = text
               /\ s = "structural" /\ text.decl # <<>> =>
                    /\ \A c \in Range(q) : c.decl \in Range(text.decl)
                    /\ \A d \in Range(text.decl) : \E c \in Range(q) : c.decl = d
               /\ text.decl = <<>> => \A c \in Range(q) : c.decl = None
<1>1. text.decl \in Seq(Classes)
  BY FilesAssumption
<1>2. CASE s = "structural" /\ text.decl # <<>>
  <2> DEFINE d == text.decl
             q == [i \in DOMAIN d |-> Chunk(s, f, text, d[i], i)]
  <2>1. Split(s, f, text) = q
    BY <1>2 DEF Split
  <2>2. d \in Seq(Classes) /\ d # <<>> /\ DOMAIN d = 1 .. Len(d) /\ Len(d) \in Nat
    BY <1>1, <1>2
  <2>3. \A i \in DOMAIN d : d[i] \in Classes /\ i \in Nat
    BY <2>2
  <2> HIDE DEF d
  <2>4. \A i \in DOMAIN d : /\ q[i] \in Chunks /\ q[i].order = i /\ q[i].decl = d[i]
                            /\ q[i].strategy = s /\ q[i].file = f /\ q[i].of = text
    BY <2>3 DEF Chunk, Chunks
  <2>5. DOMAIN q = DOMAIN d
    OBVIOUS
  <2> HIDE DEF q
  <2>6. q \in Seq(Chunks) /\ q # <<>>
    BY <2>2, <2>4, <2>5 DEF q
  <2>7. \A i, j \in DOMAIN q : q[i] = q[j] => i = j
    BY <2>4, <2>5
  <2>8. \A c \in Range(q) : c.strategy = s /\ c.file = f /\ c.of = text
    BY <2>4, <2>5 DEF Range
  <2>9. /\ \A c \in Range(q) : c.decl \in Range(d)
        /\ \A x \in Range(d) : \E c \in Range(q) : c.decl = x
    BY <2>4, <2>5 DEF Range
  <2> QED
    BY <1>2, <2>1, <2>6, <2>7, <2>8, <2>9 DEF d
<1>3. CASE ~(s = "structural" /\ text.decl # <<>>)
  <2> DEFINE c == Chunk(s, f, text, None, 1)
             q == <<c>>
  <2>1. Split(s, f, text) = q
    BY <1>3 DEF Split
  <2>2. /\ c \in Chunks /\ c.decl = None
        /\ c.strategy = s /\ c.file = f /\ c.of = text
    BY DEF Chunk, Chunks
  <2> HIDE DEF c
  <2>3. Range(q) = {c}
    BY DEF Range
  <2> QED
    BY <1>3, <2>1, <2>2, <2>3
<1> QED
  BY <1>2, <1>3

LEMMA StructuralChunks ==
    ASSUME NEW f \in Files, NEW text \in Contents, text.decl # <<>>
    PROVE  LET q == Split("structural", f, text)
           IN  /\ \A c \in Range(q) : c.decl \in Range(text.decl)
               /\ \A d \in Range(text.decl) : \E c \in Range(q) : c.decl = d
<1> DEFINE d == text.decl
           q == Split("structural", f, text)
<1>1. q = [i \in DOMAIN d |-> Chunk("structural", f, text, d[i], i)] /\ DOMAIN q = DOMAIN d
  BY DEF Split
<1> HIDE DEF d, q
<1>2. \A i \in DOMAIN d : q[i].decl = d[i]
  BY <1>1 DEF Chunk
<1> QED
  BY <1>1, <1>2 DEF Range, d, q

\* A file always has a class to describe, and finitely many.
LEMMA DeclaredClasses ==
    ASSUME TypeOK, NEW f \in Files
    PROVE  Declared(f) \subseteq Classes /\ Declared(f) # {} /\ IsFiniteSet(Declared(f))
<1> DEFINE R == {r \in RowsOf("structural") : r.file = f}
           g == [c \in R |-> c.decl]
           names == {c.decl : c \in R} \ {None}
<1>1. R \in SUBSET (DOMAIN chunks)
  BY DEF RowsOf, BagToSet
<1>2. IsFiniteSet(R)
  BY <1>1, FS_Subset DEF TypeOK
<1>3. Range(g) = {c.decl : c \in R} /\ DOMAIN g = R
  BY DEF Range
<1>4. \A c \in R : c.decl \in Classes \cup {None}
  BY <1>1 DEF TypeOK, Chunks
<1> HIDE DEF g, R
<1>5. IsFiniteSet(Range(g))
  BY <1>2, <1>3, ImageFinite
<1>6. names \subseteq Classes /\ names \in SUBSET Range(g)
  BY <1>3, <1>4
<1>7. IsFiniteSet(names)
  BY <1>5, <1>6, FS_Subset
<1>8. Declared(f) = IF names = {} THEN {FileClass[f]} ELSE names
  BY DEF Declared, R
<1>9. FileClass[f] \in Classes /\ IsFiniteSet({FileClass[f]})
  BY FilesAssumption, FS_Singleton
<1> QED
  BY <1>6, <1>7, <1>8, <1>9

\* The list of what is to be described in a file.
LEMMA DescriptionsListed ==
    ASSUME TypeOK, NEW f \in Files, NEW text \in Contents
    PROVE  LET q == SetToSeq({Description(c, f, text) : c \in Declared(f)})
           IN  /\ q \in Seq(Descriptions) /\ q # <<>>
               /\ Range(q) = {Description(c, f, text) : c \in Declared(f)}
<1> DEFINE D == Declared(f)
           g == [c \in D |-> Description(c, f, text)]
           T == {Description(c, f, text) : c \in D}
<1>1. D \subseteq Classes /\ D # {} /\ IsFiniteSet(D)
  BY DeclaredClasses
<1>2. Range(g) = T /\ DOMAIN g = D
  BY DEF Range
<1> HIDE DEF g
<1>3. IsFiniteSet(T)
  BY <1>1, <1>2, ImageFinite
<1>4. T \subseteq Descriptions /\ T # {}
  <2>1. \A c \in Classes : Description(c, f, text) \in Descriptions
    BY DEF Description, Descriptions
  <2> HIDE DEF D
  <2> QED
    BY <1>1, <2>1
<1> HIDE DEF T, D
<1>5. SetToSeq(T) \in Seq(T) /\ Range(SetToSeq(T)) = T
  BY <1>3, EnumerationLists
<1> DEFINE q == SetToSeq(T)
<1> HIDE DEF q
<1>6. q \in Seq(Descriptions)
  BY <1>4, <1>5, WiderSeq DEF q
<1>7. q # <<>>
  BY <1>4, <1>5, EmptyRange DEF q
<1> QED
  BY <1>5, <1>6, <1>7 DEF q, T, D

-----------------------------------------------------------------------------
\* The empty table, a row more, the rows of one strategy less.
LEMMA EmptyTable == DOMAIN EmptyBag = {} /\ IsFiniteSet(DOMAIN EmptyBag)
  BY FS_EmptySet DEF EmptyBag, SetToBag

LEMMA RowsType ==
    ASSUME TypeOK, NEW s, NEW c \in Chunks
    PROVE  LET more == chunks (+) SetToBag({c})
               less == Without(s)
           IN  /\ more \in [DOMAIN more -> Nat \ {0}] /\ DOMAIN more \subseteq Chunks
               /\ IsFiniteSet(DOMAIN more)
               /\ less \in [DOMAIN less -> Nat \ {0}] /\ DOMAIN less \subseteq Chunks
               /\ IsFiniteSet(DOMAIN less)
<1> DEFINE more == chunks (+) SetToBag({c})
           less == Without(s)
<1>1. Table(chunks) /\ DOMAIN chunks \subseteq Chunks /\ IsFiniteSet(DOMAIN chunks)
  BY DEF TypeOK, Table
<1>2. DOMAIN more = DOMAIN chunks \cup {c} /\ Table(more)
  BY <1>1, RowAdded
<1>3. DOMAIN less \in SUBSET (DOMAIN chunks) /\ Table(less)
  BY <1>1, RowsLeft
<1>4. IsFiniteSet(DOMAIN chunks \cup {c})
  BY <1>1, FS_AddElement
<1>5. IsFiniteSet(DOMAIN less)
  BY <1>1, <1>3, FS_Subset
<1> HIDE DEF more, less
<1>6. /\ more \in [DOMAIN more -> Nat \ {0}] /\ DOMAIN more \subseteq Chunks
      /\ IsFiniteSet(DOMAIN more)
      /\ less \in [DOMAIN less -> Nat \ {0}] /\ DOMAIN less \subseteq Chunks
      /\ IsFiniteSet(DOMAIN less)
  BY <1>1, <1>2, <1>3, <1>4, <1>5 DEF Table
<1> QED
  BY <1>6 DEF more, less

LEMMA NoGraphType ==
    NoGraph \in [DOMAIN NoGraph -> SUBSET Classes] /\ DOMAIN NoGraph \subseteq Classes
  BY DEF NoGraph

LEMMA InitTypes == Init => TypeOK
<1> SUFFICES ASSUME Init PROVE TypeOK
  OBVIOUS
<1>1. /\ chunks = EmptyBag /\ DOMAIN chunks = {} /\ IsFiniteSet(DOMAIN chunks)
      /\ Known = {} /\ IsFiniteSet(Known)
  BY EmptyTable, FS_EmptySet DEF Init, Known
<1>2. chunks \in [DOMAIN chunks -> Nat \ {0}]
  BY <1>1 DEF EmptyBag, SetToBag
<1>3. deps \in [DOMAIN deps -> SUBSET Classes] /\ DOMAIN deps \subseteq Classes
  BY DEF Init, NoGraph
<1>4. file \in 1 .. LastFile + 1
  BY FilesAssumption DEF Init
<1> QED
  BY <1>1, <1>2, <1>3, <1>4 DEF Init, TypeOK, Unset, Strategies

\* The description of a class is no None, and describing or enriching a class
\* keeps the others.
LEMMA NoneIsNoDescription == None \notin Descriptions /\ None \notin Contents /\ None \notin Classes
  BY FilesAssumption DEF Descriptions

LEMMA KnownAfter ==
    ASSUME TypeOK, NEW c \in Classes, NEW d \in Descriptions,
           metadata' = [metadata EXCEPT ![c] = d]
    PROVE  /\ metadata' \in [Classes -> Descriptions \cup {None}]
           /\ Known' = Known \cup {c} /\ IsFiniteSet(Known')
<1>1. metadata' \in [Classes -> Descriptions \cup {None}]
  BY DEF TypeOK
<1>2. Known' = Known \cup {c}
  BY NoneIsNoDescription DEF Known, TypeOK
<1>3. IsFiniteSet(Known \cup {c})
  BY FS_AddElement DEF TypeOK
<1> QED
  BY <1>1, <1>2, <1>3

LEMMA UsersAreClasses ==
    ASSUME TypeOK, NEW c
    PROVE  UsedBy(deps, c) \in SUBSET Classes
  BY DEF UsedBy, TypeOK

LEMMA EnrichedRow ==
    ASSUME TypeOK, NEW c \in Known,
           metadata' = [metadata EXCEPT ![c].usedBy = UsedBy(deps, c)]
    PROVE  /\ metadata[c] \in Descriptions
           /\ metadata' = [metadata EXCEPT ![c] =
                             [metadata[c] EXCEPT !.usedBy = UsedBy(deps, c)]]
           /\ [metadata[c] EXCEPT !.usedBy = UsedBy(deps, c)] \in Descriptions
           /\ Known' = Known
           /\ metadata' \in [Classes -> Descriptions \cup {None}]
<1> DEFINE u == UsedBy(deps, c)
           d == [metadata[c] EXCEPT !.usedBy = u]
<1>1. u \in SUBSET Classes
  BY UsersAreClasses
<1>2. c \in Classes /\ metadata[c] \in Descriptions
  BY DEF Known, TypeOK
<1> HIDE DEF u
<1>3. d \in Descriptions
  BY <1>1, <1>2 DEF Descriptions
<1>4. metadata' = [metadata EXCEPT ![c] = d]
  BY DEF u
<1> HIDE DEF d
<1>5. Known' = Known \cup {c} /\ metadata' \in [Classes -> Descriptions \cup {None}]
  BY <1>2, <1>3, <1>4, KnownAfter
<1> QED
  BY <1>2, <1>3, <1>4, <1>5 DEF d, u

\* The graph after a file more.
LEMMA GraphType ==
    ASSUME TypeOK, NEW f \in Files
    PROVE  LET g == WithDependencies(f)
           IN  /\ DOMAIN g = Declared(f) \cup DOMAIN deps
               /\ \A c \in Declared(f) : g[c] = (source[f].refs \cap Known) \ {c}
               /\ \A c \in DOMAIN deps \ Declared(f) : g[c] = deps[c]
               /\ g \in [DOMAIN g -> SUBSET Classes] /\ DOMAIN g \subseteq Classes
<1> DEFINE g == WithDependencies(f)
<1>1. /\ DOMAIN g = Declared(f) \cup DOMAIN deps
      /\ \A c \in Declared(f) : g[c] = (source[f].refs \cap Known) \ {c}
      /\ \A c \in DOMAIN deps \ Declared(f) : g[c] = deps[c]
      /\ g = [x \in DOMAIN g |-> g[x]]
  BY DEF WithDependencies
<1>2. Declared(f) \subseteq Classes
  BY DeclaredClasses
<1>3. Known \subseteq Classes
  BY DEF Known
<1> HIDE DEF g
<1>4. g \in [DOMAIN g -> SUBSET Classes] /\ DOMAIN g \subseteq Classes
  BY <1>1, <1>2, <1>3 DEF TypeOK
<1> QED
  BY <1>1, <1>4 DEF g

-----------------------------------------------------------------------------
\* Every step keeps the types, one case for each action.
LEMMA StepTypes == TypeOK /\ [Next]_vars => TypeOK'
<1> SUFFICES ASSUME TypeOK, [Next]_vars PROVE TypeOK'
  OBVIOUS
<1> USE DEF disk, db, cursor, history, Fail, Spend
<1>1. ASSUME NEW force \in BOOLEAN, NEW extract \in BOOLEAN, Start(force, extract)
      PROVE  TypeOK'
  BY <1>1 DEF Start, TypeOK, Known
<1>2. CASE SkipIndex
  <2>1. /\ pc' \in {"strategy", "passA", "serving"} /\ strategy' \in Strategies
        /\ file' \in 1 .. LastFile + 1
        /\ deps' \in [DOMAIN deps' -> SUBSET Classes] /\ DOMAIN deps' \subseteq Classes
    BY <1>2, FilesAssumption, NoGraphType DEF SkipIndex, NextIndex, TypeOK, Strategies
  <2> QED
    BY <1>2, <2>1 DEF SkipIndex, TypeOK, Known
<1>3. CASE Rebuild
  <2>1. \A s : /\ Without(s) \in [DOMAIN Without(s) -> Nat \ {0}]
               /\ DOMAIN Without(s) \subseteq Chunks /\ IsFiniteSet(DOMAIN Without(s))
    <3> SUFFICES ASSUME NEW s
                 PROVE  /\ Without(s) \in [DOMAIN Without(s) -> Nat \ {0}]
                        /\ DOMAIN Without(s) \subseteq Chunks
                        /\ IsFiniteSet(DOMAIN Without(s))
      OBVIOUS
    <3>1. Table(chunks) /\ DOMAIN chunks \subseteq Chunks /\ IsFiniteSet(DOMAIN chunks)
      BY DEF TypeOK, Table
    <3>2. DOMAIN Without(s) \in SUBSET (DOMAIN chunks) /\ Table(Without(s))
      BY <3>1, RowsLeft
    <3> QED
      BY <3>1, <3>2, FS_Subset DEF Table
  <2>2. /\ chunks' \in [DOMAIN chunks' -> Nat \ {0}] /\ DOMAIN chunks' \subseteq Chunks
        /\ IsFiniteSet(DOMAIN chunks')
    BY <1>3, <2>1 DEF Rebuild, TypeOK
  <2>3. 1 \in 1 .. LastFile + 1
    BY FilesAssumption
  <2>4. /\ read' \in [Strategies -> [Files -> Contents \cup {None}]]
        /\ whole' \in [Strategies -> BOOLEAN]
    BY <1>3 DEF Rebuild, TypeOK
  <2>5. /\ pc' = "files" /\ file' = 1
        /\ UNCHANGED <<source, fresh, metadata, vector, config, scanned, strategy, deps, failed>>
    BY <1>3 DEF Rebuild
  <2> QED
    BY <2>2, <2>3, <2>4, <2>5 DEF TypeOK, Known
<1>4. CASE SplitFile
  <2>1. file \in Files /\ source[file] \in Contents
    BY <1>4 DEF SplitFile, Readable, TypeOK, Files
  <2>2. todo' \in Seq(Chunks) /\ todo' # <<>>
    BY <1>4, <2>1, SplitChunks DEF SplitFile, TypeOK
  <2> QED
    BY <1>4, <2>1, <2>2 DEF SplitFile, TypeOK, Known
<1>5. CASE SkipFile \/ SkipInPassA \/ SkipInPassB
  <2>1. file' \in 1 .. LastFile + 1
    BY <1>5, FilesAssumption DEF SkipFile, SkipInPassA, SkipInPassB, PassOver, TypeOK
  <2> QED
    BY <1>5, <2>1 DEF SkipFile, SkipInPassA, SkipInPassB, PassOver, TypeOK, Known
<1>6. CASE IndexChunk
  <2>1. todo \in Seq(Chunks) /\ todo # <<>> /\ file \in Files /\ pc = "chunks"
    BY <1>6 DEF IndexChunk, TypeOK
  <2>2. Head(todo) \in Chunks /\ Tail(todo) \in Seq(Chunks) /\ Len(Tail(todo)) = Len(todo) - 1
    BY <2>1, HeadAndTail
  <2>3. /\ chunks' \in [DOMAIN chunks' -> Nat \ {0}] /\ DOMAIN chunks' \subseteq Chunks
        /\ IsFiniteSet(DOMAIN chunks')
    <3> DEFINE c == Head(todo)
    <3>1. \/ chunks' = chunks (+) SetToBag({c})
          \/ chunks' = chunks
      BY <1>6 DEF IndexChunk
    <3>2. c \in Chunks
      BY <2>2
    <3> HIDE DEF c
    <3> QED
      BY <3>1, <3>2, RowsType DEF TypeOK
  <2>4. todo' = Tail(todo) /\ (pc' = "chunks" => todo' # <<>>)
    <3>1. Len(todo) > 1 => Tail(todo) # <<>>
      BY <2>1, TailLeft
    <3> QED
      BY <1>6, <2>1, <3>1 DEF IndexChunk, Done
  <2>5. /\ pc' \in {"chunks", "files"} /\ file' \in 1 .. LastFile + 1
        /\ pc' = "chunks" => file' \in Files
    BY <1>6, <2>1, FilesAssumption DEF IndexChunk, Done, Files
  <2>6. failed' \in BOOLEAN
    BY <1>6 DEF IndexChunk, TypeOK
  <2>7. UNCHANGED <<source, fresh, metadata, vector, config, scanned, strategy, deps, read, whole>>
    BY <1>6 DEF IndexChunk
  <2> QED
    BY <2>2, <2>3, <2>4, <2>5, <2>6, <2>7 DEF TypeOK, Known
<1>7. CASE IndexBuilt
  <2>1. /\ pc' \in {"strategy", "passA", "serving"} /\ strategy' \in Strategies
        /\ file' \in 1 .. LastFile + 1
        /\ deps' \in [DOMAIN deps' -> SUBSET Classes] /\ DOMAIN deps' \subseteq Classes
    BY <1>7, FilesAssumption, NoGraphType DEF IndexBuilt, NextIndex, TypeOK, Strategies
  <2> QED
    BY <1>7, <2>1 DEF IndexBuilt, TypeOK, Known
<1>8. CASE ReadDeclarations
  <2>1. file \in Files /\ source[file] \in Contents
    BY <1>8 DEF ReadDeclarations, Readable, TypeOK, Files
  <2>2. todo' \in Seq(Descriptions) /\ todo' # <<>>
    BY <1>8, <2>1, DescriptionsListed DEF ReadDeclarations
  <2> QED
    BY <1>8, <2>1, <2>2 DEF ReadDeclarations, TypeOK, Known
<1>9. CASE Describe
  <2>1. todo \in Seq(Descriptions) /\ todo # <<>> /\ file \in Files /\ pc = "describe"
    BY <1>9 DEF Describe, TypeOK
  <2>2. /\ Head(todo) \in Descriptions /\ Tail(todo) \in Seq(Descriptions)
        /\ Len(Tail(todo)) = Len(todo) - 1
    BY <2>1, HeadAndTail
  <2>3. /\ metadata' \in [Classes -> Descriptions \cup {None}]
        /\ IsFiniteSet(Known')
    <3> DEFINE d == Head(todo)
    <3>1. \/ metadata' = [metadata EXCEPT ![d.decl] = d]
          \/ metadata' = metadata
      BY <1>9 DEF Describe
    <3>2. d \in Descriptions /\ d.decl \in Classes
      BY <2>2 DEF Descriptions
    <3> HIDE DEF d
    <3>3. CASE metadata' = metadata
      BY <3>3 DEF TypeOK, Known
    <3> DEFINE c == d.decl
    <3>4. c \in Classes
      BY <3>2
    <3> HIDE DEF c
    <3>5. CASE metadata' = [metadata EXCEPT ![c] = d]
      BY <3>2, <3>4, <3>5, KnownAfter
    <3> QED
      BY <3>1, <3>3, <3>5 DEF c
  <2>4. todo' = Tail(todo) /\ (pc' = "describe" => todo' # <<>>)
    <3>1. Len(todo) > 1 => Tail(todo) # <<>>
      BY <2>1, TailLeft
    <3> QED
      BY <1>9, <2>1, <3>1 DEF Describe, Done
  <2>5. /\ pc' \in {"describe", "passA"} /\ file' \in 1 .. LastFile + 1
        /\ pc' = "describe" => file' \in Files
    BY <1>9, <2>1, FilesAssumption DEF Describe, Done, Files
  <2>6. failed' \in BOOLEAN
    BY <1>9 DEF Describe, TypeOK
  <2>7. UNCHANGED <<source, fresh, chunks, vector, config, scanned, strategy, deps, read, whole>>
    BY <1>9 DEF Describe
  <2> QED
    BY <2>2, <2>3, <2>4, <2>5, <2>6, <2>7 DEF TypeOK
<1>10. CASE AllDescribed
  BY <1>10, FilesAssumption DEF AllDescribed, TypeOK, Known
<1>11. CASE ReadDependencies
  <2>1. file \in Files /\ file + 1 \in 1 .. LastFile + 1
    BY <1>11, FilesAssumption DEF ReadDependencies, Readable, TypeOK, Files
  <2>2. deps' \in [DOMAIN deps' -> SUBSET Classes] /\ DOMAIN deps' \subseteq Classes
    BY <1>11, <2>1, GraphType DEF ReadDependencies
  <2> QED
    BY <1>11, <2>1, <2>2 DEF ReadDependencies, TypeOK, Known
<1>12. CASE GraphBuilt
  <2>1. todo' \in Seq(Known)
    BY <1>12, EnumerationLists DEF GraphBuilt, TypeOK
  <2> QED
    BY <1>12, <2>1 DEF GraphBuilt, TypeOK, Known
<1>13. CASE Enrich
  <2>1. todo \in Seq(Known) /\ todo # <<>>
    BY <1>13 DEF Enrich, TypeOK
  <2>2. Head(todo) \in Known /\ Tail(todo) \in Seq(Known)
    BY <2>1, HeadAndTail
  <2>3. /\ Known' = Known
        /\ metadata' \in [Classes -> Descriptions \cup {None}]
        /\ \/ pc' = pc /\ todo' = Tail(todo)
           \/ pc' = "embed" /\ todo' = todo
    <3> DEFINE c == Head(todo)
    <3>1. c \in Known
      BY <2>2
    <3>2. CASE metadata' = metadata
      BY <1>13, <3>2 DEF Enrich, Known, TypeOK
    <3>3. CASE ~ (metadata' = metadata)
      <4>1. metadata' = [metadata EXCEPT ![c].usedBy = UsedBy(deps, c)]
        BY <1>13, <3>3 DEF Enrich
      <4>2. pc' = "embed" /\ todo' = todo
        BY <1>13, <3>3 DEF Enrich
      <4> HIDE DEF c
      <4> QED
        BY <3>1, <4>1, <4>2, EnrichedRow
    <3> QED
      BY <3>2, <3>3
  <2>4. /\ pc = "passC"
        /\ UNCHANGED <<source, fresh, chunks, vector, config, scanned, strategy, file, deps,
                       read, whole, failed>>
    BY <1>13 DEF Enrich
  <2> QED
    BY <2>1, <2>2, <2>3, <2>4 DEF TypeOK
<1>14. CASE Embed
  <2>1. todo \in Seq(Known) /\ todo # <<>>
    BY <1>14 DEF Embed, TypeOK
  <2>2. Head(todo) \in Known /\ Tail(todo) \in Seq(Known)
    BY <2>1, HeadAndTail
  <2>3. metadata[Head(todo)] \in Descriptions
    BY <2>2 DEF Known, TypeOK
  <2>4. Known' = Known
    BY <1>14 DEF Embed, Known
  <2> QED
    BY <1>14, <2>2, <2>3, <2>4 DEF Embed, TypeOK
<1>15. CASE Enriched
  BY <1>15 DEF Enriched, TypeOK, Known
<1>16. CASE DeleteOrphans
  <2>1. Known' \in SUBSET Known
    BY <1>16, NoneIsNoDescription DEF DeleteOrphans, deleteClassMetadata, Known, TypeOK
  <2>2. IsFiniteSet(Known')
    BY <2>1, FS_Subset DEF TypeOK
  <2> QED
    BY <1>16, <2>2 DEF DeleteOrphans, deleteClassMetadata, TypeOK
<1>17. CASE Stop
  <2>1. deps' \in [DOMAIN deps' -> SUBSET Classes] /\ DOMAIN deps' \subseteq Classes
    BY <1>17, NoGraphType DEF Stop
  <2>2. /\ pc' = "down" /\ config' \in [force : BOOLEAN, extract : BOOLEAN]
        /\ failed' \in BOOLEAN /\ scanned' \subseteq Files /\ strategy' \in Strategies
        /\ file' \in 1 .. LastFile + 1
    <3>1. 1 \in 1 .. LastFile + 1
      BY FilesAssumption
    <3>2. Unset \in [force : BOOLEAN, extract : BOOLEAN] /\ "fixed" \in Strategies
      BY DEF Unset, Strategies
    <3> QED
      BY <1>17, <3>1, <3>2 DEF Stop
  <2>3. UNCHANGED <<source, fresh, chunks, metadata, vector, read, whole>>
    BY <1>17 DEF Stop
  <2> QED
    BY <2>1, <2>2, <2>3 DEF TypeOK, Known
<1>18. ASSUME NEW f \in Files, NEW text \in Contents \cup {None}, Edit(f, text)
       PROVE  TypeOK'
  BY <1>18 DEF Edit, TypeOK, Known
<1>19. CASE UNCHANGED vars
  BY <1>19 DEF vars, TypeOK, Known
<1> QED
  BY <1>1, <1>2, <1>3, <1>4, <1>5, <1>6, <1>7, <1>8, <1>9, <1>10, <1>11, <1>12,
     <1>13, <1>14, <1>15, <1>16, <1>17, <1>18, <1>19
  DEF Next, Indexing, BuildIndex, DescribeClasses, BuildGraph, EnrichClasses

\* Tables, files and the place of the process keep their types, through whatever
\* fails, stops and is edited.
THEOREM IndexTypeCorrect == Spec => []TypeOK
<1> QED
  BY InitTypes, StepTypes, PTL DEF Spec

-----------------------------------------------------------------------------
(* An index is one build of the files. *)

\* The rows of a strategy in a table, and what IndexIsItsBuild says of them.
Rows(table, s) == {c \in DOMAIN table : c.strategy = s}

OneBuild ==
    \A s \in Strategies :
        /\ \A c \in Rows(chunks, s) : chunks[c] = 1
        /\ Rows(chunks, s) \subseteq ChunksOf(s, read[s])
        /\ whole[s] => Rows(chunks, s) = ChunksOf(s, read[s])

\* While an index is built: what it has read are files before the one it is at,
\* the chunks it still has to save are of that file, none is saved and none is
\* there twice; and as long as nothing failed, the saved ones and those to save
\* are the chunks of everything read.
Building ==
    /\ pc \in {"files", "chunks"} =>
         /\ ~whole[strategy]
         /\ \A g \in Files : g > file => read[strategy][g] = None
    /\ pc = "files" =>
         /\ \A g \in Files : g = file => read[strategy][g] = None
         /\ ~failed => Rows(chunks, strategy) = ChunksOf(strategy, read[strategy])
    /\ pc = "chunks" =>
         /\ read[strategy][file] # None
         /\ Range(todo) \subseteq Range(Split(strategy, file, read[strategy][file]))
         /\ Range(todo) \cap Rows(chunks, strategy) = {}
         /\ \A i, j \in DOMAIN todo : todo[i] = todo[j] => i = j
         /\ ~failed => Rows(chunks, strategy) \cup Range(todo) = ChunksOf(strategy, read[strategy])

BuildInv == TypeOK /\ Building /\ OneBuild

\* The chunks of a reading of the files, one by one.
LEMMA ChunkOfReading ==
    ASSUME NEW s, NEW files, NEW c
    PROVE  c \in ChunksOf(s, files) <=>
             \E g \in Files : files[g] # None /\ c \in Range(Split(s, g, files[g]))
  BY DEF ChunksOf

LEMMA NothingRead ==
    ASSUME NEW s, NEW files, \A g \in Files : files[g] = None
    PROVE  ChunksOf(s, files) = {}
  BY ChunkOfReading

\* A file more that is read adds its chunks, and none of them was there.
LEMMA ReadingOneMore ==
    ASSUME NEW s \in Strategies, NEW files \in [Files -> Contents \cup {None}],
           NEW f \in Files, NEW text \in Contents, files[f] = None
    PROVE  LET more == [files EXCEPT ![f] = text]
           IN  /\ ChunksOf(s, more) = ChunksOf(s, files) \cup Range(Split(s, f, text))
               /\ Range(Split(s, f, text)) \cap ChunksOf(s, files) = {}
<1> DEFINE more == [files EXCEPT ![f] = text]
<1>1. more[f] = text /\ text # None /\ \A g \in Files \ {f} : more[g] = files[g]
  BY NoneIsNoDescription
<1> HIDE DEF more
<1>2. ChunksOf(s, more) = ChunksOf(s, files) \cup Range(Split(s, f, text))
  <2>1. \A c : c \in ChunksOf(s, more) <=>
                 \E g \in Files : more[g] # None /\ c \in Range(Split(s, g, more[g]))
    BY ChunkOfReading
  <2>2. \A c : c \in ChunksOf(s, files) <=>
                 \E g \in Files : files[g] # None /\ c \in Range(Split(s, g, files[g]))
    BY ChunkOfReading
  <2>3. \A c : c \in ChunksOf(s, more) <=>
                 c \in ChunksOf(s, files) \/ c \in Range(Split(s, f, text))
    BY <1>1, <2>1, <2>2
  <2> QED
    BY <2>3
<1>3. \A c \in Range(Split(s, f, text)) : c \notin ChunksOf(s, files)
  <2> SUFFICES ASSUME NEW c \in Range(Split(s, f, text)), c \in ChunksOf(s, files)
               PROVE  FALSE
    OBVIOUS
  <2>1. PICK g \in Files : files[g] # None /\ c \in Range(Split(s, g, files[g]))
    BY ChunkOfReading
  <2>2. files[g] \in Contents
    BY <2>1
  <2>3. c.file = f /\ c.file = g
    BY <2>1, <2>2, SplitChunks
  <2> QED
    BY <2>1, <2>3
<1> QED
  BY <1>2, <1>3 DEF more

\* The rows of a strategy after a chunk more, and after those of another are
\* deleted.
LEMMA RowsOfTable == \A s : RowsOf(s) = Rows(chunks, s)
  BY DEF RowsOf, BagToSet, Rows

LEMMA OneBuildIs ==
    /\ IndexIsItsBuild <=> OneBuild
    /\ RowsOf("structural") = Rows(chunks, "structural")
  BY DEF IndexIsItsBuild, OneBuild, RowsOf, BagToSet, Rows

LEMMA RowsOfAdded ==
    ASSUME TypeOK, NEW c \in Chunks, c \notin Rows(chunks, c.strategy),
           chunks' = chunks (+) SetToBag({c})
    PROVE  /\ \A s : Rows(chunks', s) =
                       IF s = c.strategy THEN Rows(chunks, s) \cup {c} ELSE Rows(chunks, s)
           /\ chunks'[c] = 1
           /\ \A s, d : d \in Rows(chunks, s) => chunks'[d] = chunks[d]
<1>1. Table(chunks)
  BY DEF TypeOK, Table
<1>2. c \notin DOMAIN chunks
  BY DEF Rows
<1>3. /\ DOMAIN chunks' = DOMAIN chunks \cup {c} /\ chunks'[c] = 1
      /\ \A d \in DOMAIN chunks \ {c} : chunks'[d] = chunks[d]
  BY <1>1, <1>2, RowAdded
<1>4. ASSUME NEW s
      PROVE  Rows(chunks', s) =
               IF s = c.strategy THEN Rows(chunks, s) \cup {c} ELSE Rows(chunks, s)
  BY <1>3 DEF Rows
<1>5. \A s, d : d \in Rows(chunks, s) => chunks'[d] = chunks[d]
  BY <1>2, <1>3 DEF Rows
<1> QED
  BY <1>3, <1>4, <1>5

LEMMA RowsOfLeft ==
    ASSUME TypeOK, NEW s \in Strategies,
           chunks' = IF hasIndex(s) THEN Without(s) ELSE chunks
    PROVE  /\ Rows(chunks', s) = {}
           /\ \A t : t # s => Rows(chunks', t) = Rows(chunks, t)
           /\ \A t, d : t # s /\ d \in Rows(chunks, t) => chunks'[d] = chunks[d]
<1>1. Table(chunks)
  BY DEF TypeOK, Table
<1>3. CASE hasIndex(s)
  <2>1. /\ DOMAIN chunks' = {c \in DOMAIN chunks : c.strategy # s}
        /\ \A c \in DOMAIN chunks' : chunks'[c] = chunks[c]
    BY <1>1, <1>3, RowsLeft
  <2>2. ASSUME NEW t, t # s PROVE Rows(chunks', t) = Rows(chunks, t)
    BY <2>1, <2>2 DEF Rows
  <2> QED
    BY <2>1, <2>2 DEF Rows
<1>4. CASE ~hasIndex(s)
  <2>1. chunks' = chunks /\ Rows(chunks, s) = {}
    BY <1>4, RowsOfTable DEF hasIndex
  <2> QED
    BY <2>1
<1> QED
  BY <1>3, <1>4

LEMMA BuildInit == Init => BuildInv
<1> SUFFICES ASSUME Init PROVE Building /\ OneBuild
  BY InitTypes DEF BuildInv
<1>1. \A s : Rows(chunks, s) = {}
  BY EmptyTable DEF Init, Rows
<1>2. \A s \in Strategies : ~whole[s]
  BY DEF Init
<1> QED
  BY <1>1, <1>2 DEF Init, Building, OneBuild

LEMMA IndexKept ==
    ASSUME OneBuild, UNCHANGED <<chunks, read, whole>>
    PROVE  OneBuild'
  BY DEF OneBuild

LEMMA BuildKept ==
    ASSUME BuildInv, UNCHANGED <<chunks, read, whole>>, pc' \notin {"files", "chunks"}
    PROVE  Building' /\ OneBuild'
  BY IndexKept DEF Building, BuildInv

LEMMA BuildStep == BuildInv /\ [Next]_vars => BuildInv'
<1> SUFFICES ASSUME BuildInv, [Next]_vars PROVE Building' /\ OneBuild'
  BY StepTypes DEF BuildInv
<1>0. TypeOK /\ TypeOK'
  BY StepTypes DEF BuildInv
<1> USE DEF disk, db, cursor, history, Fail, Spend
<1>1. CASE Rebuild
  <2>1. /\ Rows(chunks', strategy) = {}
        /\ \A t : t # strategy => Rows(chunks', t) = Rows(chunks, t)
        /\ \A t, d : t # strategy /\ d \in Rows(chunks, t) => chunks'[d] = chunks[d]
    <3>1. /\ strategy \in Strategies
          /\ chunks' = IF hasIndex(strategy) THEN Without(strategy) ELSE chunks
      BY <1>0, <1>1 DEF Rebuild, TypeOK
    <3> QED
      BY <1>0, <3>1, RowsOfLeft
  <2>2. /\ strategy \in Strategies /\ strategy' = strategy /\ pc' = "files" /\ file' = 1
        /\ \A g \in Files : read'[strategy][g] = None
        /\ whole'[strategy] = FALSE
        /\ \A t \in Strategies \ {strategy} : read'[t] = read[t] /\ whole'[t] = whole[t]
    BY <1>0, <1>1 DEF Rebuild, TypeOK
  <2>3. ChunksOf(strategy, read'[strategy]) = {}
    BY <2>2, NothingRead
  <2>4. Rows(chunks', strategy') = {} /\ ChunksOf(strategy', read'[strategy']) = {}
    BY <2>1, <2>2, <2>3
  <2>5. Building'
    BY <2>2, <2>4 DEF Building
  <2>6. OneBuild'
    <3> SUFFICES ASSUME NEW s \in Strategies
                 PROVE  /\ \A c \in Rows(chunks', s) : chunks'[c] = 1
                        /\ Rows(chunks', s) \subseteq ChunksOf(s, read'[s])
                        /\ whole'[s] => Rows(chunks', s) = ChunksOf(s, read'[s])
      BY DEF OneBuild
    <3>1. CASE s = strategy
      BY <2>1, <2>2, <3>1
    <3>2. CASE s # strategy
      BY <2>1, <2>2, <3>2 DEF OneBuild, BuildInv
    <3> QED
      BY <3>1, <3>2
  <2> QED
    BY <2>5, <2>6
<1>2. CASE SplitFile
  <2> DEFINE text == source[file]
             F == read[strategy]
             q == Split(strategy, file, text)
  <2>1. /\ strategy \in Strategies /\ file \in Files /\ text \in Contents /\ text # None
        /\ F \in [Files -> Contents \cup {None}] /\ F[file] = None
        /\ ~whole[strategy] /\ \A g \in Files : g > file => F[g] = None
    BY <1>0, <1>2 DEF SplitFile, Readable, TypeOK, Files, BuildInv, Building
  <2>2. /\ read'[strategy] = [F EXCEPT ![file] = text]
        /\ \A t \in Strategies \ {strategy} : read'[t] = read[t]
        /\ todo' = q /\ pc' = "chunks"
        /\ UNCHANGED <<chunks, whole, strategy, file, failed>>
    BY <1>0, <1>2 DEF SplitFile, TypeOK
  <2>3. /\ ChunksOf(strategy, read'[strategy]) = ChunksOf(strategy, F) \cup Range(q)
        /\ Range(q) \cap ChunksOf(strategy, F) = {}
    <3> HIDE DEF text, F
    <3>1. /\ ChunksOf(strategy, [F EXCEPT ![file] = text]) =
               ChunksOf(strategy, F) \cup Range(Split(strategy, file, text))
          /\ Range(Split(strategy, file, text)) \cap ChunksOf(strategy, F) = {}
      BY <2>1, ReadingOneMore
    <3> QED
      BY <2>2, <3>1
  <2>4. \A i, j \in DOMAIN q : q[i] = q[j] => i = j
    BY <2>1, SplitChunks
  <2>5. read'[strategy][file] = text /\ \A g \in Files : g > file => read'[strategy][g] = None
    <3>1. \A g \in Files : g > file => g # file
      BY <2>1 DEF Files
    <3> HIDE DEF text, F
    <3> QED
      BY <2>1, <2>2, <3>1
  <2>6. /\ Rows(chunks, strategy) \subseteq ChunksOf(strategy, F)
        /\ ~failed => Rows(chunks, strategy) = ChunksOf(strategy, F)
    BY <1>2, <2>1 DEF BuildInv, OneBuild, Building, SplitFile
  <2>7. \A s : Rows(chunks', s) = Rows(chunks, s)
    BY <2>2
  <2> HIDE DEF text, F
  <2>8. Building'
    <3>1. Range(q) \cap Rows(chunks, strategy) = {}
      BY <2>3, <2>6
    <3>2. ~failed => Rows(chunks, strategy) \cup Range(q) = ChunksOf(strategy, read'[strategy])
      BY <2>3, <2>6
    <3>3. q = Split(strategy, file, read'[strategy][file])
      BY <2>5
    <3> HIDE DEF q
    <3>4. Rows(chunks', strategy') = Rows(chunks, strategy)
      BY <2>2, <2>7
    <3> QED
      BY <2>1, <2>2, <2>4, <2>5, <3>1, <3>2, <3>3, <3>4 DEF Building
  <2>9. OneBuild'
    <3> HIDE DEF q
    <3> SUFFICES ASSUME NEW s \in Strategies
                 PROVE  /\ \A c \in Rows(chunks', s) : chunks'[c] = 1
                        /\ Rows(chunks', s) \subseteq ChunksOf(s, read'[s])
                        /\ whole'[s] => Rows(chunks', s) = ChunksOf(s, read'[s])
      BY DEF OneBuild
    <3>1. CASE s = strategy
      BY <2>1, <2>2, <2>3, <2>6, <2>7, <3>1 DEF OneBuild, BuildInv
    <3>2. CASE s # strategy
      BY <2>2, <2>7, <3>2 DEF OneBuild, BuildInv
    <3> QED
      BY <3>1, <3>2
  <2> QED
    BY <2>8, <2>9
<1>3. CASE SkipFile
  <2>1. /\ pc = "files" /\ UNCHANGED <<chunks, read, whole, pc, strategy, todo>>
        /\ file' = file + 1 /\ (failed' \/ failed' = failed) /\ file \in Files
    BY <1>0, <1>3 DEF SkipFile, PassOver, TypeOK, Files
  <2>2. \A g \in Files : g = file' \/ g > file' => g > file
    BY <2>1 DEF Files
  <2>3. Rows(chunks', strategy') = Rows(chunks, strategy)
    BY <2>1
  <2>4. Building'
    BY <2>1, <2>2, <2>3 DEF BuildInv, Building
  <2> QED
    BY <2>1, <2>4, IndexKept DEF BuildInv
<1>4. CASE IndexChunk
  <2> DEFINE c == Head(todo)
             t == Tail(todo)
             F == read[strategy]
  <2>1. /\ todo \in Seq(Chunks) /\ todo # <<>> /\ file \in Files /\ pc = "chunks"
        /\ strategy \in Strategies /\ F \in [Files -> Contents \cup {None}] /\ failed \in BOOLEAN
    BY <1>0, <1>4 DEF IndexChunk, TypeOK
  <2>2. /\ ~whole[strategy] /\ \A g \in Files : g > file => F[g] = None
        /\ F[file] # None
        /\ Range(todo) \subseteq Range(Split(strategy, file, F[file]))
        /\ Range(todo) \cap Rows(chunks, strategy) = {}
        /\ \A i, j \in DOMAIN todo : todo[i] = todo[j] => i = j
        /\ ~failed => Rows(chunks, strategy) \cup Range(todo) = ChunksOf(strategy, F)
    BY <2>1 DEF BuildInv, Building
  <2>3. /\ c \in Chunks /\ Range(todo) = {c} \cup Range(t) /\ t \in Seq(Chunks)
        /\ \A i \in DOMAIN t : t[i] = todo[i + 1] /\ i + 1 \in DOMAIN todo
    BY <2>1, HeadAndTail
  <2>4. c \notin Range(t) /\ \A i, j \in DOMAIN t : t[i] = t[j] => i = j
    <3>1. c = todo[1] /\ 1 \in DOMAIN todo /\ DOMAIN t = 1 .. Len(t) /\ Len(t) \in Nat
      BY <2>1, <2>3
    <3> HIDE DEF c, t
    <3>2. \A i \in DOMAIN t : i + 1 # 1 /\ t[i] # c
      BY <2>2, <2>3, <3>1
    <3>3. \A i, j \in DOMAIN t : t[i] = t[j] => i + 1 = j + 1
      BY <2>2, <2>3
    <3> QED
      BY <3>1, <3>2, <3>3 DEF Range
  <2>5. c.strategy = strategy /\ c \in ChunksOf(strategy, F)
    <3>1. F[file] \in Contents
      BY <2>1, <2>2
    <3>2. c \in Range(Split(strategy, file, F[file]))
      BY <2>2, <2>3
    <3>3. c.strategy = strategy
      BY <2>1, <3>1, <3>2, SplitChunks
    <3> QED
      BY <2>1, <2>2, <3>2, <3>3, ChunkOfReading
  <2>6. /\ UNCHANGED <<read, whole, strategy>> /\ todo' = t
        /\ \/ pc' = "chunks" /\ file' = file
           \/ pc' = "files" /\ file' = file + 1 /\ Len(todo) \leq 1
        /\ \/ chunks' = chunks (+) SetToBag({c}) /\ failed' = failed
           \/ chunks' = chunks /\ failed'
    BY <1>4, <2>1 DEF IndexChunk, Done
  <2>7. pc' = "files" => Range(t) = {}
    <3>1. Len(t) = Len(todo) - 1 /\ Len(todo) \in Nat \ {0}
      BY <2>1, HeadAndTail
    <3> DEFINE n == Len(todo)
    <3>2. n \leq 1 => t = <<>>
      <4>1. t \in Seq(Chunks) /\ Len(t) = n - 1 /\ n \in Nat \ {0}
        BY <2>3, <3>1
      <4> HIDE DEF t, n
      <4> QED
        BY <4>1
    <3> QED
      BY <2>6, <3>2, EmptyRange
  <2>8. /\ \A s \in Strategies : Rows(chunks', s) \subseteq Rows(chunks, s) \cup {c}
        /\ \A s \in Strategies \ {strategy} : Rows(chunks', s) = Rows(chunks, s)
        /\ ~failed' => ~failed /\ Rows(chunks', strategy) = Rows(chunks, strategy) \cup {c}
        /\ \A s \in Strategies : \A d \in Rows(chunks', s) : chunks'[d] = 1
    <3>1. CASE chunks' = chunks (+) SetToBag({c}) /\ failed' = failed
      <4>1. c \notin Rows(chunks, c.strategy)
        BY <2>2, <2>3, <2>5
      <4> HIDE DEF c
      <4>2. /\ \A s : Rows(chunks', s) =
                        IF s = c.strategy THEN Rows(chunks, s) \cup {c} ELSE Rows(chunks, s)
            /\ chunks'[c] = 1
            /\ \A s, d : d \in Rows(chunks, s) => chunks'[d] = chunks[d]
        BY <1>0, <2>3, <3>1, <4>1, RowsOfAdded
      <4>3. \A s \in Strategies : \A d \in Rows(chunks, s) : chunks[d] = 1
        BY DEF BuildInv, OneBuild
      <4>4. /\ \A s \in Strategies \ {strategy} : Rows(chunks', s) = Rows(chunks, s)
            /\ Rows(chunks', strategy) = Rows(chunks, strategy) \cup {c}
        BY <2>5, <4>2
      <4>5. ASSUME NEW s \in Strategies, NEW d \in Rows(chunks', s) PROVE chunks'[d] = 1
        <5>1. d \in Rows(chunks, s) \/ d = c
          BY <4>2
        <5> QED
          BY <4>2, <4>3, <5>1
      <4> QED
        BY <2>1, <3>1, <4>4, <4>5
    <3>2. CASE chunks' = chunks /\ failed'
      <4>1. \A s : Rows(chunks', s) = Rows(chunks, s)
        BY <3>2
      <4> HIDE DEF c
      <4> QED
        BY <3>2, <4>1 DEF BuildInv, OneBuild
    <3> QED
      BY <2>6, <3>1, <3>2
  <2> HIDE DEF c, t, F
  <2>9. OneBuild'
    <3> SUFFICES ASSUME NEW s \in Strategies
                 PROVE  /\ \A d \in Rows(chunks', s) : chunks'[d] = 1
                        /\ Rows(chunks', s) \subseteq ChunksOf(s, read'[s])
                        /\ whole'[s] => Rows(chunks', s) = ChunksOf(s, read'[s])
      BY DEF OneBuild
    <3>1. /\ Rows(chunks, s) \subseteq ChunksOf(s, read[s])
          /\ whole[s] => Rows(chunks, s) = ChunksOf(s, read[s])
      BY DEF BuildInv, OneBuild
    <3>2. CASE s = strategy
      BY <2>2, <2>5, <2>6, <2>8, <3>1, <3>2 DEF F
    <3>3. CASE s # strategy
      BY <2>6, <2>8, <3>1, <3>3
    <3> QED
      BY <2>8, <3>2, <3>3
  <2>10. Building'
    <3>1. Rows(chunks', strategy') = Rows(chunks', strategy) /\ read'[strategy'] = F
      BY <2>6 DEF F
    <3>2. \A g \in Files : g = file + 1 \/ g > file + 1 => g > file
      BY <2>1 DEF Files
    <3>3. ~failed' => Rows(chunks', strategy) \cup Range(t) = ChunksOf(strategy, F)
      BY <2>2, <2>3, <2>8
    <3>4. Range(t) \cap Rows(chunks', strategy) = {}
      BY <2>1, <2>2, <2>3, <2>4, <2>8
    <3>5. Range(t) \subseteq Range(Split(strategy, file, F[file]))
      BY <2>2, <2>3
    <3>6. CASE pc' = "chunks" /\ file' = file
      BY <2>2, <2>4, <2>6, <3>1, <3>3, <3>4, <3>5, <3>6 DEF Building
    <3>7. CASE pc' = "files" /\ file' = file + 1
      <4>1. ~failed' => Rows(chunks', strategy) = ChunksOf(strategy, F)
        BY <2>7, <3>3, <3>7
      <4> QED
        BY <2>2, <2>6, <3>1, <3>2, <3>7, <4>1 DEF Building
    <3> QED
      BY <2>6, <3>6, <3>7
  <2> QED
    BY <2>9, <2>10
<1>5. CASE IndexBuilt
  <2>1. /\ pc = "files" /\ pc' \notin {"files", "chunks"} /\ strategy \in Strategies
        /\ whole'[strategy] = ~failed
        /\ \A t \in Strategies \ {strategy} : whole'[t] = whole[t]
        /\ UNCHANGED <<chunks, read>>
    BY <1>0, <1>5 DEF IndexBuilt, NextIndex, TypeOK
  <2>2. ~failed => Rows(chunks, strategy) = ChunksOf(strategy, read[strategy])
    BY <2>1 DEF BuildInv, Building
  <2>3. \A s : Rows(chunks', s) = Rows(chunks, s)
    BY <2>1
  <2>4. OneBuild'
    BY <2>1, <2>2, <2>3 DEF BuildInv, OneBuild
  <2> QED
    BY <2>1, <2>4 DEF Building
<1>6. CASE SkipIndex
  BY <1>6, BuildKept DEF SkipIndex, NextIndex
<1>7. CASE DescribeClasses
  <2>1. UNCHANGED <<chunks, read, whole>> /\ pc' \notin {"files", "chunks"}
    BY <1>7 DEF DescribeClasses, ReadDeclarations, SkipInPassA, Describe, AllDescribed, Done
  <2> QED
    BY <2>1, BuildKept
<1>8. CASE BuildGraph \/ EnrichClasses
  <2>1. UNCHANGED <<chunks, read, whole>> /\ pc' \notin {"files", "chunks"}
    BY <1>8 DEF BuildGraph, ReadDependencies, SkipInPassB, GraphBuilt, EnrichClasses,
                Enrich, Embed, Enriched
  <2> QED
    BY <2>1, BuildKept
<1>9. CASE DeleteOrphans \/ Stop \/ \E force, extract \in BOOLEAN : Start(force, extract)
  <2>1. UNCHANGED <<chunks, read, whole>> /\ pc' \notin {"files", "chunks"}
    BY <1>9 DEF DeleteOrphans, Stop, Start
  <2> QED
    BY <2>1, BuildKept
<1>10. CASE (\E f \in Files, text \in Contents \cup {None} : Edit(f, text)) \/ UNCHANGED vars
  <2>1. UNCHANGED <<chunks, read, whole, pc, strategy, file, todo, failed>>
    BY <1>10 DEF Edit, vars
  <2>2. Rows(chunks', strategy') = Rows(chunks, strategy)
    BY <2>1
  <2>3. Building'
    BY <2>1, <2>2 DEF BuildInv, Building
  <2> QED
    BY <2>1, <2>3, IndexKept DEF BuildInv
<1> QED
  BY <1>1, <1>2, <1>3, <1>4, <1>5, <1>6, <1>7, <1>8, <1>9, <1>10
  DEF Next, Indexing, BuildIndex

\* An index is one build of the files: no chunk is in it twice, none is left of
\* an earlier build, and a build that lost nothing holds all there is.
THEOREM IndexHoldsOneBuild == Spec => []IndexIsItsBuild
<1>1. BuildInv => IndexIsItsBuild
  BY OneBuildIs DEF BuildInv
<1> QED
  BY <1>1, BuildInit, BuildStep, PTL DEF Spec

-----------------------------------------------------------------------------
(* What deleting the orphans leaves. *)

\* The rows that are the chunks of a reading back every class it declares.
LEMMA ReadingBacks ==
    ASSUME NEW F \in [Files -> Contents \cup {None}],
           Rows(chunks, "structural") = ChunksOf("structural", F),
           NEW f \in Files, F[f] # None
    PROVE  ClassesOf(f, F[f]) \subseteq Backed
<1> DEFINE text == F[f]
           q == Split("structural", f, text)
           rows == Rows(chunks, "structural")
<1>1. text \in Contents /\ "structural" \in Strategies
  BY DEF Strategies
<1> HIDE DEF text
<1>2. /\ q # <<>> /\ q \in Seq(Chunks)
      /\ \A r \in Range(q) : r.file = f
      /\ text.decl # <<>> => \A d \in Range(text.decl) : \E r \in Range(q) : r.decl = d
  <2> DEFINE s == "structural"
  <2>1. s \in Strategies /\ s = "structural" /\ q = Split(s, f, text)
    BY <1>1
  <2> HIDE DEF s, q
  <2>2. q # <<>> /\ q \in Seq(Chunks)
    BY <1>1, <2>1, SplitChunks
  <2>3. \A r \in Range(q) : r.file = f
    BY <1>1, <2>1, SplitChunks
  <2>4. ASSUME text.decl # <<>>, NEW d \in Range(text.decl)
        PROVE  \E r \in Range(q) : r.decl = d
    BY <1>1, <2>4, StructuralChunks DEF q
  <2> QED
    BY <2>2, <2>3, <2>4
<1>3. q[1] \in Range(q)
  BY <1>2 DEF Range
<1>4. Range(q) \subseteq rows
  BY ChunkOfReading DEF text
<1>5. Backed = {r.decl : r \in rows} \cup {FileClass[r.file] : r \in rows}
  BY OneBuildIs DEF Backed
<1> HIDE DEF q, rows
<1>6. FileClass[f] \in Backed
  BY <1>2, <1>3, <1>4, <1>5
<1>7. text.decl # <<>> => Range(text.decl) \subseteq Backed
  BY <1>2, <1>4, <1>5
<1> QED
  BY <1>6, <1>7 DEF ClassesOf, text

LEMMA BackedStep ==
    BuildInv /\ [Next]_vars =>
        [\A c \in Known :
           metadata'[c] = None /\ whole["structural"] =>
               \A f \in Files : read["structural"][f] # None =>
                   c \notin ClassesOf(f, read["structural"][f])]_vars
<1> SUFFICES ASSUME BuildInv, [Next]_vars, NEW c \in Known,
                    metadata'[c] = None, whole["structural"],
                    NEW f \in Files, read["structural"][f] # None
             PROVE  c \notin ClassesOf(f, read["structural"][f])
  OBVIOUS
<1>0. TypeOK /\ c \in Classes /\ metadata[c] # None
  BY DEF BuildInv, Known
<1>1. DeleteOrphans
  <2>1. metadata' # metadata
    BY <1>0
  <2>2. ~Describe
    <3> SUFFICES ASSUME Describe PROVE FALSE
      OBVIOUS
    <3>1. todo \in Seq(Descriptions) /\ todo # <<>>
      BY <1>0 DEF Describe, TypeOK
    <3> DEFINE d == Head(todo)
    <3>2. d \in Descriptions
      BY <3>1, HeadAndTail
    <3>3. metadata' = [metadata EXCEPT ![d.decl] = d]
      BY <2>1 DEF Describe
    <3> HIDE DEF d
    <3> QED
      BY <1>0, <3>2, <3>3, NoneIsNoDescription DEF TypeOK, Descriptions
  <2>3. ~Enrich
    <3> SUFFICES ASSUME Enrich PROVE FALSE
      OBVIOUS
    <3>1. todo \in Seq(Known) /\ todo # <<>>
      BY <1>0 DEF Enrich, TypeOK
    <3> DEFINE d == Head(todo)
    <3>2. d \in Known
      BY <3>1, HeadAndTail
    <3>3. metadata' = [metadata EXCEPT ![d].usedBy = UsedBy(deps, d)]
      BY <2>1 DEF Enrich
    <3> HIDE DEF d
    <3>4. Known' = Known
      BY <1>0, <3>2, <3>3, EnrichedRow
    <3> QED
      BY <3>4 DEF Known
  <2>4. \A force, extract \in BOOLEAN : ~Start(force, extract)
    BY <2>1 DEF Start, db
  <2>5. ~BuildIndex
    BY <2>1 DEF BuildIndex, SkipIndex, Rebuild, SplitFile, SkipFile, IndexChunk, IndexBuilt, db
  <2>6. ~ReadDeclarations /\ ~SkipInPassA /\ ~AllDescribed /\ ~BuildGraph /\ ~Embed /\ ~Enriched
    BY <2>1 DEF ReadDeclarations, SkipInPassA, AllDescribed, BuildGraph, ReadDependencies,
                SkipInPassB, GraphBuilt, Embed, Enriched, db
  <2>7. /\ ~Stop /\ ~UNCHANGED vars
        /\ \A g \in Files, text \in Contents \cup {None} : ~Edit(g, text)
    BY <2>1 DEF Stop, Edit, vars, db
  <2> QED
    BY <2>2, <2>3, <2>4, <2>5, <2>6, <2>7
    DEF Next, Indexing, DescribeClasses, EnrichClasses
<1>2. c \notin Backed
  BY <1>0, <1>1 DEF DeleteOrphans, deleteClassMetadata
<1> DEFINE F == read["structural"]
<1>3. F \in [Files -> Contents \cup {None}] /\ F[f] # None
  BY <1>0 DEF TypeOK, Strategies
<1>4. Rows(chunks, "structural") = ChunksOf("structural", F)
  BY DEF BuildInv, OneBuild, Strategies
<1> HIDE DEF F
<1>5. ClassesOf(f, F[f]) \subseteq Backed
  BY <1>3, <1>4, ReadingBacks
<1> QED
  BY <1>2, <1>5 DEF F

\* Deleting the orphans takes no class that a file of the structural index
\* declares or is named for, as long as the build of that index lost no chunk.
THEOREM OrphansAreNotBacked == Spec => BackedKept
<1>1. BuildInv /\ [Next]_vars =>
        [\A c \in Known :
           metadata'[c] = None /\ whole["structural"] =>
               \A f \in Files : read["structural"][f] # None =>
                   c \notin ClassesOf(f, read["structural"][f])]_vars
  BY BackedStep
<1> QED
  BY <1>1, BuildInit, BuildStep, PTL DEF Spec, BackedKept

-----------------------------------------------------------------------------
(* What the last pass leaves of each class. *)

\* While the classes are enriched, those that are done show the users in the
\* graph, and have a vector unless something failed; the class that is about to
\* be embedded shows them already.  No class has a vector and no description.
Enriching ==
    /\ Found \subseteq Known
    /\ pc \in {"passC", "embed"} =>
         /\ \A c \in Known \ Range(todo) : metadata[c].usedBy = UsedBy(deps, c)
         /\ ~failed => Known \ Range(todo) \subseteq Found
    /\ pc = "embed" => metadata[Head(todo)].usedBy = UsedBy(deps, Head(todo))
    /\ pc = "serving" /\ config.extract =>
         /\ \A c \in Known : metadata[c].usedBy = UsedBy(deps, c)
         /\ ~failed => Known \subseteq Found

EnrichInv == TypeOK /\ Enriching

LEMMA EnrichInit == Init => EnrichInv
<1> SUFFICES ASSUME Init PROVE Enriching
  BY InitTypes DEF EnrichInv
<1> QED
  BY DEF Init, Enriching, Found

\* A step away from the classes: no vector, no graph and no description is lost.
LEMMA EnrichKept ==
    ASSUME EnrichInv, UNCHANGED vector, Known \subseteq Known',
           pc' \notin {"passC", "embed"}, pc' = "serving" => ~config'.extract
    PROVE  Enriching'
  BY DEF EnrichInv, Enriching, Found

LEMMA EnrichStep == EnrichInv /\ [Next]_vars => EnrichInv'
<1> SUFFICES ASSUME EnrichInv, [Next]_vars PROVE Enriching'
  BY StepTypes DEF EnrichInv
<1>0. TypeOK /\ TypeOK'
  BY StepTypes DEF EnrichInv
<1> USE DEF disk, db, cursor, history, Fail, Spend
<1>1. CASE (\E force, extract \in BOOLEAN : Start(force, extract)) \/ BuildIndex \/ Stop
  <2>1. /\ UNCHANGED <<vector, metadata>> /\ pc' \notin {"passC", "embed"}
        /\ pc' = "serving" => ~config'.extract
    BY <1>1 DEF Start, BuildIndex, SkipIndex, Rebuild, SplitFile, SkipFile, IndexChunk,
                IndexBuilt, NextIndex, Done, Stop
  <2> QED
    BY <2>1, EnrichKept DEF Known
<1>2. CASE DescribeClasses
  <2>1. UNCHANGED vector /\ pc' \in {"passA", "describe", "passB"}
    BY <1>2 DEF DescribeClasses, ReadDeclarations, SkipInPassA, Describe, AllDescribed, Done
  <2>2. Known \subseteq Known'
    <3>1. CASE metadata' = metadata
      BY <3>1 DEF Known
    <3>2. CASE metadata' # metadata
      <4>1. Describe
        BY <1>2, <3>2 DEF DescribeClasses, ReadDeclarations, SkipInPassA, AllDescribed
      <4>2. todo \in Seq(Descriptions) /\ todo # <<>>
        BY <1>0, <4>1 DEF Describe, TypeOK
      <4> DEFINE d == Head(todo)
                 c == d.decl
      <4>3. d \in Descriptions
        BY <4>2, HeadAndTail
      <4>4. metadata' = [metadata EXCEPT ![c] = d]
        BY <3>2, <4>1 DEF Describe
      <4> HIDE DEF d
      <4>5. c \in Classes
        BY <4>3 DEF Descriptions
      <4> HIDE DEF c
      <4> QED
        BY <1>0, <4>3, <4>4, <4>5, KnownAfter
    <3> QED
      BY <3>1, <3>2
  <2> QED
    BY <2>1, <2>2, EnrichKept
<1>3. CASE ReadDependencies \/ SkipInPassB
  <2>1. UNCHANGED <<vector, metadata>> /\ pc' = "passB"
    BY <1>3 DEF ReadDependencies, SkipInPassB
  <2> QED
    BY <2>1, EnrichKept DEF Known
<1>4. CASE GraphBuilt
  <2>1. /\ UNCHANGED <<vector, metadata>> /\ pc' = "passC" /\ todo' = SetToSeq(Known)
        /\ Known' = Known /\ Found' = Found
    BY <1>4 DEF GraphBuilt, Known, Found
  <2>2. Range(todo') = Known
    BY <1>0, <2>1, EnumerationLists DEF TypeOK
  <2> QED
    BY <2>1, <2>2 DEF EnrichInv, Enriching
<1>5. CASE Enrich
  <2> DEFINE c == Head(todo)
             t == Tail(todo)
  <2>1. todo \in Seq(Known) /\ todo # <<>> /\ pc = "passC"
    BY <1>0, <1>5 DEF Enrich, TypeOK
  <2>2. c \in Known /\ Range(todo) = {c} \cup Range(t)
    BY <2>1, HeadAndTail
  <2>3. Found' = Found /\ UNCHANGED <<vector, deps, failed>>
    BY <1>5 DEF Enrich, Found
  <2>4. CASE NothingNew(c) /\ todo' = t /\ UNCHANGED <<metadata, pc>>
    <3>1. c \in Found /\ metadata[c].usedBy = UsedBy(deps, c) /\ Known' = Known
      BY <2>2, <2>4 DEF NothingNew, Found, Known
    <3> HIDE DEF c, t
    <3> QED
      BY <2>1, <2>2, <2>3, <2>4, <3>1 DEF EnrichInv, Enriching
  <2>5. CASE /\ metadata' = [metadata EXCEPT ![c].usedBy = UsedBy(deps, c)]
             /\ pc' = "embed" /\ UNCHANGED todo
    <3>0. Head(todo') = c /\ Range(todo') = Range(todo)
      BY <2>5
    <3> HIDE DEF c, t
    <3>1. /\ metadata[c] \in Descriptions /\ Known' = Known
          /\ metadata' = [metadata EXCEPT ![c] =
                            [metadata[c] EXCEPT !.usedBy = UsedBy(deps, c)]]
      BY <1>0, <2>2, <2>5, EnrichedRow
    <3>2. metadata'[c].usedBy = UsedBy(deps, c)
      BY <1>0, <2>2, <3>1 DEF TypeOK, Known, Descriptions
    <3>3. \A d \in Known \ {c} : metadata'[d] = metadata[d]
      BY <3>1
    <3>4. \A d \in Known \ Range(todo) : d # c
      BY <2>2
    <3> QED
      BY <2>1, <2>3, <2>5, <3>0, <3>1, <3>2, <3>3, <3>4 DEF EnrichInv, Enriching
  <2>6. \/ NothingNew(c) /\ todo' = t /\ UNCHANGED <<metadata, pc>>
        \/ /\ metadata' = [metadata EXCEPT ![c].usedBy = UsedBy(deps, c)]
           /\ pc' = "embed" /\ UNCHANGED todo
    BY <1>5 DEF Enrich
  <2> QED
    BY <2>4, <2>5, <2>6
<1>6. CASE Embed
  <2> DEFINE c == Head(todo)
             t == Tail(todo)
  <2>1. todo \in Seq(Known) /\ todo # <<>> /\ pc = "embed" /\ pc' = "passC" /\ todo' = t
    BY <1>0, <1>6 DEF Embed, TypeOK
  <2>2. c \in Known /\ Range(todo) = {c} \cup Range(t)
    BY <2>1, HeadAndTail
  <2>3. c \in Classes /\ metadata[c] # None /\ Known' = Known /\ UNCHANGED <<metadata, deps>>
    BY <1>6, <2>2 DEF Embed, Known
  <2>4. \/ vector' = [vector EXCEPT ![c] = metadata[c]] /\ UNCHANGED failed
        \/ failed' = TRUE /\ UNCHANGED vector
    BY <1>6 DEF Embed
  <2> HIDE DEF c, t
  <2>5. \/ Found' = Found \cup {c} /\ UNCHANGED failed
        \/ failed' = TRUE /\ Found' = Found
    <3>1. CASE vector' = [vector EXCEPT ![c] = metadata[c]] /\ UNCHANGED failed
      BY <1>0, <2>3, <3>1 DEF Found, TypeOK
    <3>2. CASE failed' = TRUE /\ UNCHANGED vector
      BY <3>2 DEF Found
    <3> QED
      BY <2>4, <3>1, <3>2
  <2>6. metadata[c].usedBy = UsedBy(deps, c)
    BY <2>1 DEF EnrichInv, Enriching, c
  <2>7. \A d \in Known \ Range(t) : d \in Known \ Range(todo) \/ d = c
    BY <2>2
  <2> QED
    BY <2>1, <2>2, <2>3, <2>5, <2>6, <2>7 DEF EnrichInv, Enriching
<1>7. CASE Enriched
  <2>1. /\ pc = "passC" /\ todo = <<>> /\ pc' = "serving"
        /\ UNCHANGED <<metadata, vector, deps, failed>>
    BY <1>7 DEF Enriched
  <2>2. Range(todo) = {} /\ Known' = Known /\ Found' = Found
    BY <2>1, EmptyRange DEF Known, Found
  <2> QED
    BY <2>1, <2>2 DEF EnrichInv, Enriching
<1>8. CASE DeleteOrphans
  <2>1. /\ pc' = "serving" /\ pc = "serving" /\ UNCHANGED <<config, deps, failed>>
        /\ \A c \in Classes : /\ metadata'[c] = IF c \in Known \ Backed THEN None ELSE metadata[c]
                              /\ vector'[c] = IF c \in Known \ Backed THEN None ELSE vector[c]
    BY <1>8 DEF DeleteOrphans, deleteClassMetadata
  <2>2. Known' = Known \cap Backed /\ Found' = Found \cap Backed
    BY <2>1 DEF Known, Found, EnrichInv, Enriching
  <2>3. \A c \in Known' : metadata'[c] = metadata[c]
    BY <2>1, <2>2 DEF Known
  <2> QED
    BY <2>1, <2>2, <2>3 DEF EnrichInv, Enriching
<1>9. CASE (\E f \in Files, text \in Contents \cup {None} : Edit(f, text)) \/ UNCHANGED vars
  <2>1. UNCHANGED <<metadata, vector, pc, config, todo, deps, failed>>
    BY <1>9 DEF Edit, vars
  <2> QED
    BY <2>1 DEF EnrichInv, Enriching, Known, Found
<1> QED
  BY <1>1, <1>2, <1>3, <1>4, <1>5, <1>6, <1>7, <1>8, <1>9
  DEF Next, Indexing, BuildGraph, EnrichClasses

\* A server that serves after the passes shows the usedBy of the graph it read,
\* for the classes it skipped as unchanged as much as for the others.
THEOREM UsersAreTheGraphs == Spec => []UsedByIsGraph
<1>1. EnrichInv => UsedByIsGraph
  BY DEF EnrichInv, Enriching, UsedByIsGraph
<1> QED
  BY <1>1, EnrichInit, EnrichStep, PTL DEF Spec

\* Stage 1 of a search finds only classes with a description, and every one of
\* them after a run of the passes in which nothing failed.
THEOREM DescribedIsFound == Spec => []StageOneFinds
<1>1. EnrichInv => StageOneFinds
  BY DEF EnrichInv, Enriching, StageOneFinds
<1> QED
  BY <1>1, EnrichInit, EnrichStep, PTL DEF Spec

-----------------------------------------------------------------------------
(* A forced run in which nothing failed. *)

\* Of the files before n that declare a class, g is the last.
LastOf(files, c, g, n) ==
    /\ files[g] # None /\ g < n /\ c \in ClassesOf(g, files[g])
    /\ \A h \in Files : files[h] # None /\ h < n /\ c \in ClassesOf(h, files[h]) => h <= g

\* The classes of the files before n have the description of their last file,
\* except the rest, which are still to be described.
DescribedTo(n, rest) ==
    \A c \in Classes, g \in Files : LastOf(source, c, g, n) /\ c \notin rest =>
        metadata[c] # None /\ metadata[c].of = source[g]

\* The graph is that of the files before n.
GraphTo(n) ==
    /\ \A c \in Classes : c \in DOMAIN deps <=> \E g \in Files : LastOf(source, c, g, n)
    /\ \A c \in Classes, g \in Files : LastOf(source, c, g, n) =>
         deps[c] = (source[g].refs \cap Known) \ {c}

\* The build has read the files before n as they are.
ReadTo(n) == \A g \in Files : g < n => read[strategy][g] = source[g]

Current(s) == Rows(chunks, s) = ChunksOf(s, source)

\* Who uses a class, and that every class declared is as the files say.
UsersIn(files, c) ==
    {d \in Classes \ {c} : \E g \in Files : LastOf(files, d, g, LastFile + 1) /\ c \in files[g].refs}

DescribedAsNow ==
    \A c \in Classes, g \in Files : LastOf(source, c, g, LastFile + 1) =>
        /\ metadata[c] # None /\ vector[c] = metadata[c]
        /\ metadata[c].of = source[g] /\ metadata[c].usedBy = UsersIn(source, c)

Clean == pc # "down" /\ config.force /\ ~failed /\ fresh

Passes == {"passA", "describe", "passB", "passC", "embed", "serving"}

\* In a forced run, as long as nothing failed and nobody edited a file, every
\* loop has done its part for the files, declarations or classes behind it.
Progress ==
    /\ \A f \in Files : f \in scanned <=> source[f] # None
    /\ strategy = "structural" => Current("fixed")
    /\ pc \in Passes => Current("fixed") /\ Current("structural")
    /\ pc = "files" => ReadTo(file)
    /\ pc = "chunks" => ReadTo(file + 1)
    /\ pc = "passA" => DescribedTo(file, {})
    /\ pc = "describe" =>
         /\ source[file] # None
         /\ \A d \in Range(todo) : d.decl \in ClassesOf(file, source[file]) /\ d.of = source[file]
         /\ DescribedTo(file + 1, {d.decl : d \in Range(todo)})
    /\ pc \in {"passB", "passC", "embed"} => DescribedTo(LastFile + 1, {})
    /\ pc = "passB" => GraphTo(file)
    /\ pc \in {"passC", "embed"} =>
         /\ GraphTo(LastFile + 1)
         /\ \A c \in Known \ Range(todo) : vector[c] = metadata[c]
    /\ pc = "serving" /\ config.extract => DescribedAsNow

\* A process that is down starts with the fixed index, and the passes start with
\* no graph.
Resting ==
    /\ pc = "down" => strategy = "fixed"
    /\ pc \in {"passA", "describe"} => deps = NoGraph

ForcedInv == BuildInv /\ EnrichInv /\ Resting /\ (Clean => Progress)

LEMMA FileNumbers == Files \subseteq Nat \ {0} /\ LastFile \in Nat /\ \A g \in Files : g <= LastFile
  BY FilesAssumption DEF Files

\* There is one last file, ...
LEMMA OneLast ==
    ASSUME NEW files, NEW c, NEW n, NEW g \in Files, NEW h \in Files,
           LastOf(files, c, g, n), LastOf(files, c, h, n)
    PROVE  g = h
<1>1. g <= h /\ h <= g
  BY DEF LastOf
<1> QED
  BY <1>1, FileNumbers

\* ... none before the first one, ...
LEMMA NoneBefore == \A files, c, g : g \in Files => ~LastOf(files, c, g, 1)
  BY FileNumbers DEF LastOf

\* ... the next one if it declares the class, ...
LEMMA LastIsNext ==
    ASSUME NEW files, NEW c, NEW n \in Files, files[n] # None, c \in ClassesOf(n, files[n])
    PROVE  \A g \in Files : LastOf(files, c, g, n + 1) <=> g = n
<1>1. \A g \in Files : g < n + 1 <=> g <= n
  BY FileNumbers
<1>2. n < n + 1
  BY FileNumbers
<1>3. ASSUME NEW g \in Files, LastOf(files, c, g, n + 1) PROVE g = n
  <2>1. n <= g /\ g < n + 1
    BY <1>2, <1>3 DEF LastOf
  <2> QED
    BY <2>1, FileNumbers
<1>4. LastOf(files, c, n, n + 1)
  BY <1>1, <1>2 DEF LastOf
<1> QED
  BY <1>3, <1>4

\* ... and the one before if it does not.
LEMMA LastStays ==
    ASSUME NEW files, NEW c, NEW n \in Files,
           files[n] = None \/ c \notin ClassesOf(n, files[n])
    PROVE  \A g \in Files : LastOf(files, c, g, n + 1) <=> LastOf(files, c, g, n)
<1>1. \A g \in Files : g < n + 1 <=> g < n \/ g = n
  BY FileNumbers
<1> QED
  BY <1>1 DEF LastOf

\* A set of natural numbers has a least one.
LEMMA LeastElement ==
    ASSUME NEW S \in SUBSET Nat, S # {}
    PROVE  \E x \in S : \A y \in S : x <= y
<1> DEFINE R == OpToRel(<, Nat)
<1>1. IsWellFoundedOn(R, Nat)
  BY NatLessThanWellFounded
<1>2. \A x, y \in Nat : (<<y, x>> \in R) <=> y < x
  BY DEF OpToRel
<1> HIDE DEF R
<1>3. PICK x \in S : \A y \in S : ~ (<<y, x>> \in R)
  BY <1>1, WFMin, Zenon
<1>4. \A y \in S : x \in Nat /\ y \in Nat /\ ~(y < x)
  BY <1>2, <1>3
<1> QED
  BY <1>4

\* A class that a file declares has a last file.
LEMMA SomeLast ==
    ASSUME NEW files, NEW c, NEW f \in Files, files[f] # None, c \in ClassesOf(f, files[f])
    PROVE  \E g \in Files : LastOf(files, c, g, LastFile + 1)
<1> DEFINE D == {h \in Files : files[h] # None /\ c \in ClassesOf(h, files[h])}
           S == {k \in Nat : \E h \in D : k = LastFile - h}
<1>1. LastFile - f \in S
  BY FileNumbers
<1>2. PICK k \in S : \A j \in S : k <= j
  <2> HIDE DEF S
  <2>1. S \subseteq Nat /\ S # {}
    BY <1>1 DEF S
  <2> QED
    BY <2>1, LeastElement
<1>3. PICK g \in D : k = LastFile - g
  OBVIOUS
<1>4. ASSUME NEW h \in D PROVE h <= g
  <2>1. LastFile - h \in S
    BY FileNumbers
  <2>2. k <= LastFile - h
    BY <1>2, <2>1
  <2> QED
    BY <1>3, <2>2, FileNumbers
<1>5. g < LastFile + 1
  BY FileNumbers
<1> QED
  BY <1>4, <1>5 DEF LastOf

LEMMA ClassesAreClasses ==
    ASSUME NEW f \in Files, NEW text \in Contents
    PROVE  ClassesOf(f, text) \subseteq Classes
<1>1. text.decl \in Seq(Classes) /\ FileClass[f] \in Classes
  BY FilesAssumption
<1> DEFINE d == text.decl
<1>2. \A i \in DOMAIN d : d[i] \in Classes
  BY <1>1
<1> HIDE DEF d
<1>3. Range(d) \subseteq Classes
  BY <1>2 DEF Range
<1> QED
  BY <1>1, <1>3 DEF ClassesOf, d

\* When the structural index is that of the files, it names the classes of each.
LEMMA DeclaredNow ==
    ASSUME TypeOK, Current("structural"), NEW f \in Files, source[f] # None
    PROVE  Declared(f) = ClassesOf(f, source[f])
<1> DEFINE text == source[f]
           rows == Rows(chunks, "structural")
           q == Split("structural", f, text)
           names == {c.decl : c \in {r \in rows : r.file = f}} \ {None}
<1>1. text \in Contents /\ source \in [Files -> Contents \cup {None}] /\ "structural" \in Strategies
  BY DEF TypeOK, Strategies
<1>2. Declared(f) = IF names = {} THEN {FileClass[f]} ELSE names
  BY OneBuildIs DEF Declared
<1>3. \A r : r \in rows /\ r.file = f <=> r \in Range(q)
  <2>1. ASSUME NEW r \in Range(q) PROVE r \in rows /\ r.file = f
    <3>1. r \in rows
      BY ChunkOfReading DEF Current
    <3>2. r.file = f
      <4> HIDE DEF text
      <4> QED
        BY <1>1, SplitChunks
    <3> QED
      BY <3>1, <3>2
  <2>2. ASSUME NEW r \in rows, r.file = f PROVE r \in Range(q)
    <3>1. PICK g \in Files : source[g] # None /\ r \in Range(Split("structural", g, source[g]))
      BY ChunkOfReading DEF Current
    <3>2. source[g] \in Contents
      BY <1>1, <3>1
    <3>3. r.file = g
      BY <1>1, <3>1, <3>2, SplitChunks
    <3> QED
      BY <2>2, <3>1, <3>3
  <2> QED
    BY <2>1, <2>2
<1> HIDE DEF text, rows
<1>4. \A d : d \in names <=> d # None /\ \E r \in Range(q) : r.decl = d
  BY <1>3
<1> HIDE DEF names
<1>5. CASE text.decl = <<>>
  <2>1. \A r \in Range(q) : r.decl = None
    BY <1>1, <1>5, SplitChunks
  <2>2. names = {}
    BY <1>4, <2>1
  <2> QED
    BY <1>2, <1>5, <2>2 DEF ClassesOf, text
<1>6. CASE text.decl # <<>>
  <2>1. /\ \A r \in Range(q) : r.decl \in Range(text.decl)
        /\ \A d \in Range(text.decl) : \E r \in Range(q) : r.decl = d
    BY <1>1, <1>6, StructuralChunks
  <2>2. Range(text.decl) \subseteq Classes
    BY <1>1, <1>6, ClassesAreClasses DEF ClassesOf
  <2>3. names = Range(text.decl)
    BY <1>4, <2>1, <2>2, NoneIsNoDescription
  <2>4. Range(text.decl) # {}
    <3>1. text.decl \in Seq(Classes)
      BY <1>1, FilesAssumption
    <3> DEFINE d == text.decl
    <3>2. 1 \in DOMAIN d
      BY <1>6, <3>1
    <3> HIDE DEF d
    <3> QED
      BY <3>2 DEF Range, d
  <2> QED
    BY <1>2, <1>6, <2>3, <2>4 DEF ClassesOf, text
<1> QED
  BY <1>5, <1>6

-----------------------------------------------------------------------------
LEMMA RestingStep == Resting /\ [Next]_vars => Resting'
<1> SUFFICES ASSUME Resting, [Next]_vars PROVE Resting'
  OBVIOUS
<1> USE DEF disk, db, cursor, history
<1>1. CASE (\E force, extract \in BOOLEAN : Start(force, extract)) \/ Stop
  BY <1>1 DEF Start, Stop, Resting
<1>2. CASE BuildIndex
  BY <1>2 DEF BuildIndex, SkipIndex, Rebuild, SplitFile, SkipFile, IndexChunk, IndexBuilt,
              NextIndex, Done, Resting
<1>3. CASE DescribeClasses
  BY <1>3 DEF DescribeClasses, ReadDeclarations, SkipInPassA, Describe, AllDescribed, Done,
              Resting
<1>4. CASE BuildGraph \/ EnrichClasses
  <2>1. pc' \notin {"down", "passA", "describe"}
    BY <1>4 DEF BuildGraph, ReadDependencies, SkipInPassB, GraphBuilt, EnrichClasses, Enrich,
                Embed, Enriched
  <2> QED
    BY <2>1 DEF Resting
<1>5. CASE DeleteOrphans \/ (\E f \in Files, text \in Contents \cup {None} : Edit(f, text))
           \/ UNCHANGED vars
  <2>1. UNCHANGED <<pc, strategy, deps>>
    BY <1>5 DEF DeleteOrphans, Edit, vars
  <2> QED
    BY <2>1 DEF Resting
<1> QED
  BY <1>1, <1>2, <1>3, <1>4, <1>5 DEF Next, Indexing

\* A run is clean only if it was, except when it starts.
LEMMA CleanBefore ==
    ASSUME TypeOK, Indexing \/ DeleteOrphans, Clean'
    PROVE  Clean /\ UNCHANGED <<source, config, scanned>> /\ ~failed'
<1> USE DEF disk, db, cursor, history, Fail
<1>1. UNCHANGED <<source, fresh, config, scanned>> /\ (failed' = failed \/ failed')
  BY DEF Indexing, BuildIndex, SkipIndex, Rebuild, SplitFile, SkipFile, IndexChunk, IndexBuilt,
         NextIndex, Done, DescribeClasses, ReadDeclarations, SkipInPassA, Describe, AllDescribed,
         BuildGraph, ReadDependencies, SkipInPassB, GraphBuilt, EnrichClasses, Enrich, Embed,
         Enriched, PassOver, DeleteOrphans
<1>2. pc # "down"
  BY DEF Indexing, BuildIndex, SkipIndex, Rebuild, SplitFile, SkipFile, IndexChunk, IndexBuilt,
         DescribeClasses, ReadDeclarations, SkipInPassA, Describe, AllDescribed,
         BuildGraph, ReadDependencies, SkipInPassB, GraphBuilt, EnrichClasses, Enrich, Embed,
         Enriched, DeleteOrphans
<1> QED
  BY <1>1, <1>2 DEF Clean

LEMMA StartProgress ==
    ASSUME TypeOK, Resting, NEW force \in BOOLEAN, NEW extract \in BOOLEAN, Start(force, extract)
    PROVE  Progress'
<1>1. /\ pc' = "strategy" /\ strategy' = "fixed" /\ UNCHANGED source
      /\ scanned' = {f \in Files : source[f] # None}
  BY DEF Start, Resting
<1> QED
  BY <1>1 DEF Progress, Passes

-----------------------------------------------------------------------------
(* Building the indexes. *)
LEMMA RebuildProgress ==
    ASSUME TypeOK, Progress, Rebuild, UNCHANGED <<source, scanned>>
    PROVE  Progress'
<1>1. /\ strategy \in Strategies /\ strategy' = strategy /\ pc' = "files" /\ file' = 1
      /\ chunks' = IF hasIndex(strategy) THEN Without(strategy) ELSE chunks
  BY DEF Rebuild, TypeOK
<1>2. \A t : t # strategy => Rows(chunks', t) = Rows(chunks, t)
  BY <1>1, RowsOfLeft
<1>3. strategy' = "structural" => Current("fixed")'
  BY <1>1, <1>2 DEF Progress, Current
<1>4. ReadTo(file)'
  BY <1>1, FileNumbers DEF ReadTo
<1> QED
  BY <1>1, <1>3, <1>4 DEF Progress, Passes

LEMMA SplitProgress ==
    ASSUME TypeOK, Progress, SplitFile, UNCHANGED <<source, scanned>>
    PROVE  Progress'
<1>1. /\ pc = "files" /\ pc' = "chunks" /\ file \in Files
      /\ UNCHANGED <<chunks, strategy, file>>
      /\ read'[strategy][file] = source[file]
      /\ \A g \in Files \ {file} : read'[strategy][g] = read[strategy][g]
  BY DEF SplitFile, Readable, TypeOK, Files, db
<1>2. \A g \in Files : g < file + 1 => g < file \/ g = file
  BY <1>1, FileNumbers
<1>3. ReadTo(file + 1)'
  BY <1>1, <1>2 DEF Progress, ReadTo
<1>4. strategy' = "structural" => Current("fixed")'
  BY <1>1 DEF Progress, Current
<1> QED
  BY <1>1, <1>3, <1>4 DEF Progress, Passes

\* A file that a clean run passes over is not there.
LEMMA PassedOver ==
    ASSUME TypeOK, Progress, PassOver, ~failed'
    PROVE  file \in Files /\ source[file] = None /\ file' = file + 1
  BY DEF TypeOK, Files, Progress, PassOver, Fail

LEMMA SkipProgress ==
    ASSUME TypeOK, Progress, Building, SkipFile, ~failed', UNCHANGED <<source, scanned>>
    PROVE  Progress'
<1>1. /\ pc = "files" /\ pc' = "files" /\ UNCHANGED <<chunks, strategy, read>>
      /\ file \in Files /\ source[file] = None /\ file' = file + 1
  BY PassedOver DEF SkipFile, db
<1>2. read[strategy][file] = None
  BY <1>1 DEF Building
<1>3. \A g \in Files : g < file + 1 => g < file \/ g = file
  BY <1>1, FileNumbers
<1>4. ReadTo(file)'
  BY <1>1, <1>2, <1>3 DEF Progress, ReadTo
<1>5. strategy' = "structural" => Current("fixed")'
  BY <1>1 DEF Progress, Current
<1> QED
  BY <1>1, <1>4, <1>5 DEF Progress, Passes

\* A chunk that is saved leaves the other index as it was.
LEMMA OtherIndexKept ==
    ASSUME TypeOK, Building, IndexChunk
    PROVE  \A t : t # strategy => Rows(chunks', t) = Rows(chunks, t)
<1> DEFINE c == Head(todo)
           F == read[strategy]
<1>1. /\ todo \in Seq(Chunks) /\ todo # <<>> /\ file \in Files /\ pc = "chunks"
      /\ strategy \in Strategies /\ F \in [Files -> Contents \cup {None}]
  BY DEF IndexChunk, TypeOK
<1>2. F[file] \in Contents /\ c \in Range(Split(strategy, file, F[file])) /\ c \in Chunks
  <2>1. F[file] # None /\ Range(todo) \subseteq Range(Split(strategy, file, F[file]))
    BY <1>1 DEF Building
  <2>2. c \in Chunks /\ c \in Range(todo)
    BY <1>1, HeadAndTail
  <2> QED
    BY <1>1, <2>1, <2>2
<1> HIDE DEF F
<1>3. c.strategy = strategy
  <2> HIDE DEF c
  <2> QED
    BY <1>1, <1>2, SplitChunks
<1>4. chunks' = chunks (+) SetToBag({c}) \/ chunks' = chunks
  BY DEF IndexChunk
<1> HIDE DEF c
<1>5. CASE chunks' = chunks (+) SetToBag({c})
  <2>1. DOMAIN chunks' = DOMAIN chunks \cup {c}
    <3>1. Table(chunks)
      BY DEF TypeOK, Table
    <3> QED
      BY <1>5, <3>1, RowAdded
  <2>2. ASSUME NEW t, t # strategy PROVE Rows(chunks', t) = Rows(chunks, t)
    BY <1>3, <2>1, <2>2 DEF Rows
  <2> QED
    BY <2>2
<1>6. CASE chunks' = chunks
  BY <1>6
<1> QED
  BY <1>4, <1>5, <1>6

LEMMA ChunkProgress ==
    ASSUME TypeOK, Progress, Building, IndexChunk, UNCHANGED <<source, scanned>>
    PROVE  Progress'
<1>1. /\ pc = "chunks" /\ UNCHANGED <<strategy, read>> /\ strategy \in Strategies
      /\ \/ pc' = "chunks" /\ file' = file
         \/ pc' = "files" /\ file' = file + 1
  BY DEF IndexChunk, Done, TypeOK
<1>2. ReadTo(file + 1)
  BY <1>1 DEF Progress
<1>3. strategy' = "structural" => Current("fixed")'
  BY <1>1, OtherIndexKept DEF Progress, Current
<1>4. CASE pc' = "chunks" /\ file' = file
  <2>1. ReadTo(file + 1)'
    BY <1>1, <1>2, <1>4 DEF ReadTo
  <2> QED
    BY <1>1, <1>3, <1>4, <2>1 DEF Progress, Passes
<1>5. CASE pc' = "files" /\ file' = file + 1
  <2>1. ReadTo(file)'
    BY <1>1, <1>2, <1>5 DEF ReadTo
  <2> QED
    BY <1>1, <1>3, <1>5, <2>1 DEF Progress, Passes
<1> QED
  BY <1>1, <1>4, <1>5

LEMMA BuiltProgress ==
    ASSUME TypeOK, Progress, Building, IndexBuilt, ~failed', UNCHANGED <<source, scanned, config>>
    PROVE  Progress'
<1> DEFINE F == read[strategy]
<1>1. /\ pc = "files" /\ file > LastFile /\ UNCHANGED <<chunks, failed>>
      /\ strategy \in Strategies /\ F \in [Files -> Contents \cup {None}]
      /\ source \in [Files -> Contents \cup {None}] /\ file \in 1 .. LastFile + 1
  BY DEF IndexBuilt, TypeOK, db
<1>2. \A g \in Files : g < file
  BY <1>1, FileNumbers
<1>3. F = source
  <2>1. \A g \in Files : F[g] = source[g]
    BY <1>1, <1>2 DEF Progress, ReadTo
  <2> HIDE DEF F
  <2> QED
    BY <1>1, <2>1
<1>4. Current(strategy)
  BY <1>1, <1>3 DEF Building, Current
<1>5. \A s \in Strategies : Current(s) => (Rows(chunks', s) = ChunksOf(s, source'))
  BY <1>1 DEF Current
<1>6. CASE strategy = "fixed"
  <2>1. pc' = "strategy" /\ strategy' = "structural"
    BY <1>6 DEF IndexBuilt, NextIndex
  <2>2. Current("fixed")'
    BY <1>1, <1>4, <1>5, <1>6 DEF Current
  <2> QED
    BY <2>1, <2>2 DEF Progress, Passes
<1>7. CASE strategy # "fixed"
  <2>1. strategy = "structural"
    BY <1>1, <1>7 DEF Strategies
  <2>2. /\ strategy' = "structural"
        /\ \/ pc' = "passA" /\ file' = 1
           \/ pc' = "serving" /\ ~config'.extract
    BY <1>7, <2>1 DEF IndexBuilt, NextIndex
  <2>3. Current("fixed")' /\ Current("structural")'
    BY <1>1, <1>4, <2>1 DEF Progress, Current
  <2>4. pc' = "passA" => DescribedTo(file, {})'
    BY <2>2, NoneBefore DEF DescribedTo
  <2> QED
    BY <2>2, <2>3, <2>4 DEF Progress, Passes
<1> QED
  BY <1>6, <1>7

-----------------------------------------------------------------------------
(* Describing the classes. *)
LEMMA DeclaringProgress ==
    ASSUME TypeOK, Progress, ReadDeclarations, UNCHANGED <<source, scanned>>
    PROVE  Progress'
<1> DEFINE text == source[file]
           D == ClassesOf(file, text)
           T == {Description(c, file, text) : c \in D}
<1>1. /\ pc = "passA" /\ pc' = "describe" /\ UNCHANGED <<chunks, metadata, file>>
      /\ file \in Files /\ text # None /\ text \in Contents
      /\ Current("structural") /\ Current("fixed")
  BY DEF ReadDeclarations, Readable, TypeOK, Files, db, Progress, Passes
<1>2. Declared(file) = D
  BY <1>1, DeclaredNow
<1>3. Range(todo') = T
  <2>1. todo' = SetToSeq({Description(c, file, text) : c \in Declared(file)})
    BY DEF ReadDeclarations
  <2> HIDE DEF text, D
  <2>2. Range(SetToSeq({Description(c, file, text) : c \in Declared(file)})) =
          {Description(c, file, text) : c \in Declared(file)}
    BY <1>1, DescriptionsListed
  <2> QED
    BY <1>2, <2>1, <2>2
<1> HIDE DEF text, D
<1>4. \A d \in T : d.decl \in D /\ d.of = text
  BY DEF Description
<1>5. ASSUME NEW c \in D PROVE c \in {d.decl : d \in T}
  <2>1. Description(c, file, text) \in T /\ Description(c, file, text).decl = c
    BY DEF Description
  <2> HIDE DEF T
  <2> QED
    BY <2>1
<1> HIDE DEF T
<1>6. \A c \in Classes \ D, g \in Files :
        LastOf(source, c, g, file + 1) => metadata[c] # None /\ metadata[c].of = source[g]
  <2> SUFFICES ASSUME NEW c \in Classes \ D, NEW g \in Files, LastOf(source, c, g, file + 1)
               PROVE  metadata[c] # None /\ metadata[c].of = source[g]
    OBVIOUS
  <2>1. LastOf(source, c, g, file)
    BY <1>1, LastStays DEF D, text
  <2> QED
    BY <1>1, <2>1 DEF Progress, DescribedTo
<1>7. DescribedTo(file + 1, {d.decl : d \in Range(todo)})'
  BY <1>1, <1>3, <1>5, <1>6 DEF DescribedTo
<1>8. Current("fixed")' /\ Current("structural")'
  BY <1>1 DEF Current
<1>9. \A d \in Range(todo') : d.decl \in ClassesOf(file', source'[file']) /\ d.of = source'[file']
  BY <1>1, <1>3, <1>4 DEF D, text
<1>10. \A f \in Files : f \in scanned' <=> source'[f] # None
  BY DEF Progress
<1>11. source'[file'] # None
  BY <1>1 DEF text
<1> QED
  BY <1>1, <1>7, <1>8, <1>9, <1>10, <1>11 DEF Progress, Passes

LEMMA SkipDescribeProgress ==
    ASSUME TypeOK, Progress, SkipInPassA, ~failed', UNCHANGED <<source, scanned>>
    PROVE  Progress'
<1>1. /\ pc = "passA" /\ pc' = "passA" /\ UNCHANGED <<chunks, metadata>>
      /\ file \in Files /\ source[file] = None /\ file' = file + 1
  BY PassedOver DEF SkipInPassA, db
<1>2. \A c \in Classes, g \in Files : LastOf(source, c, g, file + 1) => LastOf(source, c, g, file)
  BY <1>1, LastStays
<1>3. DescribedTo(file, {})'
  BY <1>1, <1>2 DEF Progress, DescribedTo
<1>4. Current("fixed")' /\ Current("structural")'
  BY <1>1 DEF Progress, Current, Passes
<1> QED
  BY <1>1, <1>3, <1>4 DEF Progress, Passes

\* A clean, forced run describes the class anew, whatever it had.
LEMMA DescribeProgress ==
    ASSUME TypeOK, Progress, Describe, config.force, ~failed', UNCHANGED <<source, scanned>>
    PROVE  Progress'
<1> DEFINE d == Head(todo)
           t == Tail(todo)
           c == d.decl
           text == source[file]
<1>1. /\ todo \in Seq(Descriptions) /\ todo # <<>> /\ file \in Files /\ pc = "describe"
      /\ UNCHANGED chunks /\ Current("fixed") /\ Current("structural") /\ todo' = t
      /\ \/ pc' = "describe" /\ file' = file
         \/ pc' = "passA" /\ file' = file + 1 /\ Len(todo) \leq 1
  BY DEF Describe, Done, TypeOK, Progress, Passes
<1>2. d \in Descriptions /\ Range(todo) = {d} \cup Range(t) /\ t \in Seq(Descriptions)
  BY <1>1, HeadAndTail
<1>3. metadata' = [metadata EXCEPT ![c] = d]
  BY DEF Describe, Fail
<1>4. /\ text # None
      /\ \A e \in Range(todo) : e.decl \in ClassesOf(file, text) /\ e.of = text
      /\ DescribedTo(file + 1, {e.decl : e \in Range(todo)})
  BY <1>1 DEF Progress
<1>5. Range(t) = {} \/ pc' = "describe"
  <2> DEFINE n == Len(todo)
  <2>1. t \in Seq(Descriptions) /\ Len(t) = n - 1 /\ n \in Nat \ {0}
    BY <1>1, HeadAndTail
  <2>2. n \leq 1 => t = <<>>
    <3> HIDE DEF t, n
    <3> QED
      BY <2>1
  <2> QED
    BY <1>1, <2>2, EmptyRange
<1> HIDE DEF d, t, text
<1>6. c \in Classes /\ c \in ClassesOf(file, text) /\ d.of = text /\ d # None
  BY <1>2, <1>4, NoneIsNoDescription DEF Descriptions
<1>7. /\ metadata'[c] = d
      /\ \A e \in Classes \ {c} : metadata'[e] = metadata[e]
  BY <1>3, <1>6 DEF TypeOK
<1> DEFINE rest == {e.decl : e \in Range(t)}
<1>8. \A e : e \in {x.decl : x \in Range(todo)} => e = c \/ e \in rest
  BY <1>2
<1> HIDE DEF c, rest
<1>9. \A e \in Classes, g \in Files : LastOf(source, e, g, file + 1) /\ e \notin rest =>
        metadata'[e] # None /\ metadata'[e].of = source[g]
  <2> SUFFICES ASSUME NEW e \in Classes, NEW g \in Files, LastOf(source, e, g, file + 1),
                      e \notin rest
               PROVE  metadata'[e] # None /\ metadata'[e].of = source[g]
    OBVIOUS
  <2>1. CASE e = c
    <3>1. g = file
      BY <1>1, <1>4, <1>6, <2>1, LastIsNext DEF text
    <3> QED
      BY <1>6, <1>7, <2>1, <3>1 DEF text
  <2>2. CASE e # c
    BY <1>4, <1>7, <1>8, <2>2 DEF DescribedTo
  <2> QED
    BY <2>1, <2>2
<1>10. Current("fixed")' /\ Current("structural")'
  BY <1>1 DEF Current
<1>11. CASE pc' = "describe" /\ file' = file
  <2>1. DescribedTo(file + 1, {x.decl : x \in Range(todo)})'
    BY <1>1, <1>9, <1>11 DEF DescribedTo, rest
  <2>2. \A e \in Range(todo') : e.decl \in ClassesOf(file', source'[file']) /\ e.of = source'[file']
    BY <1>1, <1>2, <1>4, <1>11 DEF text
  <2> QED
    BY <1>4, <1>10, <1>11, <2>1, <2>2 DEF Progress, Passes, text
<1>12. CASE pc' = "passA" /\ file' = file + 1
  <2>1. rest = {}
    BY <1>5, <1>12 DEF rest
  <2>2. DescribedTo(file, {})'
    BY <1>9, <1>12, <2>1 DEF DescribedTo
  <2> QED
    BY <1>10, <1>12, <2>2 DEF Progress, Passes
<1> QED
  BY <1>1, <1>11, <1>12

LEMMA DescribedProgress ==
    ASSUME TypeOK, Progress, Resting, AllDescribed, UNCHANGED <<source, scanned>>
    PROVE  Progress'
<1>1. /\ pc = "passA" /\ pc' = "passB" /\ file' = 1 /\ UNCHANGED <<chunks, metadata, deps>>
      /\ file = LastFile + 1 /\ deps = NoGraph
  BY FileNumbers DEF AllDescribed, db, TypeOK, Resting
<1>2. DescribedTo(LastFile + 1, {})'
  BY <1>1 DEF Progress, DescribedTo
<1>3. GraphTo(file)'
  BY <1>1, NoneBefore DEF GraphTo, NoGraph
<1>4. Current("fixed")' /\ Current("structural")'
  BY <1>1 DEF Progress, Current, Passes
<1> QED
  BY <1>1, <1>2, <1>3, <1>4 DEF Progress, Passes

-----------------------------------------------------------------------------
(* The graph of who uses whom. *)
LEMMA DependenciesProgress ==
    ASSUME TypeOK, Progress, ReadDependencies, UNCHANGED <<source, scanned>>
    PROVE  Progress'
<1> DEFINE D == ClassesOf(file, source[file])
<1>1. /\ pc = "passB" /\ pc' = "passB" /\ file' = file + 1 /\ UNCHANGED <<chunks, metadata>>
      /\ file \in Files /\ source[file] # None /\ source[file] \in Contents
      /\ Current("structural") /\ Current("fixed") /\ deps' = WithDependencies(file)
  BY DEF ReadDependencies, Readable, TypeOK, Files, db, Progress, Passes
<1>2. Declared(file) = D
  BY <1>1, DeclaredNow
<1>3. /\ DOMAIN deps' = D \cup DOMAIN deps
      /\ \A c \in D : deps'[c] = (source[file].refs \cap Known) \ {c}
      /\ \A c \in DOMAIN deps \ D : deps'[c] = deps[c]
  BY <1>1, <1>2, GraphType
<1>4. GraphTo(file) /\ Known' = Known
  BY <1>1 DEF Progress, Known
<1> HIDE DEF D
<1>5. ASSUME NEW c \in Classes
      PROVE  /\ c \in DOMAIN deps' <=> \E g \in Files : LastOf(source, c, g, file + 1)
             /\ \A g \in Files : LastOf(source, c, g, file + 1) =>
                  deps'[c] = (source[g].refs \cap Known) \ {c}
  <2>1. CASE c \in D
    <3>1. \A g \in Files : LastOf(source, c, g, file + 1) <=> g = file
      BY <1>1, <2>1, LastIsNext DEF D
    <3> QED
      BY <1>1, <1>3, <2>1, <3>1
  <2>2. CASE c \notin D
    <3>1. \A g \in Files : LastOf(source, c, g, file + 1) <=> LastOf(source, c, g, file)
      BY <1>1, <2>2, LastStays DEF D
    <3>2. c \in DOMAIN deps' <=> c \in DOMAIN deps
      BY <1>3, <2>2
    <3>3. c \in DOMAIN deps => deps'[c] = deps[c]
      BY <1>3, <2>2
    <3> QED
      BY <1>4, <3>1, <3>2, <3>3 DEF GraphTo
  <2> QED
    BY <2>1, <2>2
<1>6. GraphTo(file)'
  BY <1>1, <1>4, <1>5 DEF GraphTo
<1>7. DescribedTo(LastFile + 1, {})'
  BY <1>1 DEF Progress, DescribedTo
<1>8. Current("fixed")' /\ Current("structural")'
  BY <1>1 DEF Current
<1> QED
  BY <1>1, <1>6, <1>7, <1>8 DEF Progress, Passes

LEMMA SkipGraphProgress ==
    ASSUME TypeOK, Progress, SkipInPassB, ~failed', UNCHANGED <<source, scanned>>
    PROVE  Progress'
<1>1. /\ pc = "passB" /\ pc' = "passB" /\ UNCHANGED <<chunks, metadata, deps>>
      /\ file \in Files /\ source[file] = None /\ file' = file + 1
  BY PassedOver DEF SkipInPassB, db
<1>2. \A c \in Classes, g \in Files : LastOf(source, c, g, file + 1) <=> LastOf(source, c, g, file)
  BY <1>1, LastStays
<1>3. GraphTo(file) /\ Known' = Known
  BY <1>1 DEF Progress, Known
<1>4. GraphTo(file)'
  BY <1>1, <1>2, <1>3 DEF GraphTo
<1>5. DescribedTo(LastFile + 1, {})'
  BY <1>1 DEF Progress, DescribedTo
<1>6. Current("fixed")' /\ Current("structural")'
  BY <1>1 DEF Progress, Current, Passes
<1> QED
  BY <1>1, <1>4, <1>5, <1>6 DEF Progress, Passes

LEMMA GraphProgress ==
    ASSUME TypeOK, Progress, GraphBuilt, UNCHANGED <<source, scanned>>
    PROVE  Progress'
<1>1. /\ pc = "passB" /\ pc' = "passC" /\ todo' = SetToSeq(Known)
      /\ UNCHANGED <<chunks, metadata, vector, deps>> /\ file = LastFile + 1 /\ Known' = Known
  BY FileNumbers DEF GraphBuilt, db, TypeOK, Known
<1>2. Range(todo') = Known
  BY <1>1, EnumerationLists DEF TypeOK
<1>3. GraphTo(LastFile + 1)'
  BY <1>1 DEF Progress, GraphTo
<1>4. DescribedTo(LastFile + 1, {})'
  BY <1>1 DEF Progress, DescribedTo
<1>5. Current("fixed")' /\ Current("structural")'
  BY <1>1 DEF Progress, Current, Passes
<1> QED
  BY <1>1, <1>2, <1>3, <1>4, <1>5 DEF Progress, Passes

-----------------------------------------------------------------------------
(* Enriching the classes. *)
LEMMA EnrichProgress ==
    ASSUME TypeOK, Progress, Enrich, config.force, UNCHANGED <<source, scanned>>
    PROVE  Progress'
<1> DEFINE c == Head(todo)
<1>1. /\ todo \in Seq(Known) /\ todo # <<>> /\ pc = "passC"
      /\ UNCHANGED <<chunks, vector, deps>>
  BY DEF Enrich, TypeOK, db
<1>2. c \in Known /\ c \in Range(todo)
  BY <1>1, HeadAndTail
<1>3. /\ metadata' = [metadata EXCEPT ![c].usedBy = UsedBy(deps, c)]
      /\ pc' = "embed" /\ todo' = todo
  BY DEF Enrich, NothingNew
<1> HIDE DEF c
<1>4. /\ metadata[c] \in Descriptions /\ Known' = Known
      /\ metadata' = [metadata EXCEPT ![c] = [metadata[c] EXCEPT !.usedBy = UsedBy(deps, c)]]
      /\ [metadata[c] EXCEPT !.usedBy = UsedBy(deps, c)] \in Descriptions
  BY <1>2, <1>3, EnrichedRow
<1>5. \A d \in Classes : /\ metadata'[d] = None <=> metadata[d] = None
                         /\ metadata[d] # None => metadata'[d].of = metadata[d].of
                         /\ d # c => metadata'[d] = metadata[d]
  <2>1. metadata'[c] = [metadata[c] EXCEPT !.usedBy = UsedBy(deps, c)]
    BY <1>2, <1>4 DEF TypeOK, Known
  <2>2. metadata'[c] # None /\ metadata[c] # None /\ metadata'[c].of = metadata[c].of
    BY <1>4, <2>1, NoneIsNoDescription DEF Descriptions
  <2>3. \A d \in Classes \ {c} : metadata'[d] = metadata[d]
    BY <1>4 DEF TypeOK
  <2> QED
    BY <2>2, <2>3
<1>6. DescribedTo(LastFile + 1, {})'
  BY <1>1, <1>5 DEF Progress, DescribedTo
<1>7. GraphTo(LastFile + 1)'
  BY <1>1, <1>4 DEF Progress, GraphTo
<1>8. \A d \in Known' \ Range(todo') : vector'[d] = metadata'[d]
  BY <1>1, <1>2, <1>3, <1>4, <1>5 DEF Progress, Known
<1>9. Current("fixed")' /\ Current("structural")'
  BY <1>1 DEF Progress, Current, Passes
<1> QED
  BY <1>3, <1>6, <1>7, <1>8, <1>9 DEF Progress, Passes

LEMMA EmbedProgress ==
    ASSUME TypeOK, Progress, Embed, ~failed', UNCHANGED <<source, scanned>>
    PROVE  Progress'
<1> DEFINE c == Head(todo)
           t == Tail(todo)
<1>1. /\ todo \in Seq(Known) /\ todo # <<>> /\ pc = "embed" /\ pc' = "passC" /\ todo' = t
      /\ UNCHANGED <<chunks, metadata, deps>> /\ Known' = Known
      /\ vector' = [vector EXCEPT ![c] = metadata[c]]
  BY DEF Embed, TypeOK, Fail, Known
<1>2. c \in Known /\ Range(todo) = {c} \cup Range(t)
  BY <1>1, HeadAndTail
<1> HIDE DEF c, t
<1>3. vector'[c] = metadata[c] /\ \A d \in Known \ {c} : vector'[d] = vector[d]
  BY <1>1, <1>2 DEF TypeOK, Known
<1>4. \A d \in Known' \ Range(todo') : vector'[d] = metadata'[d]
  BY <1>1, <1>2, <1>3 DEF Progress
<1>5. DescribedTo(LastFile + 1, {})'
  BY <1>1 DEF Progress, DescribedTo
<1>6. GraphTo(LastFile + 1)'
  BY <1>1 DEF Progress, GraphTo
<1>7. Current("fixed")' /\ Current("structural")'
  BY <1>1 DEF Progress, Current, Passes
<1> QED
  BY <1>1, <1>4, <1>5, <1>6, <1>7 DEF Progress, Passes

LEMMA EnrichedProgress ==
    ASSUME TypeOK, Progress, Enriching, Enriched, UNCHANGED <<source, scanned>>
    PROVE  Progress'
<1>1. /\ pc = "passC" /\ todo = <<>> /\ pc' = "serving"
      /\ UNCHANGED <<chunks, metadata, vector, deps>>
  BY DEF Enriched, db
<1>2. Range(todo) = {}
  BY <1>1, EmptyRange
<1>3. DescribedTo(LastFile + 1, {}) /\ GraphTo(LastFile + 1)
  BY <1>1 DEF Progress
<1>4. ASSUME NEW c \in Classes, NEW g \in Files, LastOf(source, c, g, LastFile + 1)
      PROVE  /\ metadata[c] # None /\ vector[c] = metadata[c]
             /\ metadata[c].of = source[g] /\ metadata[c].usedBy = UsersIn(source, c)
  <2>1. metadata[c] # None /\ metadata[c].of = source[g]
    BY <1>3, <1>4 DEF DescribedTo
  <2>2. c \in Known \ Range(todo)
    BY <1>2, <2>1 DEF Known
  <2>3. vector[c] = metadata[c]
    BY <1>1, <2>2 DEF Progress
  <2>4. metadata[c].usedBy = UsedBy(deps, c)
    BY <1>1, <2>2 DEF Enriching
  <2>5. ASSUME NEW d
        PROVE  d \in UsedBy(deps, c) <=> d \in UsersIn(source, c)
    <3>1. d \in UsedBy(deps, c) <=> d \in DOMAIN deps /\ c \in deps[d]
      BY DEF UsedBy
    <3>2. d \in UsersIn(source, c) <=>
            /\ d \in Classes \ {c}
            /\ \E h \in Files : LastOf(source, d, h, LastFile + 1) /\ c \in source[h].refs
      BY DEF UsersIn
    <3>3. ASSUME d \in UsedBy(deps, c) PROVE d \in UsersIn(source, c)
      <4>1. d \in Classes /\ d \in DOMAIN deps /\ c \in deps[d]
        BY <3>1, <3>3 DEF TypeOK
      <4>2. PICK h \in Files : LastOf(source, d, h, LastFile + 1)
        BY <1>3, <4>1 DEF GraphTo
      <4>3. deps[d] = (source[h].refs \cap Known) \ {d}
        BY <1>3, <4>1, <4>2 DEF GraphTo
      <4> QED
        BY <3>2, <4>1, <4>2, <4>3
    <3>4. ASSUME d \in UsersIn(source, c) PROVE d \in UsedBy(deps, c)
      <4>1. PICK h \in Files : LastOf(source, d, h, LastFile + 1) /\ c \in source[h].refs
        BY <3>2, <3>4
      <4>2. d \in Classes /\ d # c
        BY <3>2, <3>4
      <4>3. d \in DOMAIN deps /\ deps[d] = (source[h].refs \cap Known) \ {d}
        BY <1>3, <4>1, <4>2 DEF GraphTo
      <4> QED
        BY <2>2, <3>1, <4>1, <4>2, <4>3
    <3> QED
      BY <3>3, <3>4
  <2>6. UsedBy(deps, c) = UsersIn(source, c)
    BY <2>5
  <2> QED
    BY <2>1, <2>3, <2>4, <2>6
<1>5. DescribedAsNow'
  BY <1>1, <1>4 DEF DescribedAsNow
<1>6. Current("fixed")' /\ Current("structural")'
  BY <1>1 DEF Progress, Current, Passes
<1> QED
  BY <1>1, <1>5, <1>6 DEF Progress, Passes

\* A class that the files declare is backed by the index of these files.
LEMMA OrphansProgress ==
    ASSUME TypeOK, Progress, DeleteOrphans, UNCHANGED <<source, scanned>>
    PROVE  Progress'
<1>1. /\ pc = "serving" /\ pc' = "serving" /\ UNCHANGED <<chunks, config>>
      /\ \A c \in Classes : c \in Backed => metadata'[c] = metadata[c] /\ vector'[c] = vector[c]
      /\ source \in [Files -> Contents \cup {None}]
  BY DEF DeleteOrphans, deleteClassMetadata, cursor, TypeOK
<1>2. Current("fixed") /\ Current("structural")
  BY <1>1 DEF Progress, Passes
<1>3. ASSUME NEW c \in Classes, NEW g \in Files, LastOf(source, c, g, LastFile + 1)
      PROVE  c \in Backed
  <2>1. source[g] # None /\ c \in ClassesOf(g, source[g])
    BY <1>3 DEF LastOf
  <2> QED
    BY <1>1, <1>2, <2>1, ReadingBacks DEF Current
<1>4. config.extract => DescribedAsNow'
  BY <1>1, <1>3 DEF Progress, DescribedAsNow
<1>5. Current("fixed")' /\ Current("structural")'
  BY <1>1, <1>2 DEF Current
<1> QED
  BY <1>1, <1>4, <1>5 DEF Progress, Passes

-----------------------------------------------------------------------------
LEMMA ForcedInit == Init => ForcedInv
  BY BuildInit, EnrichInit DEF Init, ForcedInv, Resting, Clean

LEMMA ForcedStep == ForcedInv /\ [Next]_vars => ForcedInv'
<1> SUFFICES ASSUME ForcedInv, [Next]_vars, Clean' PROVE Progress'
  BY BuildStep, EnrichStep, RestingStep DEF ForcedInv
<1>0. TypeOK /\ Building /\ Enriching /\ Resting /\ (Clean => Progress)
  BY DEF ForcedInv, BuildInv, EnrichInv
<1>1. CASE Indexing \/ DeleteOrphans
  <2>1. Clean /\ UNCHANGED <<source, config, scanned>> /\ ~failed'
    BY <1>0, <1>1, CleanBefore
  <2>2. Progress /\ config.force
    BY <1>0, <2>1 DEF Clean
  <2>3. ~SkipIndex
    BY <2>2 DEF SkipIndex
  <2>4. CASE BuildIndex
    BY <1>0, <2>1, <2>2, <2>3, <2>4, RebuildProgress, SplitProgress, SkipProgress,
       ChunkProgress, BuiltProgress DEF BuildIndex
  <2>5. CASE DescribeClasses
    BY <1>0, <2>1, <2>2, <2>5, DeclaringProgress, SkipDescribeProgress, DescribeProgress,
       DescribedProgress DEF DescribeClasses
  <2>6. CASE BuildGraph
    BY <1>0, <2>1, <2>2, <2>6, DependenciesProgress, SkipGraphProgress, GraphProgress
    DEF BuildGraph
  <2>7. CASE EnrichClasses
    BY <1>0, <2>1, <2>2, <2>7, EnrichProgress, EmbedProgress, EnrichedProgress
    DEF EnrichClasses
  <2>8. CASE DeleteOrphans
    BY <1>0, <2>1, <2>2, <2>8, OrphansProgress
  <2> QED
    BY <1>1, <2>4, <2>5, <2>6, <2>7, <2>8 DEF Indexing
<1>2. ASSUME NEW force \in BOOLEAN, NEW extract \in BOOLEAN, Start(force, extract)
      PROVE  Progress'
  BY <1>0, <1>2, StartProgress
<1>3. CASE Stop
  BY <1>3 DEF Stop, Clean
<1>4. ASSUME NEW f \in Files, NEW text \in Contents \cup {None}, Edit(f, text)
      PROVE  Progress'
  BY <1>4 DEF Edit, Clean
<1>5. CASE UNCHANGED vars
  <2>1. /\ UNCHANGED <<source, chunks, metadata, vector, pc, config, scanned, strategy, file,
                       todo, deps, read>>
        /\ Clean
    BY <1>5 DEF vars, disk, db, cursor, history, Clean
  <2>2. Progress
    BY <1>0, <2>1
  <2> QED
    BY <2>1, <2>2 DEF Progress, Current, ReadTo, DescribedTo, GraphTo, DescribedAsNow, Known
<1> QED
  BY <1>1, <1>2, <1>3, <1>4, <1>5 DEF Next

LEMMA CleanIsCurrent == ForcedInv => ForcedRunIsCurrent
<1> DEFINE there == {f \in Files : source[f] # None}
           declared == UNION {ClassesOf(f, source[f]) : f \in there}
           last(c) == CHOOSE f \in there :
                          /\ c \in ClassesOf(f, source[f])
                          /\ \A g \in there : c \in ClassesOf(g, source[g]) => g <= f
           users(c) == {d \in declared \ {c} : c \in source[last(d)].refs}
<1> SUFFICES ASSUME ForcedInv, pc = "serving", config.force, config.extract, ~failed, fresh
             PROVE  /\ \A s \in Strategies : RowsOf(s) = ChunksOf(s, source)
                    /\ \A c \in declared :
                           /\ metadata[c] # None /\ vector[c] = metadata[c]
                           /\ metadata[c].usedBy = users(c)
                           /\ metadata[c].of = source[last(c)]
  BY DEF ForcedRunIsCurrent
<1>1. TypeOK /\ Progress
  BY DEF ForcedInv, BuildInv, Clean
<1>2. Current("fixed") /\ Current("structural") /\ DescribedAsNow
  BY <1>1 DEF Progress, Passes
<1>3. \A s \in Strategies : RowsOf(s) = ChunksOf(s, source)
  BY <1>2, RowsOfTable DEF Current, Strategies
<1>4. \A c : c \in declared <=> \E f \in Files : source[f] # None /\ c \in ClassesOf(f, source[f])
  OBVIOUS
<1>5. ASSUME NEW c \in declared
      PROVE  c \in Classes /\ last(c) \in Files /\ LastOf(source, c, last(c), LastFile + 1)
  <2>1. PICK f \in Files : source[f] # None /\ c \in ClassesOf(f, source[f])
    BY <1>4
  <2>2. source[f] \in Contents
    BY <1>1, <2>1 DEF TypeOK
  <2>3. c \in Classes
    BY <2>1, <2>2, ClassesAreClasses
  <2>4. PICK g \in Files : LastOf(source, c, g, LastFile + 1)
    BY <2>1, SomeLast
  <2>5. /\ \A h \in Files : h < LastFile + 1
        /\ \A h \in there : c \in ClassesOf(h, source[h]) => h <= g
        /\ g \in there /\ c \in ClassesOf(g, source[g])
    BY <2>4, FileNumbers DEF LastOf
  <2>6. /\ last(c) \in there /\ c \in ClassesOf(last(c), source[last(c)])
        /\ \A h \in there : c \in ClassesOf(h, source[h]) => h <= last(c)
    BY <2>5
  <2> HIDE DEF last
  <2> QED
    BY <2>3, <2>5, <2>6 DEF LastOf
<1> HIDE DEF last, declared
<1>6. ASSUME NEW c \in Classes, NEW g \in Files, LastOf(source, c, g, LastFile + 1)
      PROVE  c \in declared /\ g = last(c)
  <2>1. source[g] # None /\ c \in ClassesOf(g, source[g])
    BY <1>6 DEF LastOf
  <2>2. c \in declared
    BY <1>4, <2>1
  <2> QED
    BY <1>5, <1>6, <2>2, OneLast
<1>7. ASSUME NEW c \in declared
      PROVE  UsersIn(source, c) = users(c)
  <2>1. ASSUME NEW d PROVE d \in UsersIn(source, c) <=> d \in users(c)
    <3>1. d \in UsersIn(source, c) <=>
            /\ d \in Classes \ {c}
            /\ \E h \in Files : LastOf(source, d, h, LastFile + 1) /\ c \in source[h].refs
      BY DEF UsersIn
    <3>2. d \in users(c) <=> d \in declared \ {c} /\ c \in source[last(d)].refs
      OBVIOUS
    <3> QED
      BY <1>5, <1>6, <3>1, <3>2
  <2> QED
    BY <2>1
<1> HIDE DEF users
<1>8. ASSUME NEW c \in declared
      PROVE  /\ metadata[c] # None /\ vector[c] = metadata[c]
             /\ metadata[c].usedBy = users(c) /\ metadata[c].of = source[last(c)]
  <2>1. c \in Classes /\ last(c) \in Files /\ LastOf(source, c, last(c), LastFile + 1)
    BY <1>5
  <2>2. /\ metadata[c] # None /\ vector[c] = metadata[c]
        /\ metadata[c].of = source[last(c)] /\ metadata[c].usedBy = UsersIn(source, c)
    BY <1>2, <2>1 DEF DescribedAsNow
  <2> QED
    BY <1>7, <2>2
<1> QED
  BY <1>3, <1>8

\* A forced run with the passes in which nothing failed, over files nobody has
\* edited since, leaves both indexes, every description, its users and its vector
\* as the files are.
THEOREM ForcedRunsAreCurrent == Spec => []ForcedRunIsCurrent
<1> QED
  BY ForcedInit, ForcedStep, CleanIsCurrent, PTL DEF Spec
=============================================================================
