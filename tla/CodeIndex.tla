------------------------------ MODULE CodeIndex ------------------------------
(***************************************************************************)
(* The index of rag-server (IndexingService over CodeDatabase): one run at *)
(* every start of the server, before it serves.  A run builds two chunk    *)
(* indexes, each only if it is missing or the start is forced, then        *)
(* describes the classes in three passes: A, the LLM describes each        *)
(* declaration; B, the graph of who uses whom is read from the files; C,   *)
(* each description takes its usedBy from the graph and is embedded.       *)
(*                                                                         *)
(* A call to the LLM or the embedding model may fail, a file may be        *)
(* unreadable, the process may die between any two transactions, and the   *)
(* files may be edited at any time.                                        *)
(*                                                                         *)
(* Abstracted: all files are Kotlin; the text of a file is the classes it  *)
(* declares and those it refers to; the fixed strategy makes one chunk of  *)
(* a file and the structural one a chunk per declaration; the LLM's        *)
(* answer is the text it was asked about.                                  *)
(***************************************************************************)
EXTENDS Integers, SequencesExt

CONSTANTS
    Classes,     \* names of classes
    LastFile,    \* how many paths there may be
    FileClass,   \* [Files -> Classes]: the file's name without its extension
    Contents,    \* texts: records [decl |-> Seq(Classes), refs |-> SUBSET Classes]
    None,        \* no file, no row
    MaxStarts,   \* bound: starts of the server
    MaxEdits,    \* bound: edits of files
    MaxFailures  \* bound: calls of a model, reads and rows that fail

\* The paths, in the order of the scan
Files == 1 .. LastFile

ASSUME FilesAssumption ==
    /\ LastFile \in Nat
    /\ FileClass \in [Files -> Classes]
    /\ None \notin Classes \cup Contents
    /\ None \notin [decl : Classes, file : Files, of : Contents, usedBy : SUBSET Classes]
    /\ \A t \in Contents : t.decl \in Seq(Classes) /\ t.refs \subseteq Classes

Strategies == {"fixed", "structural"}

VARIABLES
    source,     \* [Files -> Contents \cup {None}]: the files on disk
    chunks,     \* a bag: the rows of code_chunks, each with its vector
    metadata,   \* class_metadata: the description of each class, or None
    vector,     \* class_metadata_vectors: the description embedded, or None
    pc,         \* where the process is
    config,     \* [force, extract]: FORCE_REINDEX and EXTRACT_METADATA of this start
    scanned,    \* the files FileScanner found at this start
    strategy,   \* the chunk index being built
    file,       \* the file a loop over the scanned files is at
    todo,       \* chunks to save, declarations to describe, or classes to enrich
    deps,       \* dependencyMap of the last pass B
    \* history, for the properties:
    read,       \* [Strategies -> what the last build of the index read of each file]
    whole,      \* [Strategies -> BOOLEAN]: the last build reached its end and lost nothing
    failed,     \* a call or a read failed in this run
    fresh,      \* no file was edited since the server was started
    budget      \* [starts, edits, failures] left

disk == <<source, fresh>>
db == <<chunks, metadata, vector>>
cursor == <<pc, config, scanned, strategy, file, todo, deps>>
history == <<read, whole, failed, budget>>
vars == <<disk, db, cursor, history>>

-----------------------------------------------------------------------------
(* What the code computes from a text. *)

\* FixedSizeStrategy.split and LanguageAwareChunker.split: a chunk carries its
\* text, where it comes from, its place there and, in the structural index, its
\* declaration
Chunk(s, f, text, d, i) ==
    [strategy |-> s, file |-> f, of |-> text, decl |-> d, order |-> i]

Split(s, f, text) ==
    IF s = "structural" /\ text.decl # <<>>
    THEN [i \in DOMAIN text.decl |-> Chunk(s, f, text, text.decl[i], i)]
    ELSE <<Chunk(s, f, text, None, 1)>>

RowsOf(s) == {c \in BagToSet(chunks) : c.strategy = s}

hasIndex(s) == RowsOf(s) # {}

\* The classes of a file as both passes A and B take them: the declarations of
\* its structural rows, or the name of the file when there is none
Declared(f) ==
    LET names == {c.decl : c \in {r \in RowsOf("structural") : r.file = f}} \ {None}
    IN  IF names = {} THEN {FileClass[f]} ELSE names

Known == {c \in Classes : metadata[c] # None}

UsedBy(graph, c) == {d \in DOMAIN graph : c \in graph[d]}

-----------------------------------------------------------------------------
NoGraph == [c \in {} |-> {}]

Unset == [force |-> FALSE, extract |-> FALSE]

Init ==
    /\ source \in [Files -> Contents \cup {None}]
    /\ chunks = EmptyBag
    /\ metadata = [c \in Classes |-> None]
    /\ vector = [c \in Classes |-> None]
    /\ pc = "down" /\ config = Unset
    /\ scanned = {} /\ strategy = "fixed" /\ file = 1 /\ todo = <<>> /\ deps = NoGraph
    /\ read = [s \in Strategies |-> [f \in Files |-> None]]
    /\ whole = [s \in Strategies |-> FALSE]
    /\ failed = FALSE /\ fresh = TRUE
    /\ budget = [starts |-> MaxStarts, edits |-> MaxEdits, failures |-> MaxFailures]

Spend(what) == budget[what] > 0 /\ budget' = [budget EXCEPT ![what] = @ - 1]

\* Something failed: it is printed and the loop goes on
Fail == Spend("failures") /\ failed' = TRUE

\* The rows of the two tables
Chunks == [strategy : Strategies, file : Files, of : Contents,
           decl : Classes \cup {None}, order : Nat]

Descriptions ==
    [decl : Classes, file : Files, of : Contents, usedBy : SUBSET Classes]

\* The types of the tables, of the files and of the place of the process: a loop
\* over chunks, declarations or classes has them left while it runs.
TypeOK ==
    /\ source \in [Files -> Contents \cup {None}]
    /\ chunks \in [DOMAIN chunks -> Nat \ {0}] /\ DOMAIN chunks \subseteq Chunks
    /\ IsFiniteSet(DOMAIN chunks)
    /\ metadata \in [Classes -> Descriptions \cup {None}] /\ IsFiniteSet(Known)
    /\ vector \in [Classes -> Descriptions \cup {None}]
    /\ pc \in {"down", "strategy", "files", "chunks", "passA", "describe", "passB",
               "passC", "embed", "serving"}
    /\ config \in [force : BOOLEAN, extract : BOOLEAN]
    /\ scanned \subseteq Files
    /\ strategy \in Strategies
    /\ file \in 1 .. LastFile + 1
    /\ pc \in {"chunks", "describe"} => file \in Files
    /\ pc = "chunks" => todo \in Seq(Chunks) /\ todo # <<>>
    /\ pc = "describe" => todo \in Seq(Descriptions) /\ todo # <<>>
    /\ pc \in {"passC", "embed"} => todo \in Seq(Known)
    /\ pc = "embed" => todo # <<>>
    /\ deps \in [DOMAIN deps -> SUBSET Classes] /\ DOMAIN deps \subseteq Classes
    /\ read \in [Strategies -> [Files -> Contents \cup {None}]]
    /\ whole \in [Strategies -> BOOLEAN]
    /\ failed \in BOOLEAN /\ fresh \in BOOLEAN

(* Starting: RagConfig.from, then indexAll. *)
Start(force, extract) ==
    /\ pc = "down"
    /\ Spend("starts")
    /\ config' = [force |-> force, extract |-> extract]
    /\ scanned' = {f \in Files : source[f] # None}
    /\ pc' = "strategy" /\ fresh' = TRUE
    /\ UNCHANGED <<source, db, strategy, file, todo, deps, read, whole, failed>>

\* What follows an index: the other index, then the passes if they are configured
NextIndex ==
    IF strategy = "fixed"
    THEN pc' = "strategy" /\ strategy' = "structural" /\ UNCHANGED <<file, deps>>
    ELSE /\ UNCHANGED strategy
         /\ IF config.extract
            THEN pc' = "passA" /\ file' = 1 /\ deps' = NoGraph
            ELSE pc' = "serving" /\ UNCHANGED <<file, deps>>

(* indexStrategy *)
SkipIndex ==
    /\ pc = "strategy" /\ hasIndex(strategy) /\ ~config.force
    /\ NextIndex
    /\ UNCHANGED <<disk, db, config, scanned, todo, read, whole, failed, budget>>

\* Mutant: the vectors are deleted and the rows are not.
KeepRows(s) == chunks

\* clearIndex is one transaction
Without(s) == [c \in {r \in BagToSet(chunks) : r.strategy # s} |-> chunks[c]]

Rebuild ==
    /\ pc = "strategy" /\ (config.force \/ ~hasIndex(strategy))
    /\ chunks' = IF hasIndex(strategy) THEN Without(strategy) ELSE chunks
    /\ pc' = "files" /\ file' = 1
    /\ read' = [read EXCEPT ![strategy] = [f \in Files |-> None]]
    /\ whole' = [whole EXCEPT ![strategy] = FALSE]
    /\ UNCHANGED <<disk, metadata, vector, config, scanned, strategy, todo, deps,
                   failed, budget>>

Readable == file <= LastFile /\ file \in scanned /\ source[file] # None

SplitFile ==
    /\ pc = "files" /\ Readable
    /\ todo' = Split(strategy, file, source[file])
    /\ read' = [read EXCEPT ![strategy][file] = source[file]]
    /\ pc' = "chunks"
    /\ UNCHANGED <<disk, db, config, scanned, strategy, file, deps, whole, failed, budget>>

\* A path the scan did not find is none of its files; one that cannot be read
\* is printed and passed over
PassOver ==
    /\ file <= LastFile
    /\ \/ file \notin scanned /\ UNCHANGED <<failed, budget>>
       \/ file \in scanned /\ source[file] = None /\ failed' = TRUE /\ UNCHANGED budget
       \/ file \in scanned /\ source[file] # None /\ Fail
    /\ file' = file + 1

SkipFile ==
    /\ pc = "files" /\ PassOver
    /\ UNCHANGED <<disk, db, pc, config, scanned, strategy, todo, deps, read, whole>>

\* The first of todo is done: the next one, or the loop's next file
Done(loop) ==
    /\ todo' = Tail(todo)
    /\ IF Len(todo) > 1 THEN UNCHANGED <<pc, file>>
                        ELSE pc' = loop /\ file' = file + 1

\* embed, then saveChunk: the row and its vector in one transaction
IndexChunk ==
    /\ pc = "chunks" /\ Done("files")
    /\ \/ chunks' = chunks (+) SetToBag({Head(todo)}) /\ UNCHANGED <<failed, budget>>
       \/ Fail /\ UNCHANGED chunks
    /\ UNCHANGED <<disk, metadata, vector, config, scanned, strategy, deps, read, whole>>

IndexBuilt ==
    /\ pc = "files" /\ file > LastFile
    /\ whole' = [whole EXCEPT ![strategy] = ~failed]
    /\ NextIndex
    /\ UNCHANGED <<disk, db, config, scanned, todo, read, failed, budget>>


(* extractMetadataForAll.  Pass A: the LLM describes each declaration. *)
Description(c, f, text) == [decl |-> c, file |-> f, of |-> text, usedBy |-> {}]

ReadDeclarations ==
    /\ pc = "passA" /\ Readable
    /\ todo' = SetToSeq({Description(c, file, source[file]) : c \in Declared(file)})
    /\ pc' = "describe"
    /\ UNCHANGED <<disk, db, config, scanned, strategy, file, deps, history>>

SkipInPassA ==
    /\ pc = "passA" /\ PassOver
    /\ UNCHANGED <<disk, db, pc, config, scanned, strategy, todo, deps, read, whole>>

\* A class that has a description keeps it unless the start is forced; an
\* answer of the LLM that is not one is counted and left
Describe ==
    /\ pc = "describe" /\ Done("passA")
    /\ LET c == Head(todo).decl IN
       \/ /\ metadata[c] # None /\ ~config.force
          /\ UNCHANGED <<metadata, failed, budget>>
       \/ /\ metadata[c] = None \/ config.force
          /\ \/ metadata' = [metadata EXCEPT ![c] = Head(todo)] /\ UNCHANGED <<failed, budget>>
             \/ Fail /\ UNCHANGED metadata
    /\ UNCHANGED <<disk, chunks, vector, config, scanned, strategy, deps, read, whole>>

AllDescribed ==
    /\ pc = "passA" /\ file > LastFile
    /\ pc' = "passB" /\ file' = 1
    /\ UNCHANGED <<disk, db, config, scanned, strategy, todo, deps, history>>

(* Pass B: each declaration of a file depends on the known classes it refers to;
   a class declared in two files depends on what the later one refers to. *)
\* Mutant: the later file's classes keep what an earlier file of theirs refers to.
EarlierToo(f) ==
    [c \in Declared(f) \cup DOMAIN deps |->
        IF c \in DOMAIN deps THEN deps[c] ELSE (source[f].refs \cap Known) \ {c}]

WithDependencies(f) ==
    [c \in Declared(f) \cup DOMAIN deps |->
        IF c \in Declared(f) THEN (source[f].refs \cap Known) \ {c} ELSE deps[c]]

ReadDependencies ==
    /\ pc = "passB" /\ Readable
    /\ deps' = WithDependencies(file)
    /\ file' = file + 1
    /\ UNCHANGED <<disk, db, pc, config, scanned, strategy, todo, history>>

SkipInPassB ==
    /\ pc = "passB" /\ PassOver
    /\ UNCHANGED <<disk, db, pc, config, scanned, strategy, todo, deps, read, whole>>

GraphBuilt ==
    /\ pc = "passB" /\ file > LastFile
    /\ pc' = "passC" /\ todo' = SetToSeq(Known)
    /\ UNCHANGED <<disk, db, config, scanned, strategy, file, deps, history>>

(* Pass C: usedBy is inverted from the graph and the description embedded. *)
\* Mutants: a class is skipped although its users changed, or its vector is missing.
HasVector(c) == ~config.force /\ vector[c] # None
SameUsers(c) == ~config.force /\ metadata[c].usedBy = UsedBy(deps, c)

NothingNew(c) ==
    ~config.force /\ vector[c] # None /\ metadata[c].usedBy = UsedBy(deps, c)

Enrich ==
    /\ pc = "passC" /\ todo # <<>>
    /\ LET c == Head(todo) IN
       \/ NothingNew(c) /\ todo' = Tail(todo) /\ UNCHANGED <<metadata, pc>>
       \/ /\ ~NothingNew(c)
          /\ metadata' = [metadata EXCEPT ![c].usedBy = UsedBy(deps, c)]
          /\ pc' = "embed" /\ UNCHANGED todo
    /\ UNCHANGED <<disk, chunks, vector, config, scanned, strategy, file, deps, history>>

\* Mutant: a class whose embedding failed stays first in the list.
EmbedAgain ==
    /\ pc = "embed"
    /\ \/ /\ vector' = [vector EXCEPT ![Head(todo)] = metadata[Head(todo)]]
          /\ todo' = Tail(todo) /\ UNCHANGED failed
       \/ failed' = TRUE /\ UNCHANGED <<vector, todo>>
    /\ pc' = "passC"
    /\ UNCHANGED <<disk, chunks, metadata, config, scanned, strategy, file, deps,
                   read, whole, budget>>

\* saveMetadataVector is a transaction of its own: the row just saved is what
\* it embeds, and it may fail where the row stays
Embed ==
    /\ pc = "embed"
    /\ \/ vector' = [vector EXCEPT ![Head(todo)] = metadata[Head(todo)]] /\ UNCHANGED <<failed, budget>>
       \/ Fail /\ UNCHANGED vector
    /\ pc' = "passC" /\ todo' = Tail(todo)
    /\ UNCHANGED <<disk, chunks, metadata, config, scanned, strategy, file, deps,
                   read, whole>>

Enriched ==
    /\ pc = "passC" /\ todo = <<>>
    /\ pc' = "serving"
    /\ UNCHANGED <<disk, db, config, scanned, strategy, file, todo, deps, history>>

-----------------------------------------------------------------------------
\* Mutant: the names of files are forgotten.
BackedByRow == {r.decl : r \in RowsOf("structural")}

(* DELETE /debug/metadata/orphans, of a server that serves: the classes no
   structural row declares and no structural row's file is named after lose
   their description and its vector, in one transaction. *)
Backed ==
    LET rows == RowsOf("structural")
    IN  {r.decl : r \in rows} \cup {FileClass[r.file] : r \in rows}

deleteClassMetadata(names) ==
    /\ metadata' = [c \in Classes |-> IF c \in names THEN None ELSE metadata[c]]
    /\ vector' = [c \in Classes |-> IF c \in names THEN None ELSE vector[c]]

DeleteOrphans ==
    /\ pc = "serving"
    /\ deleteClassMetadata(Known \ Backed)
    /\ UNCHANGED <<disk, chunks, cursor, history>>

\* The process stops, wherever it is: the database keeps what was committed
Stop ==
    /\ pc # "down"
    /\ pc' = "down" /\ config' = Unset /\ failed' = FALSE
    /\ scanned' = {} /\ strategy' = "fixed" /\ file' = 1 /\ todo' = <<>> /\ deps' = NoGraph
    /\ UNCHANGED <<disk, db, read, whole, budget>>

Edit(f, text) ==
    /\ text # source[f] /\ Spend("edits")
    /\ source' = [source EXCEPT ![f] = text]
    /\ fresh' = FALSE
    /\ UNCHANGED <<db, cursor, read, whole, failed>>

-----------------------------------------------------------------------------
BuildIndex == SkipIndex \/ Rebuild \/ SplitFile \/ SkipFile \/ IndexChunk
              \/ IndexBuilt
DescribeClasses == ReadDeclarations \/ SkipInPassA \/ Describe \/ AllDescribed
BuildGraph == ReadDependencies \/ SkipInPassB \/ GraphBuilt
EnrichClasses == Enrich \/ Embed \/ Enriched

Indexing == BuildIndex \/ DescribeClasses \/ BuildGraph \/ EnrichClasses

Next ==
    \/ \E force, extract \in BOOLEAN : Start(force, extract)
    \/ Indexing
    \/ DeleteOrphans
    \/ Stop
    \/ \E f \in Files, text \in Contents \cup {None} : Edit(f, text)

Spec == Init /\ [][Next]_vars

\* runBlocking { indexAll } runs on: every call it waits for answers or fails
FairSpec == Spec /\ WF_vars(Indexing)

-----------------------------------------------------------------------------
(* Properties. *)

ClassesOf(f, text) == IF text.decl = <<>> THEN {FileClass[f]} ELSE Range(text.decl)

\* The chunks of a strategy for a reading of the files
ChunksOf(s, files) ==
    UNION {Range(Split(s, f, files[f])) : f \in {g \in Files : files[g] # None}}

\* An index is one build of the files: whatever starts, forced rebuilds, failed
\* calls and stops came before, no chunk is in it twice, none is left of an
\* earlier build, and a build that lost nothing holds them all (indexStrategy).
IndexIsItsBuild ==
    \A s \in Strategies :
        /\ \A c \in RowsOf(s) : chunks[c] = 1
        /\ RowsOf(s) \subseteq ChunksOf(s, read[s])
        /\ whole[s] => RowsOf(s) = ChunksOf(s, read[s])

\* What stage 1 of a search can find are the classes with a vector.  Each has a
\* description to show, always (deleteClassMetadata takes both); and a run in which
\* nothing failed leaves out no class that is described, whatever an earlier run
\* that failed or died left without a vector.
Found == {c \in Classes : vector[c] # None}

StageOneFinds ==
    /\ Found \subseteq Known
    /\ pc = "serving" /\ config.extract /\ ~failed => Found = Known

\* A server that serves after the passes shows the usedBy of the graph it read,
\* for the classes it skipped as unchanged as much as for the others.
UsedByIsGraph ==
    pc = "serving" /\ config.extract =>
        \A c \in Known : metadata[c].usedBy = UsedBy(deps, c)

\* A forced run with the passes in which nothing failed, over files nobody has
\* edited since, leaves everything as the files are: both indexes, and for every
\* class declared a description with its users in these files, embedded as it is.
ForcedRunIsCurrent ==
    pc = "serving" /\ config.force /\ config.extract /\ ~failed /\ fresh =>
        LET there == {f \in Files : source[f] # None}
            declared == UNION {ClassesOf(f, source[f]) : f \in there}
            \* of the files that declare a class the last one counts
            last(c) == CHOOSE f \in there :
                           /\ c \in ClassesOf(f, source[f])
                           /\ \A g \in there : c \in ClassesOf(g, source[g]) => g <= f
            users(c) == {d \in declared \ {c} : c \in source[last(d)].refs}
        IN  /\ \A s \in Strategies : RowsOf(s) = ChunksOf(s, source)
            /\ \A c \in declared :
                   /\ metadata[c] # None /\ vector[c] = metadata[c]
                   /\ metadata[c].usedBy = users(c)
                   /\ metadata[c].of = source[last(c)]

\* "Safe: backed classes are not touched": deleting the orphans takes no class
\* that a file of the structural index declares or is named for, as long as the
\* build of that index lost no chunk.
BackedKept ==
    [][\A c \in Known :
           metadata'[c] = None /\ whole["structural"] =>
               \A f \in Files : read["structural"][f] # None =>
                   c \notin ClassesOf(f, read["structural"][f])]_vars

\* Whatever fails, a start comes to serve, or the process is stopped.
IndexingEnds == pc # "down" ~> pc \in {"serving", "down"}
=============================================================================
