--------------------------- MODULE KotlinParseProofs ---------------------------
(***************************************************************************)
(* The scanner's literals and comments for every text, every set of rows   *)
(* and every size of the buffer.                                           *)
(*                                                                         *)
(* What a scan does to the stack is seen from the scan_ functions without  *)
(* knowing where they stop (StackInv).  Where they stop are recursive      *)
(* functions of the text: that those functions exist, what they return and *)
(* that a comment read with a counter ends where comments in comments do   *)
(* is proved by induction on what is left of the text (RankInduction,      *)
(* TailRecursion, ReadCommentIs).  With that every scan is sound           *)
(* (ScanSound), and so are the versions of the parse (ParseInv).           *)
(*                                                                         *)
(* A literal is read with several scans, of content and of other tokens    *)
(* while the parser recovers.  That it ends where it ends in Kotlin needs  *)
(* what was read of the literals still open to be known at each version    *)
(* (LiteralInv): none of it closes the innermost, and a quote at the       *)
(* version is not escaped.                                                 *)
(*                                                                         *)
(* That line comments change no token needs two scans of two texts to be   *)
(* followed side by side: from the same symbol on they find the same token *)
(* (Twins, Alike), wherever in its text each of them is.                   *)
(***************************************************************************)
EXTENDS KotlinParse, SequenceTheorems, WellFoundedInduction, TLAPS

(* The four things a scan can do to the stack st.                          *)
Keeps(r, st) ==
    r.stack = st /\ r.token \notin {"STRING_START", "STRING_END", "abort"}

Starting(r, st) ==
    /\ r.token = "STRING_START"
    /\ Len(st) < TREE_SITTER_SERIALIZATION_BUFFER_SIZE
    /\ \E d \in Delimiters : r.stack = Append(st, d)

Ending(r, st) ==
    /\ r.token = "STRING_END"
    /\ st # <<>>
    /\ r.stack = SubSeq(st, 1, Len(st) - 1)

Aborting(r, st) ==
    /\ r.token = "abort"
    /\ r.stack = st
    /\ ~(Len(st) < TREE_SITTER_SERIALIZATION_BUFFER_SIZE)

(* A refusal leaves the stack to the next scan.                            *)
LEMMA RefuseKeeps ==
    ASSUME NEW L, NEW st
    PROVE  Keeps(Refuse(L, st), st) /\ Refuse(L, st).token = NoToken
BY DEF Keeps, Refuse, NoToken

LEMMA AcceptKeeps ==
    ASSUME NEW L, NEW st,
           NEW sym \in Tokens \ {"STRING_START", "STRING_END"}
    PROVE  Keeps(Accept(L, sym, st), st) /\ Accept(L, sym, st).token # NoToken
BY DEF Keeps, Accept, NoToken, Tokens

(* The word constructor leaves the stack alone.                            *)
LEMMA ConstructorKeeps ==
    ASSUME NEW t, NEW L, NEW st
    PROVE  Keeps(Constructor(t, L, st), st)
BY AcceptKeeps, RefuseKeeps DEF Constructor, Tokens

(* Automatic semicolons leave the stack alone.                             *)
LEMMA LineCommentKeeps ==
    ASSUME NEW t, NEW L, NEW st
    PROVE  Keeps(AfterLineComment(t, L, st), st)
BY AcceptKeeps, RefuseKeeps DEF AfterLineComment, Tokens

LEMMA BlockCommentKeeps ==
    ASSUME NEW t, NEW L, NEW st
    PROVE  Keeps(AfterBlockComment(t, L, st), st)
BY AcceptKeeps, RefuseKeeps DEF AfterBlockComment, Tokens

LEMMA LineEndKeeps ==
    ASSUME NEW t, NEW L, NEW st, NEW V
    PROVE  Keeps(AfterLineEnd(t, L, st, V), st)
BY AcceptKeeps, RefuseKeeps, ConstructorKeeps, LineCommentKeeps, BlockCommentKeeps
   DEF AfterLineEnd, Tokens

LEMMA SemicolonKeeps ==
    ASSUME NEW t, NEW L, NEW st, NEW V
    PROVE  Keeps(scan_automatic_semicolon(t, L, st, V), st)
BY AcceptKeeps, RefuseKeeps, LineEndKeeps DEF scan_automatic_semicolon, Tokens

LEMMA SafeNavKeeps ==
    ASSUME NEW t, NEW L, NEW st
    PROVE  Keeps(scan_safe_nav(t, L, st), st)
BY AcceptKeeps, RefuseKeeps DEF scan_safe_nav, Tokens

LEMMA ImportListKeeps ==
    ASSUME NEW t, NEW L, NEW st
    PROVE  Keeps(scan_import_list_delimiter(t, L, st), st)
BY AcceptKeeps, RefuseKeeps DEF scan_import_list_delimiter, Tokens

LEMMA ImportDotKeeps ==
    ASSUME NEW t, NEW L, NEW st
    PROVE  Keeps(scan_import_dot(t, L, st), st)
BY AcceptKeeps, RefuseKeeps DEF scan_import_dot, Tokens

LEMMA CommentKeeps ==
    ASSUME NEW t, NEW L, NEW st
    PROVE  Keeps(scan_multiline_comment(t, L, st), st)
BY AcceptKeeps, RefuseKeeps DEF scan_multiline_comment, Tokens

(* The content of a literal keeps the stack or pops it, and pops no empty  *)
(* one.                                                                    *)
LEMMA EndsPops ==
    ASSUME NEW L, NEW st, st # <<>>
    PROVE  Ending(Ends(L, st), st)
BY DEF Ending, Ends, Accept

LEMMA ContentKeepsOrEnds ==
    ASSUME NEW t, NEW L, NEW st
    PROVE  LET r == scan_string_content(t, L, st)
           IN  Keeps(r, st) \/ Ending(r, st)
<1>1. \A M : Keeps(Refuse(M, st), st)
  BY RefuseKeeps
<1>2. \A M : Keeps(Accept(M, "STRING_CONTENT", st), st)
  BY AcceptKeeps DEF Tokens
<1>3. st # <<>> => \A M : Ending(Ends(M, st), st)
  BY EndsPops
<1>4. CASE st = <<>>
  BY <1>1, <1>4 DEF scan_string_content
<1>5. CASE st # <<>>
  BY <1>1, <1>2, <1>3, <1>5, Zenon DEF scan_string_content
<1> QED
  BY <1>4, <1>5

(* The start of a literal pushes its delimiter, or aborts at the limit.    *)
LEMMA StartsPushes ==
    ASSUME NEW L, NEW st, NEW d \in Delimiters
    PROVE  LET r == Starts(L, st, d)
           IN  Starting(r, st) \/ Aborting(r, st)
BY BufferAssumption DEF Starting, Aborting, Starts, Accept, Abort

LEMMA StartKeepsOrPushes ==
    ASSUME NEW t, NEW L, NEW st
    PROVE  LET r == scan_string_start(t, L, st)
           IN  Keeps(r, st) \/ Starting(r, st) \/ Aborting(r, st)
BY StartsPushes, RefuseKeeps DEF scan_string_start, Delimiters

(* A scan of the dispatcher runs only after refusals, which keep the       *)
(* stack: so the whole does what the last scan does.                       *)
Good(r, st) ==
    Keeps(r, st) \/ Starting(r, st) \/ Ending(r, st) \/ Aborting(r, st)

LEMMA RefusedKeeps ==
    ASSUME NEW r, NEW st, Good(r, st), r.token = NoToken
    PROVE  r.stack = st
BY DEF Good, Keeps, Starting, Ending, Aborting, NoToken

LEMMA AfterKeywordStack ==
    ASSUME NEW t, NEW r, NEW st, NEW V, Keeps(r, st)
    PROVE  Good(AfterKeyword(t, r, V), st)
<1> DEFINE content == ContentScan(t, r, V)
           start   == StartScan(t, content, V)
           comment == CommentScan(t, start, V)
<1>1. Good(content, st)
  BY ContentKeepsOrEnds DEF ContentScan, Then, Keeps, Good
<1> HIDE DEF content
<1>2. Good(start, st)
  BY <1>1, RefusedKeeps, RefuseKeeps, StartKeepsOrPushes DEF StartScan, Then, Good
<1> HIDE DEF start
<1>3. Good(comment, st)
  BY <1>2, RefusedKeeps, CommentKeeps DEF CommentScan, Then, Good
<1> HIDE DEF comment
<1>4. Good(SafeNavScan(t, comment, V), st)
  BY <1>3, RefusedKeeps, SafeNavKeeps DEF SafeNavScan, Then, Good
<1>5. Good(scan_import_list_delimiter(t, r.lexer, r.stack), st)
  BY ImportListKeeps DEF Keeps, Good
<1> QED
  BY <1>4, <1>5 DEF AfterKeyword, content, start, comment

LEMMA ScanStack ==
    ASSUME NEW t, NEW p, NEW st, NEW V
    PROVE  Good(scan(t, p, st, V), st)
<1> DEFINE semicolon == SemicolonScan(t, p, st, V)
           dot       == DotScan(t, semicolon, V)
           keyword   == KeywordScan(t, dot, V)
<1>1. Keeps(semicolon, st)
  BY SemicolonKeeps, RefuseKeeps DEF SemicolonScan, Then
<1> HIDE DEF semicolon
<1>2. Keeps(dot, st)
  BY <1>1, ImportDotKeeps DEF DotScan, Then, Keeps
<1> HIDE DEF dot
<1>3. Keeps(keyword, st)
  BY <1>2, ConstructorKeeps, RefuseKeeps DEF KeywordScan, Then, Keeps
<1> HIDE DEF keyword
<1>4. Good(AfterKeyword(t, keyword, V), st)
  BY <1>3, AfterKeywordStack
<1>5. Good(scan_safe_nav(t, semicolon.lexer, semicolon.stack), st)
  BY <1>1, SafeNavKeeps DEF Keeps, Good
<1>6. Good(AfterSemicolon(t, semicolon, V), st)
  BY <1>4, <1>5 DEF AfterSemicolon, dot, keyword
<1> QED
  BY <1>6 DEF scan, semicolon

-----------------------------------------------------------------------------
(* The inductive invariant.  The positions are left out of it.             *)
StackInv ==
    /\ alive \subseteq Versions
    /\ head = [v \in Versions |-> head[v]]
    /\ payload \in [contents : Seq(Delimiters), capacity : Nat]
    /\ Len(payload.contents) <= payload.capacity
    /\ \A v \in Versions :
          /\ DOMAIN head[v] = DOMAIN Start
          /\ head[v].state \in Seq(Delimiters)
          /\ head[v].open \in Seq(Delimiters)
          /\ Len(head[v].state) = Len(head[v].open)
          /\ Len(head[v].state) <= TREE_SITTER_SERIALIZATION_BUFFER_SIZE
    /\ AbortOnlyAtLimit

LEMMA Initially == Init => StackInv
<1> SUFFICES ASSUME Init PROVE StackInv
  OBVIOUS
<1>1. Start.state = <<>> /\ Start.open = <<>> /\ <<>> \in Seq(Delimiters) /\ Len(<<>>) = 0
  BY DEF Start
<1>2. \A v \in Versions : head[v] = Start
  BY DEF Init
<1>3. head = [v \in Versions |-> head[v]] /\ alive \subseteq Versions
  BY DEF Init
<1>4. /\ payload \in [contents : Seq(Delimiters), capacity : Nat]
      /\ Len(payload.contents) <= payload.capacity
  BY <1>1 DEF Init
<1>5. AbortOnlyAtLimit
  BY DEF Init, AbortOnlyAtLimit
<1>6. 0 <= TREE_SITTER_SERIALIZATION_BUFFER_SIZE
  BY BufferAssumption
<1> QED
  BY <1>1, <1>2, <1>3, <1>4, <1>5, <1>6 DEF StackInv

(* Deserialised, the stack is the version's and fits into the array.       *)
LEMMA LoadedFits ==
    ASSUME StackInv, NEW v \in Versions
    PROVE  /\ Loaded(v) \in [contents : Seq(Delimiters), capacity : Nat]
           /\ Loaded(v).contents = head[v].state
           /\ Len(Loaded(v).contents) <= Loaded(v).capacity
<1> DEFINE s == head[v].state
<1>1. s \in Seq(Delimiters) /\ Len(s) \in Nat
  BY DEF StackInv
<1>2. CASE s = <<>>
  BY <1>2, <1>1 DEF Loaded, deserialize, StackInv
<1>3. CASE s # <<>>
  <2>1. payload \in [contents : Seq(Delimiters), capacity : Nat]
    BY DEF StackInv
  <2> DEFINE a == array_reserve(payload, Len(s))
  <2>2. a \in [contents : Seq(Delimiters), capacity : Nat] /\ Len(s) <= a.capacity
    BY <2>1, <1>1 DEF array_reserve
  <2>3. Loaded(v) = [a EXCEPT !.contents = s]
    BY <1>3 DEF Loaded, deserialize
  <2> QED
    BY <2>2, <2>3, <1>1
<1> QED
  BY <1>2, <1>3

(* A push grows the array first if it is full.                             *)
LEMMA WrittenFits ==
    ASSUME NEW a \in [contents : Seq(Delimiters), capacity : Nat],
           Len(a.contents) <= a.capacity,
           NEW st \in Seq(Delimiters), Len(st) <= Len(a.contents) + 1
    PROVE  /\ Written(a, st) \in [contents : Seq(Delimiters), capacity : Nat]
           /\ Written(a, st).contents = st
           /\ Len(st) <= Written(a, st).capacity
<1>1. Len(st) \in Nat /\ Len(a.contents) \in Nat /\ a.capacity \in Nat
  OBVIOUS
<1>2. /\ array_grow(a, 1) \in [contents : Seq(Delimiters), capacity : Nat]
      /\ Len(a.contents) + 1 <= array_grow(a, 1).capacity
  BY <1>1 DEF array_grow, array_reserve, Larger
<1>3. CASE Len(st) > Len(a.contents)
  BY <1>1, <1>2, <1>3 DEF Written
<1>4. CASE ~(Len(st) > Len(a.contents))
  BY <1>1, <1>4 DEF Written
<1> QED
  BY <1>3, <1>4

(* What a token changes in a version.                                      *)
LEMMA ReachedFields ==
    ASSUME NEW h, NEW r, NEW w
    PROVE  /\ DOMAIN Reached(h, r, w) = DOMAIN Start
           /\ Reached(h, r, w).state = w.contents
           /\ r.token = "STRING_START" =>
                \E d \in Delimiters : Reached(h, r, w).open = Append(h.open, d)
           /\ r.token = "STRING_END" /\ h.open # <<>> =>
                Reached(h, r, w).open = SubSeq(h.open, 1, Len(h.open) - 1)
           /\ r.token \notin {"STRING_START", "STRING_END"} =>
                Reached(h, r, w).open = h.open
<1>1. DelimiterOf(text, Extent(r)) \in Delimiters
  BY DEF DelimiterOf, Delimiters
<1> QED
  BY <1>1 DEF Reached, serialize, Start

(* One step of each action.                                                *)
LEMMA LexExternalKeeps ==
    ASSUME StackInv, NEW v \in Versions, NEW V \in Rows, LexExternal(v, V)
    PROVE  StackInv'
<1> DEFINE r == Found(v, V)
           st == Loaded(v).contents
           h  == head[v]
           written == Written(Loaded(v), r.stack)
<1>1. /\ Loaded(v) \in [contents : Seq(Delimiters), capacity : Nat]
      /\ st = h.state /\ Len(st) <= Loaded(v).capacity
  BY LoadedFits
<1>2. Good(r, st) /\ r.token \notin {NoToken, "abort"}
  BY ScanStack DEF LexExternal, Found
<1>3. /\ st \in Seq(Delimiters) /\ h.open \in Seq(Delimiters)
      /\ Len(st) = Len(h.open) /\ Len(st) \in Nat
      /\ Len(st) <= TREE_SITTER_SERIALIZATION_BUFFER_SIZE
  BY <1>1 DEF StackInv
<1> HIDE DEF r, st
<1>5. /\ r.stack \in Seq(Delimiters)
      /\ Len(r.stack) <= Len(st) + 1
      /\ Len(r.stack) <= TREE_SITTER_SERIALIZATION_BUFFER_SIZE
      /\ \A w : w.contents = r.stack =>
            /\ Reached(h, r, w).state = r.stack
            /\ Reached(h, r, w).open \in Seq(Delimiters)
            /\ Len(Reached(h, r, w).open) = Len(r.stack)
            /\ DOMAIN Reached(h, r, w) = DOMAIN Start
  <2>1. CASE Starting(r, st)
    <3>1. PICK d \in Delimiters : r.stack = Append(st, d)
      BY <2>1 DEF Starting
    <3>2. /\ r.stack \in Seq(Delimiters) /\ Len(r.stack) = Len(st) + 1
      BY <3>1, <1>3
    <3>3. r.token = "STRING_START" /\ Len(st) < TREE_SITTER_SERIALIZATION_BUFFER_SIZE
      BY <2>1 DEF Starting
    <3>4. \A d2 \in Delimiters : /\ Append(h.open, d2) \in Seq(Delimiters)
                               /\ Len(Append(h.open, d2)) = Len(h.open) + 1
      BY <1>3
    <3>5. /\ Len(r.stack) <= Len(st) + 1
          /\ Len(r.stack) <= TREE_SITTER_SERIALIZATION_BUFFER_SIZE
      BY <3>2, <3>3, <1>3, BufferAssumption
    <3>6. ASSUME NEW w, w.contents = r.stack
          PROVE  /\ Reached(h, r, w).state = r.stack
                 /\ Reached(h, r, w).open \in Seq(Delimiters)
                 /\ Len(Reached(h, r, w).open) = Len(r.stack)
                 /\ DOMAIN Reached(h, r, w) = DOMAIN Start
      <4>1. DOMAIN Reached(h, r, w) = DOMAIN Start /\ Reached(h, r, w).state = w.contents
        BY ReachedFields
      <4>2. \E e \in Delimiters : Reached(h, r, w).open = Append(h.open, e)
        BY <3>3, ReachedFields
      <4> QED
        BY <4>1, <4>2, <3>6, <3>2, <3>4, <1>3
    <3> QED
      BY <3>2, <3>5, <3>6
  <2>2. CASE Ending(r, st)
    <3>1. r.token = "STRING_END" /\ st # <<>> /\ r.stack = SubSeq(st, 1, Len(st) - 1)
      BY <2>2 DEF Ending
    <3>2. Len(st) > 0 /\ h.open # <<>>
      BY <3>1, <1>3
    <3>3. r.stack \in Seq(Delimiters) /\ Len(r.stack) = Len(st) - 1
      BY <3>1, <3>2, <1>3
    <3>4. /\ SubSeq(h.open, 1, Len(h.open) - 1) \in Seq(Delimiters)
          /\ Len(SubSeq(h.open, 1, Len(h.open) - 1)) = Len(h.open) - 1
      BY <3>2, <1>3
    <3>5. /\ Len(r.stack) <= Len(st) + 1
          /\ Len(r.stack) <= TREE_SITTER_SERIALIZATION_BUFFER_SIZE
      BY <3>3, <1>3, BufferAssumption
    <3>6. ASSUME NEW w, w.contents = r.stack
          PROVE  /\ Reached(h, r, w).state = r.stack
                 /\ Reached(h, r, w).open \in Seq(Delimiters)
                 /\ Len(Reached(h, r, w).open) = Len(r.stack)
                 /\ DOMAIN Reached(h, r, w) = DOMAIN Start
      <4>1. DOMAIN Reached(h, r, w) = DOMAIN Start /\ Reached(h, r, w).state = w.contents
        BY ReachedFields
      <4>2. Reached(h, r, w).open = SubSeq(h.open, 1, Len(h.open) - 1)
        BY <3>1, <3>2, ReachedFields
      <4> QED
        BY <4>1, <4>2, <3>6, <3>3, <3>4, <1>3
    <3> QED
      BY <3>3, <3>5, <3>6
  <2>3. CASE Keeps(r, st)
    BY <2>3, <1>3, BufferAssumption, ReachedFields DEF Keeps
  <2> QED
    BY <1>2, <2>1, <2>2, <2>3 DEF Good, Aborting
<1>6. /\ written \in [contents : Seq(Delimiters), capacity : Nat]
      /\ written.contents = r.stack
      /\ Len(r.stack) <= written.capacity
  BY <1>1, <1>5, WrittenFits DEF st
<1> HIDE DEF written
<1>7. /\ payload' = written
      /\ head' = [head EXCEPT ![v] = Reached(h, r, payload')]
      /\ alive' = alive /\ aborted' = aborted /\ ~aborted
  BY DEF LexExternal, r, written
<1>8. \A w \in Versions :
        head'[w] = IF w = v THEN Reached(h, r, written) ELSE head[w]
  BY <1>7 DEF StackInv
<1> QED
  BY <1>5, <1>6, <1>7, <1>8 DEF StackInv, AbortOnlyAtLimit

LEMMA LexAbortsKeeps ==
    ASSUME StackInv, NEW v \in Versions, NEW V \in Rows, LexAborts(v, V)
    PROVE  StackInv'
<1> DEFINE r == Found(v, V)
           st == Loaded(v).contents
<1>1. /\ Loaded(v) \in [contents : Seq(Delimiters), capacity : Nat]
      /\ st = head[v].state /\ Len(st) <= Loaded(v).capacity
  BY LoadedFits
<1>2. Good(r, st) /\ r.token = "abort"
  BY ScanStack DEF LexAborts, Found
<1>3. ~(Len(st) < TREE_SITTER_SERIALIZATION_BUFFER_SIZE)
  BY <1>2 DEF Good, Keeps, Starting, Ending, Aborting
<1>4. /\ Len(head[v].open) = Len(st) /\ Len(st) \in Nat
      /\ Len(st) <= TREE_SITTER_SERIALIZATION_BUFFER_SIZE
  BY <1>1 DEF StackInv
<1>5. /\ v \in alive /\ payload' = Loaded(v) /\ aborted' = TRUE
      /\ alive' = alive /\ head' = head
  BY DEF LexAborts
<1>6. Len(head'[v].open) = TREE_SITTER_SERIALIZATION_BUFFER_SIZE
  BY <1>3, <1>4, <1>5, BufferAssumption
<1>7. AbortOnlyAtLimit'
  BY <1>5, <1>6 DEF AbortOnlyAtLimit
<1> QED
  BY <1>1, <1>5, <1>7 DEF StackInv

LEMMA LexInternalKeeps ==
    ASSUME StackInv, NEW v \in Versions, NEW V \in Rows, LexInternal(v, V)
    PROVE  StackInv'
<1> DEFINE h == head[v]
<1>1. /\ Loaded(v) \in [contents : Seq(Delimiters), capacity : Nat]
      /\ Len(Loaded(v).contents) <= Loaded(v).capacity
  BY LoadedFits
<1>2. DOMAIN h = DOMAIN Start
  BY DEF StackInv
<1>3. /\ DOMAIN Internal(h) = DOMAIN h
      /\ Internal(h).state = h.state /\ Internal(h).open = h.open
  BY <1>2 DEF Internal, Start
<1>4. /\ payload' = Loaded(v)
      /\ head' = [head EXCEPT ![v] = Internal(h)]
      /\ alive' = alive /\ aborted' = aborted /\ ~aborted
  BY DEF LexInternal
<1>5. \A w \in Versions : head'[w] = IF w = v THEN Internal(h) ELSE head[w]
  BY <1>4 DEF StackInv
<1> QED
  BY <1>1, <1>2, <1>3, <1>4, <1>5 DEF StackInv, AbortOnlyAtLimit

LEMMA ForkKeeps ==
    ASSUME StackInv, NEW v \in Versions, NEW w \in Versions, Fork(v, w)
    PROVE  StackInv'
<1>1. \A u \in Versions : head'[u] = IF u = w THEN head[v] ELSE head[u]
  BY DEF Fork, StackInv
<1> QED
  BY <1>1 DEF Fork, StackInv, AbortOnlyAtLimit

LEMMA GiveUpKeeps ==
    ASSUME StackInv, NEW v \in Versions, GiveUp(v)
    PROVE  StackInv'
<1>1. \A u \in Versions : head'[u] = IF u = v THEN Start ELSE head[u]
  BY DEF GiveUp, StackInv
<1>2. /\ Start.state = <<>> /\ Start.open = <<>>
      /\ <<>> \in Seq(Delimiters) /\ Len(<<>>) = 0
      /\ 0 <= TREE_SITTER_SERIALIZATION_BUFFER_SIZE
  BY BufferAssumption DEF Start
<1> QED
  BY <1>1, <1>2 DEF GiveUp, StackInv, AbortOnlyAtLimit

(* The invariant holds in every state.                                     *)
THEOREM StackInvariant == Spec => []StackInv
<1>1. Init => StackInv
  BY Initially
<1>2. StackInv /\ [Next]_vars => StackInv'
  <2> SUFFICES ASSUME StackInv, [Next]_vars PROVE StackInv'
    OBVIOUS
  <2>1. ASSUME NEW v \in Versions, NEW V \in Rows, LexExternal(v, V) PROVE StackInv'
    BY <2>1, LexExternalKeeps
  <2>2. ASSUME NEW v \in Versions, NEW V \in Rows, LexAborts(v, V) PROVE StackInv'
    BY <2>2, LexAbortsKeeps
  <2>3. ASSUME NEW v \in Versions, NEW V \in Rows, LexInternal(v, V) PROVE StackInv'
    BY <2>3, LexInternalKeeps
  <2>4. ASSUME NEW v \in Versions, NEW w \in Versions, Fork(v, w) PROVE StackInv'
    BY <2>4, ForkKeeps
  <2>5. ASSUME NEW v \in Versions, GiveUp(v) PROVE StackInv'
    BY <2>5, GiveUpKeeps
  <2>6. CASE UNCHANGED vars
    BY <2>6 DEF vars, StackInv, AbortOnlyAtLimit
  <2> QED
    BY <2>1, <2>2, <2>3, <2>4, <2>5, <2>6 DEF Next
<1> QED
  BY <1>1, <1>2, PTL DEF Spec

(* Every text, however deep its literals: the array of the scanner is      *)
(* large enough for what is written to it, and the buffer of the runtime   *)
(* for what is serialised.                                                 *)
THEOREM NothingOverflows == Spec => []InBounds
<1>1. StackInv => InBounds
  BY DEF StackInv, InBounds
<1> QED
  BY <1>1, StackInvariant, PTL

(* No text makes the scanner pop an empty stack: it aborts only where a    *)
(* literal is started inside as many as the buffer has bytes.              *)
THEOREM AbortsOnlyWhenFull == Spec => []AbortOnlyAtLimit
<1>1. StackInv => AbortOnlyAtLimit
  BY DEF StackInv
<1> QED
  BY <1>1, StackInvariant, PTL

(* Both together: for every text the stack stays between its ends.         *)
THEOREM StackAlwaysFits == Spec => []StackFits
<1>1. InBounds /\ AbortOnlyAtLimit => StackFits
  BY DEF StackFits
<1> QED
  BY <1>1, NothingOverflows, AbortsOnlyWhenFull, PTL

(* A version's state has one delimiter for each literal it has open.       *)
THEOREM DepthIsKept == Spec => []StackAsDeep
<1>1. StackInv => StackAsDeep
  BY DEF StackInv, StackAsDeep
<1> QED
  BY <1>1, StackInvariant, PTL

-----------------------------------------------------------------------------
(* A set of numbers that is not empty has a least one.                     *)
LEMMA LeastElement ==
    ASSUME NEW S \in SUBSET Nat, S # {}
    PROVE  \E x \in S : \A y \in S : x <= y
<1> DEFINE R == OpToRel(<, Nat)
<1>1. IsWellFoundedOn(R, Nat)
  BY NatLessThanWellFounded
<1>2. \A x, y \in Nat : (<<y, x>> \in R) <=> y < x
  BY DEF OpToRel
<1> HIDE DEF R
<1>3. PICK x \in S : \A y \in S : ~ (<<y, x>> \in R)
  BY <1>1, WFMin, Zenon
<1>4. \A y \in S : x \in Nat /\ y \in Nat /\ ~(y < x)
  BY <1>2, <1>3
<1> QED
  BY <1>4

(* Induction on a rank, with a set in the place of a predicate.            *)
LEMMA RankInduction ==
    ASSUME NEW D, NEW rank, \A d \in D : rank[d] \in Nat, NEW T,
           \A d \in D : (\A e \in D : rank[e] < rank[d] => e \in T) => d \in T
    PROVE  \A d \in D : d \in T
<1> DEFINE S == {rank[d] : d \in D \ T}
<1> SUFFICES ASSUME NEW d0 \in D, d0 \notin T PROVE FALSE
  OBVIOUS
<1>1. S \in SUBSET Nat /\ S # {}
  OBVIOUS
<1>2. PICK x \in S : \A y \in S : x <= y
  BY <1>1, LeastElement
<1>3. PICK d \in D \ T : x = rank[d]
  BY <1>2
<1>4. \A e \in D : rank[e] < rank[d] => e \in T
  BY <1>2, <1>3
<1> QED
  BY <1>3, <1>4

(* A function that goes on with the next argument, of lower rank, until it *)
(* stops, exists.                                                          *)
GoesOnTo(f, D, stop, val, next) ==
    f = [d \in D |-> IF d \in stop THEN val[d] ELSE f[next[d]]]

Falls(D, stop, next, rank, K) ==
    /\ K \in Nat
    /\ \A d \in D : rank[d] \in 0 .. K
    /\ \A d \in D : d \notin stop => next[d] \in D /\ rank[next[d]] < rank[d]

LEMMA TailRecursion ==
    ASSUME NEW D, NEW stop, NEW val, NEW next, NEW rank, NEW K,
           Falls(D, stop, next, rank, K)
    PROVE  \E f : GoesOnTo(f, D, stop, val, next)
<1>0. /\ K \in Nat
      /\ \A d \in D : rank[d] \in 0 .. K
      /\ \A d \in D : d \notin stop => next[d] \in D /\ rank[next[d]] < rank[d]
  BY DEF Falls
<1> DEFINE Upto(n, g) ==
             g = [d \in D |-> IF d \in stop \/ rank[d] >= n
                                THEN val[d] ELSE g[next[d]]]
           T == {n \in Nat : \E g : Upto(n, g)}
           N == [n \in Nat |-> n]
<1>1. 0 \in T
  <2>1. Upto(0, [d \in D |-> val[d]])
    BY <1>0
  <2> QED
    BY <2>1
<1>2. ASSUME NEW n \in Nat, n \in T PROVE n + 1 \in T
  <2>1. PICK g : Upto(n, g)
    BY <1>2
  <2> DEFINE h == [d \in D |-> IF d \in stop \/ rank[d] >= n + 1
                                 THEN val[d] ELSE g[next[d]]]
  <2>2. \A d \in D : g[d] = IF d \in stop \/ rank[d] >= n
                                THEN val[d] ELSE g[next[d]]
    BY <2>1, Zenon
  <2>3. \A d \in D : h[d] = IF d \in stop \/ rank[d] >= n + 1
                                THEN val[d] ELSE g[next[d]]
    OBVIOUS
  <2>4. \A d \in D : rank[d] \in Nat /\ (rank[d] < n => h[d] = g[d])
    BY <1>0, <2>2, <2>3
  <2>5. \A d \in D : ~(d \in stop \/ rank[d] >= n + 1) => h[next[d]] = g[next[d]]
    BY <1>0, <2>4
  <2>6. \A d \in D : h[d] = IF d \in stop \/ rank[d] >= n + 1
                                THEN val[d] ELSE h[next[d]]
    BY <2>3, <2>5
  <2>7. h = [d \in D |-> h[d]]
    OBVIOUS
  <2> HIDE DEF h
  <2>8. Upto(n + 1, h)
    BY <2>6, <2>7
  <2> HIDE DEF Upto
  <2> QED
    BY <2>8
<1>3. \A n \in Nat : n \in T
  <2>1. \A n \in Nat : N[n] \in Nat
    OBVIOUS
  <2>2. \A n \in Nat : (\A e \in Nat : N[e] < N[n] => e \in T) => n \in T
    <3> TAKE n \in Nat
    <3> HAVE \A e \in Nat : N[e] < N[n] => e \in T
    <3>1. CASE n = 0
      BY <3>1, <1>1
    <3>2. CASE n # 0
      <4>1. n - 1 \in Nat /\ N[n - 1] < N[n]
        BY <3>2
      <4> HIDE DEF T, N
      <4>2. n - 1 \in T
        BY <4>1
      <4>3. (n - 1) + 1 = n
        OBVIOUS
      <4> QED
        BY <1>2, <4>1, <4>2, <4>3
    <3> QED
      BY <3>1, <3>2
  <2> HIDE DEF T, N
  <2> QED
    BY <2>1, <2>2, RankInduction
<1>4. PICK f : Upto(K + 1, f)
  <2>1. K + 1 \in T
    <3> HIDE DEF T
    <3> QED
      BY <1>0, <1>3
  <2> QED
    BY <2>1
<1>5. \A d \in D : ~(rank[d] >= K + 1)
  BY <1>0
<1>6. f = [d \in D |-> IF d \in stop THEN val[d] ELSE f[next[d]]]
  BY <1>4, <1>5
<1> QED
  BY <1>6, Zenon DEF GoesOnTo

-----------------------------------------------------------------------------
(* Positions of a text.                                                    *)
LEMMA TextLength ==
    ASSUME NEW t \in Seq(STRING)
    PROVE  Len(t) \in Nat /\ End(t) \in Nat /\ End(t) = Len(t) + 1
  BY DEF End

LEMMA FirstNotIs ==
    ASSUME NEW t \in Seq(STRING), NEW p \in 1 .. End(t), NEW S
    PROVE  /\ FirstNot(t, p, S) \in p .. End(t)
           /\ Eof(t, FirstNot(t, p, S)) \/ t[FirstNot(t, p, S)] \notin S
           /\ \A r \in p .. FirstNot(t, p, S) - 1 : t[r] \in S
<1> DEFINE C == {q \in p .. End(t) : Eof(t, q) \/ t[q] \notin S}
<1>0. Len(t) \in Nat /\ End(t) = Len(t) + 1
  BY TextLength
<1>1. C \in SUBSET Nat /\ End(t) \in C
  BY <1>0 DEF Eof
<1>2. PICK q \in C : \A y \in C : q <= y
  BY <1>1, LeastElement
<1>3. \A r \in p .. q - 1 : t[r] \in S
  <2> TAKE r \in p .. q - 1
  <2>1. r \notin C /\ r \in p .. End(t)
    BY <1>0, <1>2
  <2> QED
    BY <2>1
<1>4. \E x \in p .. End(t) :
        /\ Eof(t, x) \/ t[x] \notin S
        /\ \A r \in p .. x - 1 : t[r] \in S
  BY <1>2, <1>3
<1> QED
  BY <1>4, Zenon DEF FirstNot

LEMMA FirstInIs ==
    ASSUME NEW t \in Seq(STRING), NEW p \in 1 .. End(t), NEW S
    PROVE  /\ FirstIn(t, p, S) \in p .. End(t)
           /\ Eof(t, FirstIn(t, p, S)) \/ t[FirstIn(t, p, S)] \in S
           /\ \A r \in p .. FirstIn(t, p, S) - 1 : t[r] \notin S
<1> DEFINE C == {q \in p .. End(t) : Eof(t, q) \/ t[q] \in S}
<1>0. Len(t) \in Nat /\ End(t) = Len(t) + 1
  BY TextLength
<1>1. C \in SUBSET Nat /\ End(t) \in C
  BY <1>0 DEF Eof
<1>2. PICK q \in C : \A y \in C : q <= y
  BY <1>1, LeastElement
<1>3. \A r \in p .. q - 1 : t[r] \notin S
  <2> TAKE r \in p .. q - 1
  <2>1. r \notin C /\ r \in p .. End(t)
    BY <1>0, <1>2
  <2> QED
    BY <2>1
<1>4. \E x \in p .. End(t) :
        /\ Eof(t, x) \/ t[x] \in S
        /\ \A r \in p .. x - 1 : t[r] \notin S
  BY <1>2, <1>3
<1> QED
  BY <1>4, Zenon DEF FirstIn

-----------------------------------------------------------------------------
(* The recursive functions of the scanner, unfolded.                       *)
Room(t) == [q \in Nat |-> IF q > Len(t) THEN 0 ELSE End(t) - q]

LEMMA RoomIs ==
    ASSUME NEW t \in Seq(STRING)
    PROVE  /\ \A q \in Nat : Room(t)[q] \in 0 .. End(t)
           /\ \A q, r \in Nat : q <= Len(t) /\ q < r => Room(t)[r] < Room(t)[q]
  BY TextLength DEF Room

ContentStops(t, q) == Look(t, q) \in {"nul", "$", "dq"} \/ DollarEnds(t, q)

IsContentEnd(end, t, triple) ==
    end = [q \in Nat |-> IF ContentStops(t, q) THEN q
                         ELSE end[NextContent(t, q, triple)]]

LEMMA NextContentMoves ==
    ASSUME NEW t \in Seq(STRING), NEW q \in Nat, q <= Len(t), NEW triple
    PROVE  NextContent(t, q, triple) \in q + 1 .. End(t)
<1> DEFINE n == IF Look(t, q) # "bs" THEN 1
                ELSE IF Look(t, q + 1) = "$" THEN 3
                ELSE IF triple /\ Look(t, q + 1) = "dq" THEN 1 ELSE 2
<1>1. n \in {1, 2, 3}
  OBVIOUS
<1>2. NextContent(t, q, triple) = Past(t, q, n)
  BY DEF NextContent
<1> HIDE DEF n
<1> QED
  BY <1>1, <1>2, TextLength DEF Past

LEMMA ContentUnfolds ==
    ASSUME NEW t \in Seq(STRING), NEW triple
    PROVE  \E end : /\ IsContentEnd(end, t, triple)
                    /\ \A p : ContentEnd(t, p, triple) = end[p]
<1> DEFINE stop == {q \in Nat : ContentStops(t, q)}
           val  == [q \in Nat |-> q]
           next == [q \in Nat |-> NextContent(t, q, triple)]
           rank == Room(t)
<1>1. \A q \in Nat \ stop : q <= Len(t)
  BY TextLength DEF ContentStops, Look, Eof
<1>2. \A q \in Nat \ stop : next[q] \in Nat /\ q < next[q]
  BY <1>1, NextContentMoves, TextLength
<1>3. \A q \in Nat \ stop : rank[next[q]] < rank[q]
  BY <1>1, <1>2, RoomIs
<1> DEFINE K == End(t)
<1>4. Falls(Nat, stop, next, rank, K)
  BY <1>2, <1>3, RoomIs, TextLength DEF Falls
<1>5. \E f : GoesOnTo(f, Nat, stop, val, next)
  <2> HIDE DEF stop, val, next, rank, K
  <2> QED
    BY <1>4, TailRecursion
<1>6. \E f : f = [q \in Nat |-> IF q \in stop THEN val[q] ELSE f[next[q]]]
  <2> HIDE DEF stop, val, next
  <2> QED
    BY <1>5, Zenon DEF GoesOnTo
<1>7. \E f : f = [q \in Nat |-> IF ContentStops(t, q) THEN q
                                  ELSE f[NextContent(t, q, triple)]]
  BY <1>6
<1> DEFINE end == CHOOSE g : g = [q \in Nat |-> IF ContentStops(t, q) THEN q
                                   ELSE g[NextContent(t, q, triple)]]
<1>8. end = [q \in Nat |-> IF ContentStops(t, q) THEN q
                           ELSE end[NextContent(t, q, triple)]]
  BY <1>7, Zenon
<1>9. \A p : ContentEnd(t, p, triple) = end[p]
  BY DEF ContentEnd, ContentStops
<1> HIDE DEF end
<1> QED
  BY <1>8, <1>9 DEF IsContentEnd

LEMMA ContentEndIs ==
    ASSUME NEW t \in Seq(STRING), NEW triple, NEW p \in 1 .. End(t)
    PROVE  /\ ContentEnd(t, p, triple) \in p .. End(t)
           /\ ContentStops(t, ContentEnd(t, p, triple))
<1>1. PICK end : /\ IsContentEnd(end, t, triple)
                 /\ \A q : ContentEnd(t, q, triple) = end[q]
  BY ContentUnfolds
<1> DEFINE D == 1 .. End(t)
           rank == Room(t)
           T == {q \in D : end[q] \in q .. End(t) /\ ContentStops(t, end[q])}
<1>2. \A q \in Nat : end[q] = IF ContentStops(t, q) THEN q
                              ELSE end[NextContent(t, q, triple)]
  BY <1>1 DEF IsContentEnd
<1>3. \A d \in D : rank[d] \in Nat
  BY RoomIs, TextLength
<1>4. ASSUME NEW d \in D, \A e \in D : rank[e] < rank[d] => e \in T
      PROVE  d \in T
  <2>1. CASE ContentStops(t, d)
    BY <1>2, <2>1
  <2>2. CASE ~ContentStops(t, d)
    <3>1. d <= Len(t)
      BY <2>2, TextLength DEF ContentStops, Look, Eof
    <3>2. NextContent(t, d, triple) \in d + 1 .. End(t)
      BY <3>1, NextContentMoves
    <3>3. NextContent(t, d, triple) \in T
      BY <1>4, <3>1, <3>2, RoomIs, TextLength
    <3> QED
      BY <1>2, <2>2, <3>2, <3>3
  <2> QED
    BY <2>1, <2>2
<1>5. \A d \in D : d \in T
  <2> HIDE DEF D, rank, T
  <2> QED
    BY <1>3, <1>4, RankInduction
<1> QED
  BY <1>1, <1>5

-----------------------------------------------------------------------------
(* Comments.  Reading one ends behind it, and where CommentEnd says.       *)
Readings == [at : Nat, after : {"*", "other"}, depth : Nat]

ReadStops(t, c, nulStops) ==
    c.depth = 0 \/ Eof(t, c.at) \/ (nulStops /\ t[c.at] = "nul")

IsRead(read, t, nulStops) ==
    read = [c \in Readings |->
              IF ReadStops(t, c, nulStops) THEN c
                                           ELSE read[ReadOn(t, c)]]

LEMMA ReadOnMoves ==
    ASSUME NEW t \in Seq(STRING), NEW c \in Readings, c.depth # 0, c.at <= Len(t)
    PROVE  /\ ReadOn(t, c) \in Readings
           /\ ReadOn(t, c).at \in c.at + 1 .. End(t)
           /\ ReadOn(t, c).depth = 0 => ReadOn(t, c).after = "other"
<1>1. c.at \in Nat /\ c.after \in {"*", "other"} /\ c.depth \in Nat
  BY DEF Readings
<1>2. CASE t[c.at] = "*"
  BY <1>1, <1>2, TextLength DEF ReadOn, Reading, Readings
<1>3. CASE t[c.at] = "/" /\ c.after = "*"
  BY <1>1, <1>3, TextLength DEF ReadOn, Reading, Readings
<1>4. CASE t[c.at] = "/" /\ c.after # "*" /\ Look(t, c.at + 1) = "*"
  <2>1. c.at + 1 <= Len(t)
    BY <1>1, <1>4, TextLength DEF Look, Eof
  <2> QED
    BY <2>1, <1>1, <1>4, TextLength DEF ReadOn, Reading, Readings
<1>5. CASE ~(t[c.at] = "*" \/ (t[c.at] = "/" /\ c.after = "*")
               \/ (t[c.at] = "/" /\ c.after # "*" /\ Look(t, c.at + 1) = "*"))
  BY <1>1, <1>5, TextLength DEF ReadOn, Reading, Readings
<1> QED
  BY <1>2, <1>3, <1>4, <1>5

(* The room behind a reading falls with every turn.                        *)
RoomOf(t) == [c \in Readings |-> Room(t)[c.at]]

LEMMA RoomOfIs ==
    ASSUME NEW t \in Seq(STRING)
    PROVE  /\ \A c \in Readings : RoomOf(t)[c] \in 0 .. End(t)
           /\ \A c, d \in Readings : c.at <= Len(t) /\ c.at < d.at =>
                RoomOf(t)[d] < RoomOf(t)[c]
  BY RoomIs DEF RoomOf, Readings

LEMMA ReadGoesOn ==
    ASSUME NEW t \in Seq(STRING), NEW nulStops, NEW c \in Readings,
           ~ReadStops(t, c, nulStops)
    PROVE  /\ c.depth # 0 /\ c.at <= Len(t)
           /\ ReadOn(t, c) \in Readings
           /\ ReadOn(t, c).at \in c.at + 1 .. End(t)
           /\ RoomOf(t)[ReadOn(t, c)] < RoomOf(t)[c]
<1>1. c.depth # 0 /\ c.at <= Len(t)
  BY TextLength DEF ReadStops, Eof, Readings
<1>2. ReadOn(t, c) \in Readings /\ ReadOn(t, c).at \in c.at + 1 .. End(t)
  BY <1>1, ReadOnMoves
<1>3. c.at \in Nat
  BY DEF Readings
<1> QED
  BY <1>1, <1>2, <1>3, RoomOfIs, TextLength

LEMMA ReadUnfolds ==
    ASSUME NEW t \in Seq(STRING), NEW nulStops
    PROVE  \E read : /\ IsRead(read, t, nulStops)
                     /\ \A p : ReadComment(t, p, nulStops) = read[Reading(p, "other", 1)]
<1> DEFINE stop == {c \in Readings : ReadStops(t, c, nulStops)}
           val  == [c \in Readings |-> c]
           next == [c \in Readings |-> ReadOn(t, c)]
           rank == RoomOf(t)
           K    == End(t)
<1>1. Falls(Readings, stop, next, rank, K)
  <2>1. \A c \in Readings : c \notin stop =>
          next[c] \in Readings /\ rank[next[c]] < rank[c]
    BY ReadGoesOn
  <2> QED
    BY <2>1, RoomOfIs, TextLength DEF Falls
<1>2. \E f : GoesOnTo(f, Readings, stop, val, next)
  <2> HIDE DEF stop, val, next, rank, K
  <2> QED
    BY <1>1, TailRecursion
<1>3. \E f : f = [c \in Readings |-> IF c \in stop THEN val[c] ELSE f[next[c]]]
  <2> HIDE DEF stop, val, next
  <2> QED
    BY <1>2, Zenon DEF GoesOnTo
<1>4. \E f : IsRead(f, t, nulStops)
  <2>1. PICK f : f = [c \in Readings |-> IF c \in stop THEN val[c] ELSE f[next[c]]]
    BY <1>3
  <2>2. f = [c \in Readings |->
              IF ReadStops(t, c, nulStops) THEN c
                                           ELSE f[ReadOn(t, c)]]
    BY <2>1
  <2> QED
    BY <2>2 DEF IsRead
<1> DEFINE read == CHOOSE f : IsRead(f, t, nulStops)
<1>5. IsRead(read, t, nulStops)
  BY <1>4, Zenon
<1>6. \A p : ReadComment(t, p, nulStops) = read[Reading(p, "other", 1)]
  BY DEF ReadComment, IsRead, Readings, ReadStops
<1> HIDE DEF read
<1> QED
  BY <1>5, <1>6

LEMMA ReadValue ==
    ASSUME NEW t, NEW nulStops, NEW read, IsRead(read, t, nulStops), NEW c \in Readings
    PROVE  read[c] = IF ReadStops(t, c, nulStops)
                       THEN c
                       ELSE read[ReadOn(t, c)]
  BY DEF IsRead

LEMMA ReadRange ==
    ASSUME NEW t \in Seq(STRING), NEW nulStops, NEW read, IsRead(read, t, nulStops),
           NEW c \in Readings, c.at <= End(t)
    PROVE  /\ read[c].at \in c.at .. End(t)
           /\ read[c] \in Readings
           /\ read[c].depth # 0 =>
                Eof(t, read[c].at) \/ (nulStops /\ t[read[c].at] = "nul")
<1> DEFINE Right(d) ==
             /\ read[d].at \in d.at .. End(t)
             /\ read[d] \in Readings
             /\ read[d].depth # 0 =>
                Eof(t, read[d].at) \/ (nulStops /\ t[read[d].at] = "nul")
           T == {d \in Readings : d.at <= End(t) => Right(d)}
           rank == RoomOf(t)
<1>1. \A d \in Readings : rank[d] \in Nat
  BY RoomOfIs, TextLength
<1>2. ASSUME NEW d \in Readings, \A e \in Readings : rank[e] < rank[d] => e \in T
      PROVE  d \in T
  <2> SUFFICES ASSUME d.at <= End(t) PROVE Right(d)
    OBVIOUS
  <2>0. d.at \in Nat /\ d.depth \in Nat
    BY DEF Readings
  <2>1. CASE ReadStops(t, d, nulStops)
    <3>1. read[d] = d
      BY <2>1, ReadValue
    <3>2. read[d].at = d.at /\ read[d].depth = d.depth
      BY <3>1
    <3>3. ~(d.depth = 0) => Eof(t, d.at) \/ (nulStops /\ t[d.at] = "nul")
      BY <2>1 DEF ReadStops
    <3> QED
      BY <2>0, <3>1, <3>2, <3>3, TextLength
  <2>2. CASE ~ReadStops(t, d, nulStops)
    <3>1. read[d] = read[ReadOn(t, d)]
      BY <2>2, ReadValue
    <3>2. /\ ReadOn(t, d) \in Readings /\ ReadOn(t, d).at \in d.at + 1 .. End(t)
          /\ rank[ReadOn(t, d)] < rank[d]
      BY <2>2, ReadGoesOn
    <3>3. Right(ReadOn(t, d))
      BY <1>2, <3>2
    <3> QED
      BY <2>0, <3>1, <3>2, <3>3, TextLength
  <2> QED
    BY <2>1, <2>2
<1>3. \A d \in Readings : d \in T
  <2> HIDE DEF T, rank
  <2> QED
    BY <1>1, <1>2, RankInduction
<1> QED
  BY <1>3

(* Where a comment is closed, or the text ends, a character 0 in it makes  *)
(* no difference.                                                          *)
LEMMA NulAside ==
    ASSUME NEW t \in Seq(STRING), NEW c \in Readings,
           NEW read, IsRead(read, t, FALSE), NEW other, IsRead(other, t, TRUE),
           other[c].depth = 0 \/ Eof(t, other[c].at)
    PROVE  read[c] = other[c]
<1> DEFINE T == {d \in Readings : other[d].depth = 0 \/ Eof(t, other[d].at) => read[d] = other[d]}
           rank == RoomOf(t)
<1>1. \A d \in Readings : rank[d] \in Nat
  BY RoomOfIs, TextLength
<1>2. ASSUME NEW d \in Readings, \A e \in Readings : rank[e] < rank[d] => e \in T
      PROVE  d \in T
  <2> SUFFICES ASSUME other[d].depth = 0 \/ Eof(t, other[d].at) PROVE read[d] = other[d]
    OBVIOUS
  <2>1. CASE ReadStops(t, d, TRUE)
    <3>1. other[d] = d
      BY <2>1, ReadValue
    <3>2. d.depth = 0 \/ Eof(t, d.at)
      BY <3>1
    <3>3. ReadStops(t, d, FALSE)
      BY <3>2 DEF ReadStops
    <3> QED
      BY <3>1, <3>3, ReadValue
  <2>2. CASE ~ReadStops(t, d, TRUE)
    <3>1. ~ReadStops(t, d, FALSE)
      BY <2>2 DEF ReadStops
    <3>2. read[d] = read[ReadOn(t, d)] /\ other[d] = other[ReadOn(t, d)]
      BY <2>2, <3>1, ReadValue
    <3>3. ReadOn(t, d) \in T
      BY <1>2, <2>2, ReadGoesOn
    <3> QED
      BY <3>2, <3>3
  <2> QED
    BY <2>1, <2>2
<1>3. \A d \in Readings : d \in T
  <2> HIDE DEF T, rank
  <2> QED
    BY <1>1, <1>2, RankInduction
<1> QED
  BY <1>3

(* A comment in n others is read first, and then the others.               *)
Deeper(c, n) == Reading(c.at, c.after, c.depth + n)

LEMMA ReadInside ==
    ASSUME NEW t \in Seq(STRING), NEW read, IsRead(read, t, FALSE),
           NEW n \in Nat \ {0}, NEW c \in Readings, c.depth # 0
    PROVE  read[Deeper(c, n)] =
             IF read[c].depth = 0 THEN read[Reading(read[c].at, "other", n)]
                               ELSE Deeper(read[c], n)
<1> DEFINE Right(d) ==
             read[Deeper(d, n)] =
               IF read[d].depth = 0 THEN read[Reading(read[d].at, "other", n)]
                                 ELSE Deeper(read[d], n)
           T == {d \in Readings : (d.depth = 0 => d.after = "other") => Right(d)}
           rank == RoomOf(t)
<1>1. \A d \in Readings : rank[d] \in Nat
  BY RoomOfIs, TextLength
<1>2. ASSUME NEW d \in Readings, \A e \in Readings : rank[e] < rank[d] => e \in T
      PROVE  d \in T
  <2> SUFFICES ASSUME d.depth = 0 => d.after = "other" PROVE Right(d)
    OBVIOUS
  <2>0. /\ d.at \in Nat /\ d.depth \in Nat /\ d.after \in {"*", "other"}
        /\ d = [at |-> d.at, after |-> d.after, depth |-> d.depth]
    BY DEF Readings
  <2>1. CASE d.depth = 0
    <3>1. read[d] = d
      BY <2>1, ReadValue DEF ReadStops
    <3>2. Deeper(d, n) = Reading(d.at, "other", n)
      BY <2>0, <2>1 DEF Deeper
    <3> QED
      BY <2>1, <3>1, <3>2
  <2>2. CASE d.depth # 0 /\ Eof(t, d.at)
    <3>1. read[d] = d
      BY <2>2, ReadValue DEF ReadStops
    <3>2. Deeper(d, n) \in Readings /\ Deeper(d, n).at = d.at /\ Deeper(d, n).depth # 0
      BY <2>0 DEF Deeper, Reading, Readings
    <3>3. read[Deeper(d, n)] = Deeper(d, n)
      BY <2>2, <3>2, ReadValue DEF ReadStops
    <3> QED
      BY <2>2, <3>1, <3>2, <3>3
  <2>3. CASE d.depth # 0 /\ ~Eof(t, d.at)
    <3>1. ~ReadStops(t, d, FALSE)
      BY <2>3 DEF ReadStops
    <3>2. Deeper(d, n) \in Readings /\ Deeper(d, n).at = d.at /\ Deeper(d, n).depth # 0
      BY <2>0 DEF Deeper, Reading, Readings
    <3>3. ~ReadStops(t, Deeper(d, n), FALSE)
      BY <2>3, <3>2 DEF ReadStops
    <3>4. /\ read[d] = read[ReadOn(t, d)]
          /\ read[Deeper(d, n)] = read[ReadOn(t, Deeper(d, n))]
      BY <3>1, <3>2, <3>3, ReadValue
    <3>5. ReadOn(t, Deeper(d, n)) = Deeper(ReadOn(t, d), n)
      BY <2>0, <2>3 DEF ReadOn, Deeper, Reading
    <3>6. /\ ReadOn(t, d) \in Readings /\ rank[ReadOn(t, d)] < rank[d]
          /\ ReadOn(t, d).depth = 0 => ReadOn(t, d).after = "other"
      <4>1. ReadOn(t, d) \in Readings /\ rank[ReadOn(t, d)] < rank[d] /\ d.at <= Len(t)
        BY <3>1, ReadGoesOn
      <4> QED
        BY <4>1, <2>3, ReadOnMoves
    <3>7. Right(ReadOn(t, d))
      BY <1>2, <3>6
    <3> QED
      BY <3>4, <3>5, <3>7
  <2> QED
    BY <2>1, <2>2, <2>3
<1>3. \A d \in Readings : d \in T
  <2> HIDE DEF T, rank
  <2> QED
    BY <1>1, <1>2, RankInduction
<1> QED
  BY <1>3

(* That the symbol before was a star matters to a slash only.              *)
LEMMA StarForSlash ==
    ASSUME NEW t \in Seq(STRING), NEW read, IsRead(read, t, FALSE),
           NEW q \in Nat, NEW n \in Nat \ {0}, Eof(t, q) \/ t[q] # "/"
    PROVE  read[Reading(q, "*", n)].at = read[Reading(q, "other", n)].at
<1> DEFINE c == Reading(q, "*", n)
           d == Reading(q, "other", n)
<1>1. /\ c \in Readings /\ d \in Readings
      /\ c.at = q /\ d.at = q /\ c.depth = n /\ d.depth = n
  BY DEF Reading, Readings
<1> SUFFICES read[c].at = read[d].at
  OBVIOUS
<1> HIDE DEF c, d
<1>2. CASE Eof(t, q)
  BY <1>1, <1>2, ReadValue DEF ReadStops
<1>3. CASE ~Eof(t, q)
  <2>1. ~ReadStops(t, c, FALSE) /\ ~ReadStops(t, d, FALSE)
    BY <1>1, <1>3 DEF ReadStops
  <2>2. ReadOn(t, c) = ReadOn(t, d)
    BY <1>1, <1>3 DEF ReadOn
  <2>3. read[c] = read[ReadOn(t, c)] /\ read[d] = read[ReadOn(t, d)]
    BY <1>1, <2>1, ReadValue
  <2> QED
    BY <2>2, <2>3
<1> QED
  BY <1>2, <1>3

IsCommentEnd(end, t) ==
    end = [q \in Nat |->
             CASE Eof(t, q) -> End(t)
               [] Look(t, q) = "*" /\ Look(t, q + 1) = "/" -> q + 2
               [] Look(t, q) = "/" /\ Look(t, q + 1) = "*" -> end[end[q + 2]]
               [] OTHER -> end[q + 1]]

(* Reading comment by comment ends where reading with a counter does.      *)
Behind(read, t) ==
    [q \in Nat |-> IF Eof(t, q) THEN End(t) ELSE read[Reading(q, "other", 1)].at]

(* A reading of the outermost comment.                                     *)
Outer(c, q) == c \in Readings /\ c.at = q /\ c.after = "other" /\ c.depth = 1

LEMMA OuterIs ==
    ASSUME NEW q \in Nat
    PROVE  /\ Outer(Reading(q, "other", 1), q)
           /\ \A c : Outer(c, q) => c = Reading(q, "other", 1)
  BY DEF Outer, Reading, Readings

BehindAt(read, t, q, c) ==
    /\ Eof(t, q) => Behind(read, t)[q] = End(t)
    /\ q <= End(t) => /\ Behind(read, t)[q] = read[c].at
                      /\ read[c].at \in q .. End(t)

LEMMA BehindIs ==
    ASSUME NEW t \in Seq(STRING), NEW read, IsRead(read, t, FALSE)
    PROVE  \A q \in Nat : \A c : Outer(c, q) => BehindAt(read, t, q, c)
<1> SUFFICES ASSUME NEW q \in Nat, NEW c, Outer(c, q) PROVE BehindAt(read, t, q, c)
  BY Zenon
<1>1. c \in Readings /\ c.at = q /\ c = Reading(q, "other", 1)
  BY OuterIs DEF Outer
<1>2. Behind(read, t)[q] = IF Eof(t, q) THEN End(t) ELSE read[c].at
  BY <1>1 DEF Behind
<1>3. q <= End(t) => read[c].at \in q .. End(t)
  BY <1>1, ReadRange
<1>4. q <= End(t) /\ Eof(t, q) => read[c].at = End(t)
  BY <1>3, TextLength DEF Eof
<1> QED
  BY <1>2, <1>3, <1>4, Zenon DEF BehindAt

LEMMA BehindSlashStar ==
    ASSUME NEW t \in Seq(STRING), NEW read, IsRead(read, t, FALSE)
    PROVE  \A q \in Nat : \A c : q <= End(t) /\ Outer(c, q) =>
             read[Deeper(c, 1)].at = Behind(read, t)[Behind(read, t)[q]]
<1> SUFFICES ASSUME NEW q \in Nat, NEW c, q <= End(t), Outer(c, q)
             PROVE  read[Deeper(c, 1)].at = Behind(read, t)[Behind(read, t)[q]]
  BY Zenon
<1> DEFINE s == read[c].at
           B == Behind(read, t)
<1>0. \A p \in Nat : \A d : Outer(d, p) => BehindAt(read, t, p, d)
  BY BehindIs
<1>1. c \in Readings /\ c.at = q /\ c.depth # 0 /\ c.depth = 1 /\ c.after = "other"
  BY DEF Outer
<1>2. B[q] = s /\ s \in q .. End(t)
  BY <1>0 DEF BehindAt
<1>3. PICK e : Outer(e, s) /\ e = Reading(s, "other", 1)
  <2>1. s \in Nat
    BY <1>2, TextLength
  <2> HIDE DEF s
  <2> QED
    BY <2>1, OuterIs
<1>4. read[Deeper(c, 1)] = IF read[c].depth = 0 THEN read[e] ELSE Deeper(read[c], 1)
  BY <1>1, <1>3, ReadInside
<1>5. read[c].depth # 0 => Eof(t, s)
  BY <1>1, ReadRange
<1>6. B[s] = read[e].at /\ (Eof(t, s) => s = End(t) /\ B[s] = End(t))
  <2>1. s \in Nat /\ s <= End(t) /\ (Eof(t, s) => s = End(t))
    BY <1>2, TextLength DEF Eof
  <2> HIDE DEF s
  <2>2. BehindAt(read, t, s, e)
    BY <1>0, <1>3, <2>1, Zenon
  <2> QED
    BY <2>1, <2>2 DEF BehindAt
<1>7. CASE read[c].depth = 0
  <2>1. read[Deeper(c, 1)].at = read[e].at
    BY <1>4, <1>7
  <2> QED
    BY <2>1, <1>2, <1>6
<1>8. CASE read[c].depth # 0
  <2>1. read[Deeper(c, 1)].at = Deeper(read[c], 1).at
    BY <1>4, <1>8
  <2>2. Deeper(read[c], 1).at = s
    BY DEF Deeper, Reading
  <2> QED
    BY <2>1, <2>2, <1>2, <1>5, <1>6, <1>8
<1> QED
  BY <1>7, <1>8

LEMMA BehindIsCommentEnd ==
    ASSUME NEW t \in Seq(STRING), NEW read, IsRead(read, t, FALSE)
    PROVE  IsCommentEnd(Behind(read, t), t)
<1> DEFINE B == Behind(read, t)
           Other(q) == CASE Eof(t, q) -> End(t)
                        [] Look(t, q) = "*" /\ Look(t, q + 1) = "/" -> q + 2
                        [] Look(t, q) = "/" /\ Look(t, q + 1) = "*" -> B[B[q + 2]]
                        [] OTHER -> B[q + 1]
<1>0. \A p \in Nat : \A d : Outer(d, p) => BehindAt(read, t, p, d)
  BY BehindIs
<1>1. ASSUME NEW q \in Nat PROVE B[q] = Other(q)
  <2> DEFINE c == Reading(q, "other", 1)
  <2>1. CASE Eof(t, q)
    <3>1. B[q] = End(t)
      <4>1. PICK d : Outer(d, q)
        BY OuterIs
      <4>2. BehindAt(read, t, q, d)
        BY <1>0, <4>1, Zenon
      <4> QED
        BY <2>1, <4>2 DEF BehindAt
    <3>2. Look(t, q) = "nul"
      BY <2>1 DEF Look
    <3> QED
      BY <2>1, <3>1, <3>2
  <2>2. CASE ~Eof(t, q)
    <3>1. c \in Readings /\ c.at = q /\ c.depth = 1 /\ c.after = "other"
      BY DEF Reading, Readings
    <3>2. q <= Len(t) /\ Look(t, q) = t[q]
      BY <2>2, TextLength DEF Eof, Look
    <3>3. B[q] = read[c].at
      <4>1. Outer(c, q)
        BY OuterIs
      <4> HIDE DEF c
      <4>2. BehindAt(read, t, q, c)
        BY <1>0, <4>1, Zenon
      <4> QED
        BY <3>2, <4>2, TextLength DEF BehindAt
    <3> HIDE DEF c
    <3>4. ~ReadStops(t, c, FALSE)
      BY <2>2, <3>1 DEF ReadStops
    <3>5. read[c] = read[ReadOn(t, c)]
      BY <3>1, <3>4, ReadValue
    <3>6. CASE t[q] = "*" /\ Look(t, q + 1) = "/"
      <4> DEFINE d == Reading(q + 1, "*", 1)
      <4>1. ReadOn(t, c) = d
        BY <3>1, <3>6 DEF ReadOn
      <4>2. d \in Readings /\ d.at = q + 1 /\ d.depth = 1 /\ d.after = "*"
        BY DEF Reading, Readings
      <4> HIDE DEF d
      <4>3. ~Eof(t, q + 1) /\ t[q + 1] = "/"
        BY <3>6 DEF Look
      <4>4. ~ReadStops(t, d, FALSE)
        BY <4>2, <4>3 DEF ReadStops
      <4> DEFINE e == Reading(q + 2, "other", 0)
      <4>5. ReadOn(t, d) = e
        BY <4>2, <4>3 DEF ReadOn
      <4>6. e \in Readings /\ e.at = q + 2 /\ e.depth = 0
        BY DEF Reading, Readings
      <4> HIDE DEF e
      <4>7. read[e] = e
        BY <4>6, ReadValue DEF ReadStops
      <4>8. read[d] = read[e]
        BY <4>2, <4>4, <4>5, ReadValue
      <4>9. B[q] = q + 2
        BY <3>3, <3>5, <4>1, <4>6, <4>7, <4>8
      <4> QED
        BY <4>9, <2>2, <3>2, <3>6
    <3>7. CASE t[q] = "/" /\ Look(t, q + 1) = "*"
      <4> DEFINE d == Reading(q + 2, "other", 1)
      <4>1. ReadOn(t, c) = Deeper(d, 1)
        BY <3>1, <3>7 DEF ReadOn, Deeper, Reading
      <4>2. q + 2 <= End(t) /\ q + 2 \in Nat
        BY <3>7, TextLength DEF Look, Eof
      <4>3. B[q] = B[B[q + 2]]
        <5>1. Outer(d, q + 2)
          BY <4>2, OuterIs
        <5> HIDE DEF d
        <5>2. read[Deeper(d, 1)].at = B[B[q + 2]]
          <6>1. \A k \in Nat : \A h : k <= End(t) /\ Outer(h, k) =>
                  read[Deeper(h, 1)].at = B[B[k]]
            BY BehindSlashStar
          <6> QED
            BY <4>2, <5>1, <6>1, Zenon
        <5> QED
          BY <3>3, <3>5, <4>1, <5>2
      <4> QED
        BY <4>3, <2>2, <3>2, <3>7
    <3>8. CASE ~(t[q] = "*" /\ Look(t, q + 1) = "/") /\ ~(t[q] = "/" /\ Look(t, q + 1) = "*")
      <4> DEFINE d == Reading(q + 1, "other", 1)
                 s == Reading(q + 1, "*", 1)
      <4>1. d \in Readings /\ d.at = q + 1 /\ s \in Readings /\ s.at = q + 1
        BY DEF Reading, Readings
      <4>2. B[q + 1] = read[d].at
        <5>1. Outer(d, q + 1) /\ q + 1 <= End(t) /\ q + 1 \in Nat
          BY <3>2, OuterIs, TextLength
        <5> HIDE DEF d
        <5>2. BehindAt(read, t, q + 1, d)
          BY <1>0, <5>1, Zenon
        <5> QED
          BY <5>1, <5>2 DEF BehindAt
      <4>3. ReadOn(t, c) = IF t[q] = "*" THEN s ELSE d
        BY <3>1, <3>8 DEF ReadOn
      <4>4. t[q] = "*" => read[s].at = read[d].at
        <5> SUFFICES ASSUME t[q] = "*" PROVE read[s].at = read[d].at
          OBVIOUS
        <5>1. Eof(t, q + 1) \/ t[q + 1] # "/"
          BY <3>8 DEF Look
        <5>2. q + 1 \in Nat
          OBVIOUS
        <5>3. 1 \in Nat \ {0}
          OBVIOUS
        <5> QED
          BY <5>1, <5>2, <5>3, StarForSlash, Zenon
      <4> HIDE DEF d, s
      <4>5. B[q] = B[q + 1]
        BY <3>3, <3>5, <4>2, <4>3, <4>4
      <4> QED
        BY <4>5, <2>2, <3>2, <3>8
    <3> QED
      BY <3>6, <3>7, <3>8
  <2> QED
    BY <2>1, <2>2
<1>2. B = [q \in Nat |-> B[q]]
  BY DEF Behind
<1>3. B = [q \in Nat |-> Other(q)]
  <2> HIDE DEF B, Other
  <2> QED
    BY <1>1, <1>2
<1> HIDE DEF B
<1>4. IsCommentEnd(B, t)
  BY <1>3 DEF IsCommentEnd
<1> QED
  BY <1>4 DEF B

(* There is only one such end.                                             *)
CommentTurn(end, t, q) ==
    CASE Eof(t, q) -> End(t)
      [] Look(t, q) = "*" /\ Look(t, q + 1) = "/" -> q + 2
      [] Look(t, q) = "/" /\ Look(t, q + 1) = "*" -> end[end[q + 2]]
      [] OTHER -> end[q + 1]

LEMMA CommentEndAt ==
    ASSUME NEW t, NEW end, IsCommentEnd(end, t)
    PROVE  \A q \in Nat : end[q] = CommentTurn(end, t, q)
  BY Zenon DEF IsCommentEnd, CommentTurn

LEMMA OneCommentEnd ==
    ASSUME NEW t \in Seq(STRING), NEW b, IsCommentEnd(b, t), NEW e, IsCommentEnd(e, t),
           \A q \in Nat : b[q] \in Nat /\ (b[q] >= q \/ b[q] = End(t))
    PROVE  \A q \in Nat : e[q] = b[q]
<1> DEFINE T == {q \in Nat : e[q] = b[q]}
           rank == Room(t)
<1>0. /\ \A q \in Nat : b[q] = CommentTurn(b, t, q)
      /\ \A q \in Nat : e[q] = CommentTurn(e, t, q)
  BY CommentEndAt
<1>1. \A d \in Nat : rank[d] \in Nat
  BY RoomIs, TextLength
<1>2. ASSUME NEW q \in Nat, \A k \in Nat : rank[k] < rank[q] => k \in T
      PROVE  q \in T
  <2>1. CASE Eof(t, q)
    <3>1. CommentTurn(e, t, q) = CommentTurn(b, t, q)
      BY <2>1 DEF CommentTurn, Look
    <3> QED
      BY <3>1, <1>0
  <2>2. CASE ~Eof(t, q)
    <3>1. \A k \in Nat : k > q => e[k] = b[k]
      BY <2>2, <1>2, RoomIs, TextLength DEF Eof
    <3>2. CASE Look(t, q) = "*" /\ Look(t, q + 1) = "/"
      <4>1. CommentTurn(e, t, q) = CommentTurn(b, t, q)
        BY <2>2, <3>2 DEF CommentTurn
      <4> QED
        BY <4>1, <1>0
    <3>3. CASE Look(t, q) = "/" /\ Look(t, q + 1) = "*"
      <4>1. CommentTurn(e, t, q) = e[e[q + 2]] /\ CommentTurn(b, t, q) = b[b[q + 2]]
        BY <2>2, <3>3 DEF CommentTurn
      <4>2. b[q + 2] \in Nat /\ b[q + 2] > q
        <5>1. q <= Len(t) /\ q + 2 \in Nat
          BY <2>2, TextLength DEF Eof
        <5>2. b[q + 2] \in Nat /\ (b[q + 2] >= q + 2 \/ b[q + 2] = End(t))
          BY <5>1, Zenon
        <5> QED
          BY <5>1, <5>2, TextLength
      <4>3. e[q + 2] = b[q + 2]
        BY <3>1
      <4>4. e[b[q + 2]] = b[b[q + 2]]
        BY <3>1, <4>2
      <4>5. e[q] = CommentTurn(e, t, q) /\ b[q] = CommentTurn(b, t, q)
        BY <1>0
      <4>6. e[q] = b[q]
        BY <4>1, <4>3, <4>4, <4>5, Zenon
      <4> QED
        BY <4>6
    <3>4. CASE ~(Look(t, q) = "*" /\ Look(t, q + 1) = "/")
               /\ ~(Look(t, q) = "/" /\ Look(t, q + 1) = "*")
      <4>1. CommentTurn(e, t, q) = e[q + 1] /\ CommentTurn(b, t, q) = b[q + 1]
        BY <2>2, <3>4 DEF CommentTurn
      <4>2. e[q + 1] = b[q + 1]
        BY <3>1
      <4> QED
        BY <1>0, <4>1, <4>2
    <3> QED
      BY <3>2, <3>3, <3>4
  <2> QED
    BY <2>1, <2>2
<1>3. \A d \in Nat : d \in T
  <2> HIDE DEF T, rank
  <2> QED
    BY <1>1, <1>2, RankInduction
<1> QED
  BY <1>3

LEMMA CommentEndIs ==
    ASSUME NEW t \in Seq(STRING), NEW read, IsRead(read, t, FALSE), NEW p \in Nat
    PROVE  CommentEnd(t, p) = Behind(read, t)[p]
<1> DEFINE e == CHOOSE end : IsCommentEnd(end, t)
           b == Behind(read, t)
<1>1. IsCommentEnd(b, t)
  BY BehindIsCommentEnd
<1>2. IsCommentEnd(e, t)
  BY <1>1, Zenon
<1>3. CommentEnd(t, p) = e[p]
  BY DEF CommentEnd, IsCommentEnd
<1>4. ASSUME NEW q \in Nat PROVE b[q] \in Nat /\ (b[q] >= q \/ b[q] = End(t))
  <2>1. PICK c : Outer(c, q)
    BY OuterIs
  <2>2. \A k \in Nat : \A d : Outer(d, k) => BehindAt(read, t, k, d)
    BY BehindIs
  <2>3. BehindAt(read, t, q, c)
    BY <2>1, <2>2, Zenon
  <2> QED
    BY <2>3, TextLength DEF BehindAt, Eof
<1> HIDE DEF e, b
<1>5. \A q \in Nat : e[q] = b[q]
  BY <1>1, <1>2, <1>4, OneCommentEnd
<1> QED
  BY <1>3, <1>5 DEF b

(* Where the scanner stops reading a comment.                              *)
LEMMA ReadCommentIs ==
    ASSUME NEW t \in Seq(STRING), NEW p \in 1 .. End(t), NEW nulStops \in BOOLEAN
    PROVE  /\ ReadComment(t, p, nulStops).at \in p .. End(t)
           /\ ReadComment(t, p, nulStops).depth = 0
                \/ Eof(t, ReadComment(t, p, nulStops).at)
                \/ (nulStops /\ t[ReadComment(t, p, nulStops).at] = "nul")
           /\ (ReadComment(t, p, nulStops).depth = 0
                 \/ Eof(t, ReadComment(t, p, nulStops).at))
              => ReadComment(t, p, nulStops).at = CommentEnd(t, p)
<1> DEFINE c == Reading(p, "other", 1)
<1>0. p \in Nat /\ p <= End(t)
  BY TextLength
<1>1. Outer(c, p)
  BY <1>0, OuterIs
<1> HIDE DEF c
<1>2. PICK read : /\ IsRead(read, t, FALSE)
                  /\ ReadComment(t, p, FALSE) = read[c]
  <2>1. \E r : /\ IsRead(r, t, FALSE)
               /\ \A q : ReadComment(t, q, FALSE) = r[Reading(q, "other", 1)]
    BY ReadUnfolds
  <2> QED
    BY <2>1, Zenon DEF c
<1>3. PICK other : /\ IsRead(other, t, nulStops)
                   /\ ReadComment(t, p, nulStops) = other[c]
  <2>1. \E r : /\ IsRead(r, t, nulStops)
               /\ \A q : ReadComment(t, q, nulStops) = r[Reading(q, "other", 1)]
    BY ReadUnfolds
  <2> QED
    BY <2>1, Zenon DEF c
<1>4. c \in Readings /\ c.at = p
  BY <1>1 DEF Outer
<1>5. /\ other[c].at \in p .. End(t)
      /\ other[c].depth = 0 \/ Eof(t, other[c].at)
           \/ (nulStops /\ t[other[c].at] = "nul")
  BY <1>0, <1>3, <1>4, ReadRange
<1>6. CommentEnd(t, p) = read[c].at
  <2>1. \A k \in Nat : \A d : Outer(d, k) => BehindAt(read, t, k, d)
    BY <1>2, BehindIs
  <2>2. BehindAt(read, t, p, c)
    BY <1>0, <1>1, <2>1, Zenon
  <2>3. CommentEnd(t, p) = Behind(read, t)[p]
    BY <1>0, <1>2, CommentEndIs
  <2> QED
    BY <1>0, <2>2, <2>3 DEF BehindAt
<1>7. other[c].depth = 0 \/ Eof(t, other[c].at) => read[c] = other[c]
  <2>1. CASE nulStops = TRUE
    <3>1. IsRead(other, t, TRUE)
      BY <1>3, <2>1
    <3> QED
      BY <1>2, <1>4, <3>1, NulAside
  <2>2. CASE nulStops = FALSE
    <3>1. ReadComment(t, p, nulStops) = ReadComment(t, p, FALSE)
      BY <2>2
    <3> QED
      BY <1>2, <1>3, <3>1
  <2>3. nulStops = TRUE \/ nulStops = FALSE
    OBVIOUS
  <2> QED
    BY <2>1, <2>2, <2>3, Zenon
<1> QED
  BY <1>3, <1>5, <1>6, <1>7

-----------------------------------------------------------------------------
(* Where a scan may leave the lexer that it was given at p.                *)
Placed(t, p, L) ==
    /\ L \in [at : p .. End(t), from : p .. End(t), to : {Nowhere} \cup (p .. End(t))]
    /\ L.from <= L.at

(* What a refused scan has read is no quote and begins no block comment,   *)
(* or the next scans have nothing to read.                                 *)
Tidy(t, L) ==
    \/ Look(t, L.at) = "nul"
    \/ \A i \in L.from .. L.at - 1 :
          t[i] # "dq" /\ ~(t[i] = "/" /\ Look(t, i + 1) = "*")

LEMMA LexerPlaced ==
    ASSUME NEW t \in Seq(STRING), NEW p \in 1 .. End(t)
    PROVE  Placed(t, p, Lexer(p)) /\ Tidy(t, Lexer(p))
  BY TextLength DEF Placed, Tidy, Lexer

LEMMA MovePlaced ==
    ASSUME NEW t \in Seq(STRING), NEW p \in 1 .. End(t), NEW L, Placed(t, p, L),
           NEW q \in L.at .. End(t)
    PROVE  /\ Placed(t, p, [L EXCEPT !.at = q])
           /\ [L EXCEPT !.at = q].at = q
           /\ [L EXCEPT !.at = q].from = L.from
           /\ [L EXCEPT !.at = q].to = L.to
  BY TextLength DEF Placed

LEMMA PastIs ==
    ASSUME NEW t \in Seq(STRING), NEW q \in 1 .. End(t), NEW n \in Nat
    PROVE  /\ Past(t, q, n) \in q .. End(t)
           /\ q + n <= End(t) => Past(t, q, n) = q + n
  BY TextLength DEF Past

LEMMA AdvancePlaced ==
    ASSUME NEW t \in Seq(STRING), NEW p \in 1 .. End(t), NEW L, Placed(t, p, L),
           NEW n \in Nat
    PROVE  /\ Placed(t, p, Advance(t, L, n))
           /\ Advance(t, L, n).at = Past(t, L.at, n)
           /\ Advance(t, L, n).from = L.from
<1> DEFINE q == Past(t, L.at, n)
<1>1. L.at \in 1 .. End(t)
  BY TextLength DEF Placed
<1>2. q \in L.at .. End(t)
  BY <1>1, PastIs
<1>3. Advance(t, L, n) = [L EXCEPT !.at = q]
  BY DEF Advance, Placed
<1> HIDE DEF q
<1> QED
  BY <1>2, <1>3, MovePlaced DEF q

LEMMA SkipPlaced ==
    ASSUME NEW t \in Seq(STRING), NEW p \in 1 .. End(t), NEW L, Placed(t, p, L),
           NEW q \in L.at .. End(t)
    PROVE  /\ Placed(t, p, SkipTo(L, q))
           /\ SkipTo(L, q).at = q
           /\ SkipTo(L, q).from = IF q = L.at THEN L.from ELSE q
           /\ SkipTo(L, q).to = L.to
           /\ Tidy(t, L) => Tidy(t, SkipTo(L, q))
<1>1. /\ Placed(t, p, SkipTo(L, q))
      /\ SkipTo(L, q).at = q
      /\ SkipTo(L, q).from = IF q = L.at THEN L.from ELSE q
      /\ SkipTo(L, q).to = L.to
  <2> DEFINE f == IF q = L.at THEN L.from ELSE q
  <2>1. /\ L.at \in p .. End(t) /\ L.from \in p .. End(t) /\ L.from <= L.at
        /\ L.to \in {Nowhere} \cup (p .. End(t))
    BY DEF Placed
  <2>2. SkipTo(L, q) = [at |-> q, from |-> f, to |-> L.to]
    <3> DEFINE A == p .. End(t)
               B == {Nowhere} \cup A
    <3>1. L \in [at : A, from : A, to : B]
      BY DEF Placed
    <3> HIDE DEF A, B
    <3>2. PICK a \in A, b \in A, c \in B : L = [at |-> a, from |-> b, to |-> c]
      BY <3>1
    <3>3. L.at = a /\ L.from = b /\ L.to = c
      BY <3>2
    <3>4. SkipTo(L, q) = [at |-> q, from |-> IF q = a THEN b ELSE q, to |-> c]
      <4> DEFINE g == IF q = L.at THEN L.from ELSE q
                 M == [L EXCEPT !.from = g]
      <4>1. g = IF q = a THEN b ELSE q
        BY <3>3
      <4>2. SkipTo(L, q) = [M EXCEPT !.at = q]
        BY DEF SkipTo
      <4> HIDE DEF g
      <4>3. M = [at |-> a, from |-> g, to |-> c]
        BY <3>2
      <4> HIDE DEF M
      <4>4. [M EXCEPT !.at = q] = [at |-> q, from |-> g, to |-> c]
        BY <4>3
      <4> QED
        BY <4>1, <4>2, <4>4
    <3> QED
      BY <3>3, <3>4
  <2>3. f \in p .. End(t) /\ f <= q /\ q \in p .. End(t)
    BY <2>1, TextLength
  <2> HIDE DEF f
  <2>4. Placed(t, p, SkipTo(L, q))
    BY <2>1, <2>2, <2>3 DEF Placed
  <2> QED
    BY <2>2, <2>4 DEF f
<1>2. CASE q = L.at
  BY <1>1, <1>2 DEF Tidy
<1>3. CASE q # L.at
  BY <1>1, <1>3, TextLength DEF Tidy
<1> QED
  BY <1>1, <1>2, <1>3

LEMMA MarkPlaced ==
    ASSUME NEW t \in Seq(STRING), NEW p \in 1 .. End(t), NEW L, Placed(t, p, L)
    PROVE  /\ Placed(t, p, Mark(L))
           /\ Mark(L).at = L.at /\ Mark(L).from = L.from /\ Mark(L).to = L.at
           /\ Tidy(t, L) => Tidy(t, Mark(L))
<1>1. /\ Placed(t, p, Mark(L))
      /\ Mark(L).at = L.at /\ Mark(L).from = L.from /\ Mark(L).to = L.at
  BY TextLength DEF Placed, Mark
<1> QED
  BY <1>1 DEF Tidy

LEMMA SkipSpacePlaced ==
    ASSUME NEW t \in Seq(STRING), NEW p \in 1 .. End(t), NEW L, Placed(t, p, L)
    PROVE  /\ Placed(t, p, SkipSpace(t, L))
           /\ SkipSpace(t, L).at \in L.at .. End(t)
           /\ SkipSpace(t, L).from = IF SkipSpace(t, L).at = L.at
                                       THEN L.from ELSE SkipSpace(t, L).at
           /\ Look(t, L.at) \in Space => SkipSpace(t, L).at # L.at
           /\ Tidy(t, L) => Tidy(t, SkipSpace(t, L))
<1> DEFINE q == FirstNot(t, L.at, Space)
<1>1. L.at \in 1 .. End(t)
  BY TextLength DEF Placed
<1>2. q \in L.at .. End(t) /\ (Eof(t, q) \/ t[q] \notin Space)
  BY <1>1, FirstNotIs
<1>3. SkipSpace(t, L) = SkipTo(L, q)
  BY DEF SkipSpace
<1>4. Look(t, L.at) \in Space => q # L.at
  BY <1>2 DEF Look, Space
<1> HIDE DEF q
<1> QED
  BY <1>2, <1>3, <1>4, SkipPlaced

-----------------------------------------------------------------------------
(* What every scan leaves behind: a lexer in the text, tidied if nothing   *)
(* was found; the delimiter that the token shows, if a literal starts; and *)
(* a whole comment.                                                        *)
ShowsDelimiter(t, r, st) == r.stack = Append(st, DelimiterOf(t, Extent(r)))

Right(t, p, r, st) ==
    /\ Placed(t, p, r.lexer)
    /\ r.token = NoToken => Tidy(t, r.lexer)
    /\ r.token = "STRING_START" => ShowsDelimiter(t, r, st)
    /\ r.token = "MULTILINE_COMMENT" => IsWholeComment(t, p, Extent(r))

LEMMA RefuseRight ==
    ASSUME NEW t, NEW p, NEW L, Placed(t, p, L), Tidy(t, L), NEW st, NEW s
    PROVE  Right(t, p, Refuse(L, s), st)
  BY DEF Right, Refuse, NoToken

Plainly == Tokens \ {"STRING_START", "MULTILINE_COMMENT"}

LEMMA AcceptRight ==
    ASSUME NEW t, NEW p, NEW L, Placed(t, p, L), NEW sym \in Plainly, NEW st, NEW s
    PROVE  Right(t, p, Accept(L, sym, s), st)
  BY DEF Right, Accept, NoToken, Plainly, Tokens

(* The first "/*" is where a comment begins.                               *)
Openings(t, from) == {q \in from .. Len(t) - 1 : t[q] = "/" /\ t[q + 1] = "*"}
Opening(t, from) == CHOOSE o \in Openings(t, from) : \A k \in Openings(t, from) : o <= k

LEMMA FirstOpening ==
    ASSUME NEW t \in Seq(STRING), NEW from, NEW q \in Nat,
           from \in 1 .. q, q < Len(t), t[q] = "/", t[q + 1] = "*",
           \A i \in from .. q - 1 : ~(t[i] = "/" /\ Look(t, i + 1) = "*")
    PROVE  Openings(t, from) # {} /\ Opening(t, from) = q
<1> DEFINE open == Openings(t, from)
           p    == CHOOSE o \in open : \A k \in open : o <= k
<1>1. q \in open
  BY TextLength DEF Openings
<1>2. ASSUME NEW o \in open PROVE q <= o
  <2> SUFFICES ASSUME o < q PROVE FALSE
    BY TextLength DEF Openings
  <2>1. o \in from .. q - 1 /\ Look(t, o + 1) = t[o + 1]
    BY TextLength DEF Look, Eof, Openings
  <2> QED
    BY <2>1 DEF Openings
<1>3. \A o \in open : o \in Nat
  BY TextLength DEF Openings
<1> SUFFICES open # {} /\ p = q
  BY DEF Opening
<1>4. p \in open /\ \A k \in open : p <= k
  <2> HIDE DEF open
  <2> QED
    BY <1>1, <1>2, Zenon
<1>5. p = q
  <2>1. p <= q /\ q <= p /\ p \in Nat
    BY <1>1, <1>2, <1>3, <1>4
  <2> HIDE DEF p
  <2> QED
    BY <2>1
<1> QED
  BY <1>1, <1>5

LEMMA FilledComment ==
    ASSUME NEW t \in Seq(STRING), NEW h, NEW x, NEW q \in Nat,
           x.from \in 1 .. q, q < Len(t), t[q] = "/", t[q + 1] = "*",
           \A i \in x.from .. q - 1 : ~(t[i] = "/" /\ Look(t, i + 1) = "*"),
           x.to \in Nat, x.to > q, x.to = CommentEnd(t, q + 2)
    PROVE  IsWholeComment(t, h, x)
<1> DEFINE p == Opening(t, x.from)
<1>1. Openings(t, x.from) # {} /\ p = q
  BY FirstOpening
<1>2. x.from < x.to /\ x.from # x.to
  BY TextLength
<1> HIDE DEF p
<1>3. x.to = CommentEnd(t, p + 2)
  BY <1>1
<1> QED
  BY <1>1, <1>2, <1>3 DEF IsWholeComment, Openings, Opening, p

LEMMA EmptyComment ==
    ASSUME NEW t \in Seq(STRING), NEW h, NEW x, NEW q \in Nat,
           h \in 1 .. q, q < Len(t), t[q] = "/", t[q + 1] = "*",
           \A i \in h .. q - 1 : t[i] \in Space,
           x.to \in Nat, x.from = x.to,
           x.to = FirstNot(t, CommentEnd(t, q + 2), Space)
    PROVE  IsWholeComment(t, h, x)
<1> DEFINE p == Opening(t, h)
<1>1. \A i \in h .. q - 1 : ~(t[i] = "/" /\ Look(t, i + 1) = "*")
  BY DEF Space
<1>2. Openings(t, h) # {} /\ p = q
  BY <1>1, FirstOpening
<1>3. ~(x.from < x.to)
  OBVIOUS
<1> HIDE DEF p
<1>4. /\ \A i \in h .. p - 1 : t[i] \in Space
      /\ x.to = FirstNot(t, CommentEnd(t, p + 2), Space)
  BY <1>2
<1> QED
  BY <1>2, <1>3, <1>4 DEF IsWholeComment, Openings, Opening, p

-----------------------------------------------------------------------------
(* The positions that the looks ahead of automatic semicolons return.      *)
LEMMA LookIs ==
    ASSUME NEW t \in Seq(STRING), NEW q \in Nat, Look(t, q) # "nul"
    PROVE  q <= Len(t) /\ q + 1 <= End(t) /\ Look(t, q) = t[q]
  BY TextLength DEF Look, Eof

LEMMA WordIs ==
    ASSUME NEW t \in Seq(STRING), NEW q \in Nat, NEW letter, NEW rest,
           IsWord(t, q, letter, rest), rest # "nul"
    PROVE  q + 2 <= End(t)
  BY LookIs, TextLength DEF IsWord

LEMMA KeywordIs ==
    ASSUME NEW t \in Seq(STRING), NEW q \in Nat, Look(t, q) # "nul",
           NEW rest, rest # "nul"
    PROVE  /\ Keyword(t, q, rest) \in {q + 1, q + 2}
           /\ Keyword(t, q, rest) <= End(t)
           /\ Keyword(t, q, rest) = q + 2 => Look(t, q + 1) = rest /\ q + 1 <= Len(t)
<1>1. q <= Len(t)
  BY LookIs
<1>2. Look(t, q + 1) = rest => q + 1 <= Len(t)
  BY LookIs
<1> QED
  BY <1>1, <1>2, TextLength DEF Keyword, Past

LEMMA ModifierIs ==
    ASSUME NEW t \in Seq(STRING), NEW p \in 1 .. End(t)
    PROVE  check_modifier_then_constructor(t, p) \in {Nowhere} \cup (p .. End(t))
<1> DEFINE q == FirstNot(t, p + 2, {"sp"})
<1>0. CASE ~(IsWord(t, p, "p", "ublic") \/ IsWord(t, p, "i", "nternal"))
  BY <1>0 DEF check_modifier_then_constructor
<1>1. CASE IsWord(t, p, "p", "ublic") \/ IsWord(t, p, "i", "nternal")
  <2>1. p + 2 \in 1 .. End(t)
    BY <1>1, WordIs, TextLength
  <2>2. q \in p + 2 .. End(t)
    BY <2>1, FirstNotIs
  <2> HIDE DEF q
  <2>3. IsWord(t, q, "c", "onstructor") => q + 2 \in p .. End(t)
    BY <2>2, WordIs, TextLength
  <2> QED
    BY <2>3 DEF check_modifier_then_constructor, q
<1> QED
  BY <1>0, <1>1

(* A walk over the text goes forward, until it stops at a position or says *)
(* W.                                                                      *)
Walks(t, stop, val, next, W) ==
    /\ \A q \in Nat : q \notin stop => q <= Len(t) /\ next[q] \in q + 1 .. End(t)
    /\ \A q \in Nat : q <= End(t) /\ q \in stop => val[q] \in W \cup (q .. End(t))

LEMMA WalkExists ==
    ASSUME NEW t \in Seq(STRING), NEW stop, NEW val, NEW next, NEW W,
           Walks(t, stop, val, next, W)
    PROVE  \E f : GoesOnTo(f, Nat, stop, val, next)
<1> DEFINE rank == Room(t)
           K == End(t)
<1>1. ASSUME NEW q \in Nat, q \notin stop
      PROVE  next[q] \in Nat /\ rank[next[q]] < rank[q]
  <2>1. q <= Len(t) /\ next[q] \in q + 1 .. End(t)
    BY <1>1 DEF Walks
  <2>2. next[q] \in Nat /\ q < next[q]
    BY <2>1, TextLength
  <2> QED
    BY <2>1, <2>2, RoomIs
<1>2. Falls(Nat, stop, next, rank, K)
  BY <1>1, RoomIs, TextLength DEF Falls
<1> HIDE DEF rank, K
<1> QED
  BY <1>2, TailRecursion

LEMMA WalkRange ==
    ASSUME NEW t \in Seq(STRING), NEW stop, NEW val, NEW next, NEW W,
           Walks(t, stop, val, next, W), NEW f, GoesOnTo(f, Nat, stop, val, next)
    PROVE  \A q \in Nat : q <= End(t) => f[q] \in W \cup (q .. End(t))
<1> DEFINE T == {q \in Nat : q <= End(t) => f[q] \in W \cup (q .. End(t))}
           rank == Room(t)
<1>0. \A q \in Nat : f[q] = IF q \in stop THEN val[q] ELSE f[next[q]]
  BY Zenon DEF GoesOnTo
<1>1. \A d \in Nat : rank[d] \in Nat
  BY RoomIs, TextLength
<1>2. ASSUME NEW q \in Nat, \A k \in Nat : rank[k] < rank[q] => k \in T
      PROVE  q \in T
  <2>1. CASE q \in stop
    <3>1. f[q] = val[q] /\ (q <= End(t) => val[q] \in W \cup (q .. End(t)))
      BY <1>0, <2>1 DEF Walks
    <3> QED
      BY <3>1
  <2>2. CASE q \notin stop
    <3> DEFINE n == next[q]
    <3>1. f[q] = f[n]
      BY <1>0, <2>2
    <3>2. q <= Len(t) /\ n \in q + 1 .. End(t)
      BY <2>2 DEF Walks
    <3> HIDE DEF n
    <3>3. n \in Nat /\ q < n /\ n <= End(t)
      BY <3>2, TextLength
    <3>4. n \in T
      BY <1>2, <3>2, <3>3, RoomIs
    <3>5. f[n] \in W \cup (n .. End(t))
      BY <3>3, <3>4
    <3>6. f[q] \in W \cup (q .. End(t))
      BY <3>1, <3>3, <3>5, TextLength
    <3> QED
      BY <3>6
  <2> QED
    BY <2>1, <2>2
<1>3. \A d \in Nat : d \in T
  <2> HIDE DEF T, rank
  <2> QED
    BY <1>1, <1>2, RankInduction
<1> QED
  BY <1>3

(* The end of a text in quotes.                                            *)
IsQuoted(f, t) ==
    f = [q \in Nat |-> CASE Look(t, q) = "nul" -> q
                         [] Look(t, q) = "dq"  -> q + 1
                         [] Look(t, q) = "bs"  -> f[Past(t, q, 2)]
                         [] OTHER              -> f[q + 1]]

LEMMA QuotedIs ==
    ASSUME NEW t \in Seq(STRING)
    PROVE  /\ \E f : IsQuoted(f, t)
           /\ \A f : IsQuoted(f, t) =>
                \A q \in Nat : q <= End(t) => f[q] \in q .. End(t)
<1> DEFINE stop == {q \in Nat : Look(t, q) \in {"nul", "dq"}}
           val  == [q \in Nat |-> IF Look(t, q) = "nul" THEN q ELSE q + 1]
           next == [q \in Nat |-> IF Look(t, q) = "bs" THEN Past(t, q, 2) ELSE q + 1]
<1>1. \A q \in Nat : Look(t, q) # "nul" => q <= Len(t) /\ q + 1 \in q .. End(t)
  BY LookIs, TextLength
<1>2. ASSUME NEW q \in Nat, q \notin stop PROVE q <= Len(t) /\ next[q] \in q + 1 .. End(t)
  <2>1. q <= Len(t)
    BY <1>1, <1>2
  <2>2. Past(t, q, 2) \in q + 1 .. End(t)
    BY <2>1, TextLength DEF Past
  <2> QED
    BY <2>1, <2>2, TextLength
<1>3. Walks(t, stop, val, next, {})
  <2>1. \A q \in Nat : q <= End(t) /\ q \in stop => val[q] \in q .. End(t)
    BY <1>1, TextLength
  <2> QED
    BY <1>2, <2>1 DEF Walks
<1>4. ASSUME NEW f PROVE GoesOnTo(f, Nat, stop, val, next) <=> IsQuoted(f, t)
  <2>1. \A q \in Nat : (IF q \in stop THEN val[q] ELSE f[next[q]]) =
                      CASE Look(t, q) = "nul" -> q
                        [] Look(t, q) = "dq"  -> q + 1
                        [] Look(t, q) = "bs"  -> f[Past(t, q, 2)]
                        [] OTHER              -> f[q + 1]
    OBVIOUS
  <2>2. [q \in Nat |-> IF q \in stop THEN val[q] ELSE f[next[q]]] =
        [q \in Nat |-> CASE Look(t, q) = "nul" -> q
                         [] Look(t, q) = "dq"  -> q + 1
                         [] Look(t, q) = "bs"  -> f[Past(t, q, 2)]
                         [] OTHER              -> f[q + 1]]
    <3> HIDE DEF stop, val, next
    <3> QED
      BY <2>1
  <2> HIDE DEF stop, val, next
  <2> QED
    BY <2>2, Zenon DEF GoesOnTo, IsQuoted
<1> HIDE DEF stop, val, next
<1>5. \E f : IsQuoted(f, t)
  BY <1>3, <1>4, WalkExists
<1>6. ASSUME NEW f, IsQuoted(f, t)
      PROVE  \A q \in Nat : q <= End(t) => f[q] \in {} \cup (q .. End(t))
  BY <1>3, <1>4, <1>6, WalkRange
<1> QED
  BY <1>5, <1>6

(* Behind an argument list.                                                *)
Spots == [at : Nat, depth : Nat]

ArgumentOn(quoted, t, a) ==
    CASE Look(t, a.at) = "dq" -> [a EXCEPT !.at = quoted[@ + 1]]
      [] Look(t, a.at) = "("  -> [at |-> a.at + 1, depth |-> a.depth + 1]
      [] Look(t, a.at) = ")"  -> [at |-> a.at + 1, depth |-> a.depth - 1]
      [] OTHER                -> [a EXCEPT !.at = @ + 1]

ArgumentsStop(t, a) == a.depth = 0 \/ Look(t, a.at) = "nul"

IsArguments(f, quoted, t) ==
    f = [a \in Spots |-> IF ArgumentsStop(t, a) THEN a.at
                         ELSE f[ArgumentOn(quoted, t, a)]]

LEMMA ArgumentOnMoves ==
    ASSUME NEW t \in Seq(STRING), NEW quoted, IsQuoted(quoted, t),
           NEW a \in Spots, ~ArgumentsStop(t, a)
    PROVE  /\ a.at <= Len(t)
           /\ ArgumentOn(quoted, t, a) \in Spots
           /\ ArgumentOn(quoted, t, a).at \in a.at + 1 .. End(t)
<1>1. a.at \in Nat /\ a.depth \in Nat /\ a.depth # 0 /\ Look(t, a.at) # "nul"
  BY DEF Spots, ArgumentsStop
<1>2. a.at <= Len(t) /\ a.at + 1 <= End(t) /\ a.at + 1 \in Nat /\ a.depth - 1 \in Nat
  BY <1>1, LookIs
<1>3. quoted[a.at + 1] \in a.at + 1 .. End(t)
  BY <1>2, QuotedIs
<1>4. CASE Look(t, a.at) = "dq"
  <2> DEFINE b == [a EXCEPT !.at = quoted[a.at + 1]]
  <2>1. ArgumentOn(quoted, t, a) = b
    BY <1>4 DEF ArgumentOn
  <2>2. b.at = quoted[a.at + 1] /\ b.depth = a.depth /\ b \in Spots
    BY <1>2, <1>3, TextLength DEF Spots
  <2> QED
    BY <1>2, <1>3, <2>1, <2>2
<1>5. CASE Look(t, a.at) # "dq"
  <2> DEFINE b == [a EXCEPT !.at = a.at + 1]
             d == [at |-> a.at + 1, depth |-> a.depth + 1]
             e == [at |-> a.at + 1, depth |-> a.depth - 1]
  <2>1. ArgumentOn(quoted, t, a) \in {b, d, e}
    BY <1>5 DEF ArgumentOn
  <2>2. /\ b \in Spots /\ b.at = a.at + 1
        /\ d \in Spots /\ d.at = a.at + 1
        /\ e \in Spots /\ e.at = a.at + 1
    BY <1>1, <1>2 DEF Spots
  <2> HIDE DEF b, d, e
  <2> QED
    BY <1>1, <1>2, <2>1, <2>2, TextLength
<1> QED
  BY <1>4, <1>5

LEMMA ArgumentsExist ==
    ASSUME NEW t \in Seq(STRING), NEW quoted, IsQuoted(quoted, t)
    PROVE  \E f : IsArguments(f, quoted, t)
<1> DEFINE stop == {a \in Spots : ArgumentsStop(t, a)}
           val  == [a \in Spots |-> a.at]
           next == [a \in Spots |-> ArgumentOn(quoted, t, a)]
           rank == [a \in Spots |-> Room(t)[a.at]]
           K    == End(t)
<1>1. ASSUME NEW a \in Spots, a \notin stop
      PROVE  next[a] \in Spots /\ rank[next[a]] < rank[a]
  <2> DEFINE b == ArgumentOn(quoted, t, a)
  <2>1. a.at <= Len(t) /\ b \in Spots /\ b.at \in a.at + 1 .. End(t)
    BY <1>1, ArgumentOnMoves
  <2>2. a.at \in Nat /\ b.at \in Nat /\ a.at < b.at
    BY <2>1, TextLength DEF Spots
  <2>3. Room(t)[b.at] < Room(t)[a.at]
    BY <2>1, <2>2, RoomIs
  <2>4. next[a] = b
    OBVIOUS
  <2> HIDE DEF b
  <2> QED
    BY <2>1, <2>3, <2>4
<1>2. \A a \in Spots : rank[a] \in 0 .. K
  BY RoomIs DEF Spots
<1>3. Falls(Spots, stop, next, rank, K)
  BY <1>1, <1>2, TextLength DEF Falls
<1>4. \E f : GoesOnTo(f, Spots, stop, val, next)
  <2> HIDE DEF stop, val, next, rank, K
  <2> QED
    BY <1>3, TailRecursion
<1>5. PICK f : GoesOnTo(f, Spots, stop, val, next)
  BY <1>4
<1>6. f = [a \in Spots |-> IF a \in stop THEN val[a] ELSE f[next[a]]]
  <2> HIDE DEF stop, val, next
  <2> QED
    BY <1>5, Zenon DEF GoesOnTo
<1>7. f = [a \in Spots |-> IF ArgumentsStop(t, a) THEN a.at
                           ELSE f[ArgumentOn(quoted, t, a)]]
  BY <1>6
<1> QED
  BY <1>7 DEF IsArguments

LEMMA ArgumentsRange ==
    ASSUME NEW t \in Seq(STRING), NEW quoted, IsQuoted(quoted, t),
           NEW f, IsArguments(f, quoted, t)
    PROVE  \A a \in Spots : a.at <= End(t) => f[a] \in a.at .. End(t)
<1> DEFINE T == {a \in Spots : a.at <= End(t) => f[a] \in a.at .. End(t)}
           rank == [a \in Spots |-> Room(t)[a.at]]
<1>0. \A a \in Spots : f[a] = IF ArgumentsStop(t, a) THEN a.at
                              ELSE f[ArgumentOn(quoted, t, a)]
  BY Zenon DEF IsArguments
<1>1. \A a \in Spots : rank[a] \in Nat
  BY RoomIs, TextLength DEF Spots
<1>2. ASSUME NEW a \in Spots, \A k \in Spots : rank[k] < rank[a] => k \in T
      PROVE  a \in T
  <2>0. a.at \in Nat
    BY DEF Spots
  <2>1. CASE ArgumentsStop(t, a)
    <3>1. f[a] = a.at
      BY <1>0, <2>1
    <3> QED
      BY <2>0, <3>1, TextLength
  <2>2. CASE ~ArgumentsStop(t, a)
    <3> DEFINE b == ArgumentOn(quoted, t, a)
    <3>1. f[a] = f[b]
      BY <1>0, <2>2
    <3>2. a.at <= Len(t) /\ b \in Spots /\ b.at \in a.at + 1 .. End(t)
      BY <2>2, ArgumentOnMoves
    <3> HIDE DEF b
    <3>3. b.at \in Nat /\ a.at < b.at /\ b.at <= End(t)
      BY <2>0, <3>2, TextLength
    <3>4. Room(t)[b.at] < Room(t)[a.at]
      BY <2>0, <3>2, <3>3, RoomIs
    <3>5. f[b] \in b.at .. End(t)
      BY <1>2, <3>2, <3>3, <3>4
    <3>6. f[a] \in a.at .. End(t)
      BY <2>0, <3>1, <3>3, <3>5, TextLength
    <3> QED
      BY <3>6
  <2> QED
    BY <2>1, <2>2
<1>3. \A a \in Spots : a \in T
  <2> HIDE DEF T, rank
  <2> QED
    BY <1>1, <1>2, RankInduction
<1> QED
  BY <1>3

LEMMA ArgumentsIs ==
    ASSUME NEW t \in Seq(STRING), NEW p \in 1 .. End(t)
    PROVE  Arguments(t, p) \in p .. End(t)
<1> DEFINE quoted == CHOOSE f : IsQuoted(f, t)
           args   == CHOOSE f : IsArguments(f, quoted, t)
           a      == [at |-> p, depth |-> 1]
<1>1. IsQuoted(quoted, t)
  BY QuotedIs, Zenon
<1>2. Arguments(t, p) = args[a]
  BY DEF Arguments, IsArguments, IsQuoted, Spots, ArgumentOn, ArgumentsStop
<1>3. IsArguments(args, quoted, t)
  <2> HIDE DEF quoted
  <2>1. \E f : IsArguments(f, quoted, t)
    BY <1>1, ArgumentsExist
  <2> QED
    BY <2>1, Zenon
<1>4. a \in Spots /\ a.at = p /\ a.at <= End(t)
  BY TextLength DEF Spots
<1> HIDE DEF quoted, args, a
<1>5. args[a] \in a.at .. End(t)
  BY <1>1, <1>3, <1>4, ArgumentsRange
<1> QED
  BY <1>2, <1>4, <1>5

(* Behind the name of an annotation, and behind all annotations.           *)
IsName(f, t) ==
    f = [q \in Nat |-> CASE Look(t, q) # "." -> q
                         [] Look(t, q) = "." /\ Look(t, q + 1) \notin WordChar -> q + 1
                         [] OTHER -> f[FirstNot(t, q + 1, WordChar)]]

LEMMA WordEndIs ==
    ASSUME NEW t \in Seq(STRING), NEW q \in Nat, Look(t, q + 1) \in WordChar
    PROVE  q + 1 <= Len(t) /\ FirstNot(t, q + 1, WordChar) \in q + 1 .. End(t)
<1>1. Look(t, q + 1) # "nul"
  BY DEF WordChar, Letters
<1>2. q + 1 <= Len(t)
  BY <1>1, LookIs
<1>3. q + 1 \in 1 .. End(t)
  BY <1>2, TextLength
<1> QED
  BY <1>2, <1>3, FirstNotIs

LEMMA NameIs ==
    ASSUME NEW t \in Seq(STRING)
    PROVE  /\ \E f : IsName(f, t)
           /\ \A f : IsName(f, t) =>
                \A q \in Nat : q <= End(t) => f[q] \in q .. End(t)
<1> DEFINE stop == {q \in Nat : Look(t, q) # "." \/ Look(t, q + 1) \notin WordChar}
           val  == [q \in Nat |-> IF Look(t, q) # "." THEN q ELSE q + 1]
           next == [q \in Nat |-> FirstNot(t, q + 1, WordChar)]
<1>1. \A q \in Nat : Look(t, q) = "." => q <= Len(t) /\ q + 1 \in q .. End(t)
  BY LookIs, TextLength
<1>2. ASSUME NEW q \in Nat, q \notin stop PROVE q <= Len(t) /\ next[q] \in q + 1 .. End(t)
  BY <1>1, <1>2, WordEndIs
<1>3. Walks(t, stop, val, next, {})
  <2>1. \A q \in Nat : q <= End(t) /\ q \in stop => val[q] \in q .. End(t)
    BY <1>1, TextLength
  <2> QED
    BY <1>2, <2>1 DEF Walks
<1>4. ASSUME NEW f PROVE GoesOnTo(f, Nat, stop, val, next) <=> IsName(f, t)
  <2>1. \A q \in Nat : (IF q \in stop THEN val[q] ELSE f[next[q]]) =
                      CASE Look(t, q) # "." -> q
                        [] Look(t, q) = "." /\ Look(t, q + 1) \notin WordChar -> q + 1
                        [] OTHER -> f[FirstNot(t, q + 1, WordChar)]
    <3> TAKE q \in Nat
    <3>1. CASE Look(t, q) # "."
      BY <3>1
    <3>2. CASE Look(t, q) = "." /\ Look(t, q + 1) \notin WordChar
      BY <3>2
    <3>3. CASE Look(t, q) = "." /\ Look(t, q + 1) \in WordChar
      BY <3>3
    <3> QED
      BY <3>1, <3>2, <3>3
  <2>2. [q \in Nat |-> IF q \in stop THEN val[q] ELSE f[next[q]]] =
        [q \in Nat |-> CASE Look(t, q) # "." -> q
                         [] Look(t, q) = "." /\ Look(t, q + 1) \notin WordChar -> q + 1
                         [] OTHER -> f[FirstNot(t, q + 1, WordChar)]]
    <3> HIDE DEF stop, val, next
    <3> QED
      BY <2>1
  <2> HIDE DEF stop, val, next
  <2> QED
    BY <2>2, Zenon DEF GoesOnTo, IsName
<1> HIDE DEF stop, val, next
<1>5. \E f : IsName(f, t)
  BY <1>3, <1>4, WalkExists
<1>6. ASSUME NEW f, IsName(f, t)
      PROVE  \A q \in Nat : q <= End(t) => f[q] \in {} \cup (q .. End(t))
  BY <1>3, <1>4, <1>6, WalkRange
<1> QED
  BY <1>5, <1>6

BehindAnnotation(name, t, q) ==
    LET n == name[FirstNot(t, q + 1, WordChar)]
        r == IF Look(t, n) = "(" THEN Arguments(t, n + 1) ELSE n
    IN  FirstNot(t, r, Space)

IsAnnotated(f, name, t) ==
    f = [q \in Nat |-> CASE Look(t, q) # "@" -> q
                         [] Look(t, q) = "@" /\ Look(t, q + 1) \notin WordChar -> Nowhere
                         [] OTHER -> f[BehindAnnotation(name, t, q)]]

LEMMA AnnotatedIs ==
    ASSUME NEW t \in Seq(STRING), NEW name, IsName(name, t)
    PROVE  /\ \E f : IsAnnotated(f, name, t)
           /\ \A f : IsAnnotated(f, name, t) =>
                \A q \in Nat : q <= End(t) => f[q] \in {Nowhere} \cup (q .. End(t))
<1> DEFINE stop == {q \in Nat : Look(t, q) # "@" \/ Look(t, q + 1) \notin WordChar}
           val  == [q \in Nat |-> IF Look(t, q) # "@" THEN q ELSE Nowhere]
           next == [q \in Nat |-> BehindAnnotation(name, t, q)]
<1>2. ASSUME NEW q \in Nat, q \notin stop PROVE q <= Len(t) /\ next[q] \in q + 1 .. End(t)
  <2> DEFINE w == FirstNot(t, q + 1, WordChar)
             n == name[w]
             r == IF Look(t, n) = "(" THEN Arguments(t, n + 1) ELSE n
  <2>1. q + 1 <= Len(t) /\ w \in q + 1 .. End(t)
    BY <1>2, WordEndIs
  <2>2. next[q] = FirstNot(t, r, Space)
    BY DEF BehindAnnotation
  <2> HIDE DEF w
  <2>3. w \in Nat /\ w <= End(t) /\ n \in w .. End(t)
    BY <2>1, TextLength, NameIs
  <2> HIDE DEF n
  <2>4. n \in Nat /\ n \in q + 1 .. End(t)
    BY <2>1, <2>3, TextLength
  <2>5. Look(t, n) = "(" => n + 1 \in 1 .. End(t)
    BY <2>4, LookIs
  <2>6. r \in n .. End(t)
    <3>1. CASE Look(t, n) = "("
      <4>1. Arguments(t, n + 1) \in n + 1 .. End(t)
        BY <2>5, <3>1, ArgumentsIs
      <4> QED
        BY <2>4, <3>1, <4>1, TextLength
    <3>2. CASE Look(t, n) # "("
      BY <2>4, <3>2, TextLength
    <3> QED
      BY <3>1, <3>2
  <2> HIDE DEF r
  <2>7. r \in 1 .. End(t)
    BY <2>4, <2>6, TextLength
  <2>8. FirstNot(t, r, Space) \in r .. End(t)
    BY <2>7, FirstNotIs
  <2> HIDE DEF next
  <2> QED
    BY <2>1, <2>2, <2>4, <2>6, <2>8, TextLength
<1>3. Walks(t, stop, val, next, {Nowhere})
  <2>1. \A q \in Nat : q <= End(t) /\ q \in stop => val[q] \in {Nowhere} \cup (q .. End(t))
    BY TextLength
  <2> HIDE DEF next
  <2> QED
    BY <1>2, <2>1 DEF Walks
<1>4. ASSUME NEW f PROVE GoesOnTo(f, Nat, stop, val, next) <=> IsAnnotated(f, name, t)
  <2>1. \A q \in Nat : (IF q \in stop THEN val[q] ELSE f[next[q]]) =
                      CASE Look(t, q) # "@" -> q
                        [] Look(t, q) = "@" /\ Look(t, q + 1) \notin WordChar -> Nowhere
                        [] OTHER -> f[BehindAnnotation(name, t, q)]
    <3> TAKE q \in Nat
    <3>1. CASE Look(t, q) # "@"
      BY <3>1
    <3>2. CASE Look(t, q) = "@" /\ Look(t, q + 1) \notin WordChar
      BY <3>2
    <3>3. CASE Look(t, q) = "@" /\ Look(t, q + 1) \in WordChar
      <4> DEFINE n == BehindAnnotation(name, t, q)
      <4>1. q \notin stop /\ next[q] = n
        BY <3>3
      <4> HIDE DEF stop, next, n
      <4> QED
        BY <3>3, <4>1 DEF n
    <3> QED
      BY <3>1, <3>2, <3>3
  <2>2. [q \in Nat |-> IF q \in stop THEN val[q] ELSE f[next[q]]] =
        [q \in Nat |-> CASE Look(t, q) # "@" -> q
                         [] Look(t, q) = "@" /\ Look(t, q + 1) \notin WordChar -> Nowhere
                         [] OTHER -> f[BehindAnnotation(name, t, q)]]
    <3> HIDE DEF stop, val, next
    <3> QED
      BY <2>1
  <2> HIDE DEF stop, val, next
  <2> QED
    BY <2>2, Zenon DEF GoesOnTo, IsAnnotated
<1> HIDE DEF stop, val, next
<1>5. \E f : IsAnnotated(f, name, t)
  BY <1>3, <1>4, WalkExists
<1>6. ASSUME NEW f, IsAnnotated(f, name, t)
      PROVE  \A q \in Nat : q <= End(t) => f[q] \in {Nowhere} \cup (q .. End(t))
  BY <1>3, <1>4, <1>6, WalkRange
<1> QED
  BY <1>5, <1>6

LEMMA AnnotationIs ==
    ASSUME NEW t \in Seq(STRING), NEW p \in 1 .. End(t)
    PROVE  check_annotation_then_constructor(t, p) \in {Nowhere} \cup (p .. End(t))
<1> DEFINE name == CHOOSE f : IsName(f, t)
           past == CHOOSE f : IsAnnotated(f, name, t)
           q    == past[p]
<1>1. IsName(name, t)
  BY NameIs, Zenon
<1>2. check_annotation_then_constructor(t, p) =
        CASE q = Nowhere -> Nowhere
          [] q # Nowhere /\ Look(t, q) \in WordChar \ {"c"} ->
               check_modifier_then_constructor(t, q)
          [] OTHER -> IF IsWord(t, q, "c", "onstructor") THEN q + 2 ELSE Nowhere
  BY DEF check_annotation_then_constructor, IsAnnotated, IsName, BehindAnnotation
<1>3. IsAnnotated(past, name, t)
  <2> HIDE DEF name
  <2>1. \E f : IsAnnotated(f, name, t)
    BY <1>1, AnnotatedIs
  <2> QED
    BY <2>1, Zenon
<1> HIDE DEF name, past
<1>4. q \in {Nowhere} \cup (p .. End(t))
  BY <1>1, <1>3, AnnotatedIs, TextLength
<1> HIDE DEF q
<1>5. CASE q = Nowhere
  BY <1>2, <1>5
<1>6. CASE q # Nowhere
  <2>1. q \in p .. End(t) /\ q \in 1 .. End(t)
    BY <1>4, <1>6, TextLength
  <2>2. check_modifier_then_constructor(t, q) \in {Nowhere} \cup (q .. End(t))
    BY <2>1, ModifierIs
  <2>3. IsWord(t, q, "c", "onstructor") => q + 2 \in q .. End(t)
    BY <2>1, WordIs, TextLength
  <2>4. check_annotation_then_constructor(t, p) \in {Nowhere} \cup (q .. End(t))
    BY <1>2, <1>6, <2>2, <2>3
  <2> QED
    BY <2>1, <2>4, TextLength
<1> QED
  BY <1>5, <1>6

(* Behind the comments and the space after a line comment.                 *)
BehindComment(t, q) ==
    IF Look(t, q + 1) = "/"
      THEN FirstIn(t, q + 2, {"lf", "cr", "nul"})
      ELSE ReadComment(t, q + 2, FALSE).at

IsPast(f, t) ==
    f = [q \in Nat |->
           IF Look(t, q) = "/" /\ Look(t, q + 1) \in {"/", "*"}
             THEN f[FirstNot(t, BehindComment(t, q), Space)]
             ELSE q]

LEMMA PastUnfolds ==
    ASSUME NEW t \in Seq(STRING)
    PROVE  \E past : /\ IsPast(past, t)
                     /\ \A q : PastComments(t, q) = past[q]
                     /\ \A q \in Nat : q <= End(t) => past[q] \in q .. End(t)
<1> DEFINE stop == {q \in Nat : ~(Look(t, q) = "/" /\ Look(t, q + 1) \in {"/", "*"})}
           val  == [q \in Nat |-> q]
           next == [q \in Nat |-> FirstNot(t, BehindComment(t, q), Space)]
           past == CHOOSE f : IsPast(f, t)
<1>1. ASSUME NEW q \in Nat, q \notin stop PROVE q <= Len(t) /\ next[q] \in q + 1 .. End(t)
  <2> DEFINE b == BehindComment(t, q)
  <2>1. q + 1 <= Len(t) /\ q <= Len(t) /\ q + 2 \in 1 .. End(t)
    BY <1>1, LookIs, TextLength
  <2>2. b \in q + 2 .. End(t)
    BY <2>1, FirstInIs, ReadCommentIs DEF BehindComment
  <2> HIDE DEF b
  <2>3. b \in 1 .. End(t) /\ q + 1 <= b
    BY <2>2, TextLength
  <2>4. FirstNot(t, b, Space) \in b .. End(t)
    BY <2>3, FirstNotIs
  <2>5. FirstNot(t, b, Space) \in q + 1 .. End(t)
    BY <2>3, <2>4, TextLength
  <2> QED
    BY <2>1, <2>5 DEF b
<1>2. Walks(t, stop, val, next, {})
  <2>1. \A q \in Nat : q <= End(t) /\ q \in stop => val[q] \in q .. End(t)
    BY TextLength
  <2> HIDE DEF next
  <2> QED
    BY <1>1, <2>1 DEF Walks
<1>3. ASSUME NEW f PROVE GoesOnTo(f, Nat, stop, val, next) <=> IsPast(f, t)
  <2>1. [q \in Nat |-> IF q \in stop THEN val[q] ELSE f[next[q]]] =
        [q \in Nat |->
           IF Look(t, q) = "/" /\ Look(t, q + 1) \in {"/", "*"}
             THEN f[FirstNot(t, BehindComment(t, q), Space)]
             ELSE q]
    OBVIOUS
  <2> HIDE DEF stop, val, next
  <2> QED
    BY <2>1, Zenon DEF GoesOnTo, IsPast
<1>4. \A q : PastComments(t, q) = past[q]
  BY DEF PastComments, IsPast, BehindComment
<1> HIDE DEF stop, val, next
<1>5. IsPast(past, t)
  <2>1. \E f : IsPast(f, t)
    BY <1>2, <1>3, WalkExists
  <2> QED
    BY <2>1, Zenon
<1> HIDE DEF past
<1>6. \A q \in Nat : q <= End(t) => past[q] \in {} \cup (q .. End(t))
  BY <1>2, <1>3, <1>5, WalkRange
<1> QED
  BY <1>4, <1>5, <1>6

LEMMA PastCommentsIs ==
    ASSUME NEW t \in Seq(STRING), NEW p \in 1 .. End(t)
    PROVE  PastComments(t, p) \in p .. End(t)
  BY PastUnfolds, TextLength

LEMMA LineCommentRight ==
    ASSUME NEW t \in Seq(STRING), NEW p \in 1 .. End(t), NEW st,
           NEW L, Placed(t, p, L), Tidy(t, L)
    PROVE  Right(t, p, AfterLineComment(t, L, st), st)
<1> DEFINE n == PastComments(t, L.at)
<1>1. n \in L.at .. End(t) /\ L.at \in 1 .. End(t)
  <2>1. L.at \in 1 .. End(t)
    BY TextLength DEF Placed
  <2> QED
    BY <2>1, PastCommentsIs
<1> HIDE DEF n
<1>2. ASSUME NEW k \in Nat PROVE Right(t, p, Refuse(SkipTo(L, Past(t, n, k)), st), st)
  <2>1. n \in 1 .. End(t)
    BY <1>1, TextLength
  <2>2. Past(t, n, k) \in n .. End(t)
    BY <2>1, PastIs
  <2>3. Past(t, n, k) \in L.at .. End(t)
    BY <1>1, <2>2, TextLength
  <2>4. Placed(t, p, SkipTo(L, Past(t, n, k))) /\ Tidy(t, SkipTo(L, Past(t, n, k)))
    BY <2>3, SkipPlaced
  <2> QED
    BY <2>4, RefuseRight
<1>3. Right(t, p, Accept(L, "AUTOMATIC_SEMICOLON", st), st)
  BY AcceptRight DEF Plainly, Tokens
<1>4. /\ Right(t, p, Refuse(SkipTo(L, Past(t, n, 0)), st), st)
      /\ Right(t, p, Refuse(SkipTo(L, Past(t, n, 1)), st), st)
      /\ Right(t, p, Refuse(SkipTo(L, Past(t, n, 2)), st), st)
  BY <1>2
<1> QED
  BY <1>3, <1>4, Zenon DEF AfterLineComment, n

LEMMA BlockCommentRight ==
    ASSUME NEW t \in Seq(STRING), NEW p \in 1 .. End(t), NEW st,
           NEW L, Placed(t, p, L), L.from = L.at,
           \A i \in p .. L.at - 1 : t[i] \in Space,
           Look(t, L.at) = "/", Look(t, L.at + 1) = "*"
    PROVE  Right(t, p, AfterBlockComment(t, L, st), st)
<1> DEFINE q    == L.at
           body == ReadComment(t, q + 2, FALSE)
           B    == [L EXCEPT !.at = body.at]
           M    == SkipSpace(t, B)
           n    == M.at
           Behind2(k) == SkipTo(Mark(M), Past(t, n, k))
<1>1. q \in Nat /\ q \in p .. End(t)
  BY TextLength DEF Placed
<1> HIDE DEF q
<1>2. /\ q + 1 <= Len(t) /\ q <= Len(t) /\ t[q] = "/" /\ t[q + 1] = "*"
      /\ q + 2 \in 1 .. End(t)
  <2>1. Look(t, q) = "/" /\ Look(t, q + 1) = "*"
    BY DEF q
  <2>2. q <= Len(t) /\ q + 1 <= End(t) /\ Look(t, q) = t[q]
    BY <1>1, <2>1, LookIs
  <2>3. q + 1 <= Len(t) /\ (q + 1) + 1 <= End(t) /\ Look(t, q + 1) = t[q + 1]
    BY <1>1, <2>1, LookIs
  <2> QED
    BY <1>1, <2>1, <2>2, <2>3, TextLength
<1>3. /\ body.at \in q + 2 .. End(t)
      /\ body.at = CommentEnd(t, q + 2)
  BY <1>2, ReadCommentIs
<1> HIDE DEF body
<1>4. Placed(t, p, B) /\ B.at = body.at /\ B.from = q
  <2>1. body.at \in L.at .. End(t)
    BY <1>1, <1>3, TextLength DEF q
  <2> QED
    BY <2>1, MovePlaced DEF q
<1> HIDE DEF B
<1>5. /\ Placed(t, p, M) /\ n \in B.at .. End(t)
      /\ M.from = IF n = B.at THEN B.from ELSE n
      /\ n = FirstNot(t, B.at, Space)
  <2>1. FirstNot(t, B.at, Space) \in B.at .. End(t)
    <3>1. B.at \in 1 .. End(t)
      BY <1>1, <1>3, <1>4, TextLength
    <3> QED
      BY <3>1, FirstNotIs
  <2>2. n = FirstNot(t, B.at, Space)
    BY <1>4, <2>1, SkipPlaced DEF SkipSpace
  <2> QED
    BY <1>4, <2>2, SkipSpacePlaced
<1>6. Placed(t, p, Mark(M)) /\ Mark(M).at = n /\ Mark(M).from = M.from /\ Mark(M).to = n
  BY <1>5, MarkPlaced
<1> HIDE DEF M
<1>7. n \in 1 .. End(t) /\ n \in Nat /\ p \in Nat
  BY <1>5, TextLength DEF Placed
<1>8. ASSUME NEW k \in Nat
      PROVE  /\ Placed(t, p, Behind2(k)) /\ Behind2(k).to = n
             /\ Behind2(k).from = M.from \/ (Behind2(k).from \in Nat /\ Behind2(k).from > n)
  <2> DEFINE m == Past(t, n, k)
  <2>1. m \in n .. End(t)
    BY <1>7, PastIs
  <2> HIDE DEF m
  <2>2. /\ Placed(t, p, SkipTo(Mark(M), m))
        /\ SkipTo(Mark(M), m).from = IF m = n THEN M.from ELSE m
        /\ SkipTo(Mark(M), m).to = n
    BY <1>6, <2>1, SkipPlaced
  <2>3. m # n => m \in Nat /\ m > n
    BY <1>7, <2>1, TextLength
  <2> QED
    BY <2>2, <2>3 DEF m
<1>9. ASSUME NEW k \in Nat
      PROVE  Right(t, p, Accept(Behind2(k), "MULTILINE_COMMENT", st), st)
  <2> DEFINE K == Behind2(k)
             r == Accept(K, "MULTILINE_COMMENT", st)
             x == Extent(r)
  <2> SUFFICES Right(t, p, r, st)
    OBVIOUS
  <2>1. Placed(t, p, K) /\ K.to = n /\ (K.from = M.from \/ (K.from \in Nat /\ K.from > n))
    BY <1>8
  <2> HIDE DEF K
  <2>2. r.token = "MULTILINE_COMMENT" /\ r.lexer = K
    BY DEF Accept
  <2>3. x.to = n /\ x.from = IF K.from > n THEN n ELSE K.from
    BY <1>7, <2>1, <2>2 DEF Extent, Nowhere
  <2> HIDE DEF x, r
  <2>4. CASE n = B.at /\ K.from = M.from
    <3>1. x.from = q /\ x.to = CommentEnd(t, q + 2) /\ x.to \in Nat /\ x.to > q
      BY <1>1, <1>3, <1>4, <1>5, <1>7, <2>3, <2>4, TextLength
    <3>2. IsWholeComment(t, p, x)
      <4>1. x.from \in 1 .. q /\ q < Len(t)
        BY <1>1, <1>2, <3>1, TextLength
      <4>2. \A i \in x.from .. q - 1 : ~(t[i] = "/" /\ Look(t, i + 1) = "*")
        BY <1>1, <3>1
      <4> QED
        BY <1>1, <1>2, <3>1, <4>1, <4>2, FilledComment
    <3> QED
      BY <2>1, <2>2, <3>2 DEF Right, NoToken, x
  <2>5. CASE ~(n = B.at /\ K.from = M.from)
    <3>1. x.from = x.to /\ x.to \in Nat
      BY <1>5, <1>7, <2>1, <2>3, <2>5
    <3>2. x.to = FirstNot(t, CommentEnd(t, q + 2), Space)
      BY <1>3, <1>4, <1>5, <2>3
    <3>3. IsWholeComment(t, p, x)
      <4>1. p \in 1 .. q /\ q < Len(t)
        BY <1>1, <1>2, TextLength
      <4>2. \A i \in p .. q - 1 : t[i] \in Space
        BY DEF q
      <4> QED
        BY <1>1, <1>2, <3>1, <3>2, <4>1, <4>2, EmptyComment
    <3> QED
      BY <2>1, <2>2, <3>3 DEF Right, NoToken, x
  <2> QED
    BY <2>4, <2>5
<1>10. Right(t, p, Accept(M, "AUTOMATIC_SEMICOLON", st), st)
  BY <1>5, AcceptRight DEF Plainly, Tokens
<1>11. Right(t, p, Accept(Behind2(1), "AUTOMATIC_SEMICOLON", st), st)
  <2>1. Placed(t, p, Behind2(1))
    BY <1>8
  <2> HIDE DEF Behind2
  <2> QED
    BY <2>1, AcceptRight DEF Plainly, Tokens
<1>12. /\ Right(t, p, Accept(Behind2(0), "MULTILINE_COMMENT", st), st)
       /\ Right(t, p, Accept(Behind2(1), "MULTILINE_COMMENT", st), st)
       /\ Right(t, p, Accept(Behind2(2), "MULTILINE_COMMENT", st), st)
  BY <1>9
<1> QED
  BY <1>10, <1>11, <1>12, Zenon DEF AfterBlockComment, M, B, body, q

LEMMA KeywordRight ==
    ASSUME NEW t \in Seq(STRING), NEW p \in 1 .. End(t), NEW st,
           NEW L, Placed(t, p, L), Tidy(t, L), Look(t, L.at) = "c"
    PROVE  Right(t, p, Constructor(t, L, st), st)
<1> DEFINE q == L.at
           k == Keyword(t, q, "onstructor")
           M == [L EXCEPT !.at = k]
<1>1. q \in Nat /\ q \in p .. End(t) /\ L.from \in Nat /\ L.from <= q
  BY TextLength DEF Placed
<1> HIDE DEF q
<1>2. /\ q <= Len(t) /\ t[q] = "c" /\ k \in {q + 1, q + 2} /\ k <= End(t)
      /\ k = q + 2 => t[q + 1] = "onstructor"
  <2>1. Look(t, q) = "c"
    BY DEF q
  <2>2. q <= Len(t) /\ Look(t, q) = t[q]
    BY <1>1, <2>1, LookIs
  <2>3. /\ k \in {q + 1, q + 2} /\ k <= End(t)
        /\ k = q + 2 => Look(t, q + 1) = "onstructor"
    BY <1>1, <2>1, KeywordIs
  <2>4. Look(t, q + 1) = "onstructor" => Look(t, q + 1) = t[q + 1]
    BY <1>1, LookIs
  <2> QED
    BY <2>1, <2>2, <2>3, <2>4
<1> HIDE DEF k
<1>3. Placed(t, p, M) /\ M.at = k /\ M.from = L.from
  <2>1. k \in L.at .. End(t)
    BY <1>1, <1>2, TextLength DEF q
  <2> QED
    BY <2>1, MovePlaced
<1> HIDE DEF M
<1>4. Tidy(t, M)
  <2>1. ASSUME NEW i \in M.from .. M.at - 1
        PROVE  t[i] # "dq" /\ ~(t[i] = "/" /\ Look(t, i + 1) = "*")
    <3>1. i < q \/ i = q \/ (i = q + 1 /\ k = q + 2)
      BY <1>1, <1>2, <1>3
    <3>2. CASE i < q
      <4>1. i \in L.from .. L.at - 1
        BY <1>1, <1>3, <3>2 DEF q
      <4>2. Look(t, L.at) # "nul"
        OBVIOUS
      <4> QED
        BY <4>1, <4>2 DEF Tidy
    <3>3. CASE i = q
      BY <1>2, <3>3
    <3>4. CASE i = q + 1 /\ k = q + 2
      BY <1>2, <3>4
    <3> QED
      BY <3>1, <3>2, <3>3, <3>4
  <2> QED
    BY <2>1 DEF Tidy
<1>5. Right(t, p, Refuse(M, st), st)
  BY <1>3, <1>4, RefuseRight
<1>6. Right(t, p, Accept(Mark(Advance(t, L, 2)), "PRIMARY_CONSTRUCTOR_KEYWORD", st), st)
  <2>1. Placed(t, p, Advance(t, L, 2))
    BY AdvancePlaced
  <2>2. Placed(t, p, Mark(Advance(t, L, 2)))
    BY <2>1, MarkPlaced
  <2> QED
    BY <2>2, AcceptRight DEF Plainly, Tokens
<1> QED
  BY <1>5, <1>6 DEF Constructor, M, k, q

LEMMA LineEndRight ==
    ASSUME NEW t \in Seq(STRING), NEW p \in 1 .. End(t), NEW st, NEW V,
           NEW L, Placed(t, p, L), L.from = L.at,
           \A i \in p .. L.at - 1 : t[i] \in Space
    PROVE  Right(t, p, AfterLineEnd(t, L, st, V), st)
<1> DEFINE q == L.at
           header == IF Look(t, q) = "@"
                       THEN check_annotation_then_constructor(t, q)
                       ELSE check_modifier_then_constructor(t, q)
<1>1. q \in Nat /\ q \in 1 .. End(t) /\ q \in p .. End(t)
  BY TextLength DEF Placed
<1>2. Tidy(t, L)
  BY <1>1 DEF Tidy
<1>3. ASSUME NEW k \in L.at .. End(t) PROVE Right(t, p, Refuse(SkipTo(L, k), st), st)
  BY <1>2, SkipPlaced, RefuseRight
<1>4. Right(t, p, Refuse(SkipTo(L, q), st), st)
  BY <1>1, <1>3, TextLength
<1>5. Look(t, q) # "nul" => Right(t, p, Refuse(SkipTo(L, q + 1), st), st)
  BY <1>1, <1>3, LookIs, TextLength
<1>6. header # Nowhere => Right(t, p, Refuse(SkipTo(L, header), st), st)
  <2>1. header \in {Nowhere} \cup (q .. End(t))
    BY <1>1, AnnotationIs, ModifierIs
  <2> HIDE DEF header
  <2> QED
    BY <1>3, <2>1
<1>7. ASSUME NEW S, Continues(t, q, S), S \subseteq DOMAIN Rest
      PROVE  Right(t, p, Refuse(SkipTo(L, q + 2), st), st)
  <2>1. Rest[Look(t, q)] # "nul" /\ IsWord(t, q, Look(t, q), Rest[Look(t, q)])
    BY <1>7 DEF Continues, Rest
  <2>2. q + 2 <= End(t)
    BY <1>1, <2>1, WordIs
  <2> QED
    BY <1>1, <1>3, <2>2, TextLength
<1>8. Right(t, p, Accept(L, "AUTOMATIC_SEMICOLON", st), st)
  BY AcceptRight DEF Plainly, Tokens
<1>9. Right(t, p, Accept(Mark(Advance(t, L, 1)), "AUTOMATIC_SEMICOLON", st), st)
  <2>1. Placed(t, p, Advance(t, L, 1))
    BY AdvancePlaced
  <2>2. Placed(t, p, Mark(Advance(t, L, 1)))
    BY <2>1, MarkPlaced
  <2> QED
    BY <2>2, AcceptRight DEF Plainly, Tokens
<1>10. ASSUME Look(t, q) = "/", Look(t, q + 1) # "*"
       PROVE  Right(t, p, Refuse(Advance(t, L, 1), st), st)
  <2> DEFINE M == Advance(t, L, 1)
  <2>1. q + 1 <= End(t) /\ t[q] = "/"
    BY <1>1, <1>10, LookIs
  <2>2. Placed(t, p, M) /\ M.at = q + 1 /\ M.from = q
    <3>1. Placed(t, p, M) /\ M.at = Past(t, q, 1) /\ M.from = q
      BY AdvancePlaced
    <3>2. Past(t, q, 1) = q + 1
      BY <1>1, <2>1, PastIs
    <3> QED
      BY <3>1, <3>2
  <2> HIDE DEF M
  <2>3. Tidy(t, M)
    BY <1>1, <1>10, <2>1, <2>2 DEF Tidy
  <2>4. Right(t, p, Refuse(M, st), st)
    BY <2>2, <2>3, RefuseRight
  <2> QED
    BY <2>4 DEF M
<1>11. Right(t, p, AfterLineComment(t, L, st), st)
  BY <1>2, LineCommentRight
<1>12. Look(t, q) = "/" /\ Look(t, q + 1) = "*" =>
         Right(t, p, AfterBlockComment(t, L, st), st)
  BY BlockCommentRight
<1>13. Look(t, q) = "c" => Right(t, p, Constructor(t, L, st), st)
  BY <1>2, KeywordRight
<1>14. NotEqual(t, q) => Look(t, q) # "nul"
  BY DEF NotEqual
<1>15. Continues(t, q, DOMAIN Rest) => Right(t, p, Refuse(SkipTo(L, q + 2), st), st)
  BY <1>7
<1> HIDE DEF header
<1>16. /\ Look(t, q) = "/" /\ Look(t, q + 1) \notin {"/", "*"} =>
            Right(t, p, Refuse(Advance(t, L, 1), st), st)
       /\ NotEqual(t, q) => Right(t, p, Refuse(SkipTo(L, q + 1), st), st)
       /\ Right(t, p, IF header # Nowhere THEN Refuse(SkipTo(L, header), st)
                      ELSE Accept(L, "AUTOMATIC_SEMICOLON", st), st)
       /\ Look(t, q) = "c" =>
            Right(t, p, IF IsWord(t, q, "c", "onstructor") THEN Constructor(t, L, st)
                        ELSE Accept(L, "AUTOMATIC_SEMICOLON", st), st)
  BY <1>5, <1>6, <1>8, <1>10, <1>13, <1>14
<1> QED
  BY <1>4, <1>8, <1>9, <1>11, <1>12, <1>15, <1>16, Zenon DEF AfterLineEnd, header

LEMMA SemicolonRight ==
    ASSUME NEW t \in Seq(STRING), NEW p \in 1 .. End(t), NEW st, NEW V,
           NEW L0, Placed(t, p, L0), Tidy(t, L0), L0.at = p
    PROVE  Right(t, p, scan_automatic_semicolon(t, L0, st, V), st)
<1> DEFINE q == FirstNot(t, L0.at, {"sp"})
           N == Mark(L0)
           L == SkipTo(N, q)
           S == SkipSpace(t, L)
<1>1. L0.at \in 1 .. End(t)
  BY TextLength DEF Placed
<1>2. /\ q \in L0.at .. End(t) /\ q \in Nat
      /\ \A i \in L0.at .. q - 1 : t[i] \in {"sp"}
  BY <1>1, FirstNotIs, TextLength
<1> HIDE DEF q
<1>3. Placed(t, p, N) /\ Tidy(t, N) /\ N.at = L0.at
  BY MarkPlaced
<1> HIDE DEF N
<1>4. Placed(t, p, L) /\ Tidy(t, L) /\ L.at = q
  BY <1>2, <1>3, SkipPlaced
<1> HIDE DEF L
<1>5. Right(t, p, Refuse(L, st), st) /\ Right(t, p, Accept(L, "AUTOMATIC_SEMICOLON", st), st)
  BY <1>4, AcceptRight, RefuseRight DEF Plainly, Tokens
<1>6. Right(t, p, Accept(Mark(Advance(t, L, 1)), "AUTOMATIC_SEMICOLON", st), st)
  <2>1. Placed(t, p, Advance(t, L, 1))
    BY <1>4, AdvancePlaced
  <2>2. Placed(t, p, Mark(Advance(t, L, 1)))
    BY <2>1, MarkPlaced
  <2> QED
    BY <2>2, AcceptRight DEF Plainly, Tokens
<1>7. ASSUME Look(t, q) \in LineEnd PROVE Right(t, p, AfterLineEnd(t, S, st, V), st)
  <2>1. Look(t, L.at) \in Space
    BY <1>4, <1>7 DEF LineEnd, Space
  <2>2. /\ Placed(t, p, S)
        /\ S.from = IF S.at = L.at THEN L.from ELSE S.at
        /\ S.at # L.at
    BY <1>4, <2>1, SkipSpacePlaced
  <2>3. \A i \in p .. S.at - 1 : t[i] \in Space
    <3> DEFINE n == FirstNot(t, q, Space)
    <3>1. q \in 1 .. End(t)
      BY <1>1, <1>2, TextLength
    <3>2. n \in q .. End(t) /\ \A i \in q .. n - 1 : t[i] \in Space
      BY <3>1, FirstNotIs
    <3>3. S.at = n
      BY <1>4, <3>2, SkipPlaced DEF SkipSpace
    <3> HIDE DEF n, S
    <3>4. ASSUME NEW i \in p .. S.at - 1 PROVE t[i] \in Space
      <4>1. i \in L0.at .. q - 1 \/ i \in q .. n - 1
        BY <1>2, <3>2, <3>3, <3>4, TextLength
      <4> QED
        BY <1>2, <3>2, <4>1 DEF Space
    <3> QED
      BY <3>4
  <2> HIDE DEF S
  <2>4. S.from = S.at
    BY <2>2
  <2> QED
    BY <2>2, <2>3, <2>4, LineEndRight
<1>8. ASSUME Look(t, q) = "i"
      PROVE  Right(t, p, Refuse(SkipTo(L, Keyword(t, q, "mport")), st), st)
  <2> DEFINE k == Keyword(t, q, "mport")
  <2>1. k \in {q + 1, q + 2} /\ k <= End(t)
    BY <1>2, <1>8, KeywordIs
  <2> HIDE DEF k
  <2>2. k \in L.at .. End(t)
    BY <1>2, <1>4, <2>1, TextLength
  <2>3. Placed(t, p, SkipTo(L, k)) /\ Tidy(t, SkipTo(L, k))
    BY <1>4, <2>2, SkipPlaced
  <2>4. Right(t, p, Refuse(SkipTo(L, k), st), st)
    BY <2>3, RefuseRight
  <2> QED
    BY <2>4 DEF k
<1>9. Look(t, q) = "i" =>
        Right(t, p, IF IsWord(t, q, "i", "mport")
                      THEN Accept(L, "AUTOMATIC_SEMICOLON", st)
                      ELSE Refuse(SkipTo(L, Keyword(t, q, "mport")), st), st)
  BY <1>5, <1>8
<1> QED
  BY <1>5, <1>6, <1>7, <1>9, Zenon DEF scan_automatic_semicolon, L, N, q

LEMMA SafeNavRight ==
    ASSUME NEW t \in Seq(STRING), NEW p \in 1 .. End(t), NEW st,
           NEW L0, Placed(t, p, L0)
    PROVE  /\ Placed(t, p, scan_safe_nav(t, L0, st).lexer)
           /\ scan_safe_nav(t, L0, st).token \in {NoToken, "SAFE_NAV"}
<1> DEFINE L == SkipSpace(t, Mark(L0))
           A == Advance(t, L, 1)
           M == SkipSpace(t, A)
           N == Mark(Advance(t, M, 1))
<1>1. Placed(t, p, Mark(L0))
  BY MarkPlaced
<1>2. Placed(t, p, L)
  BY <1>1, SkipSpacePlaced
<1> HIDE DEF L
<1>3. Placed(t, p, A)
  BY <1>2, AdvancePlaced
<1> HIDE DEF A
<1>4. Placed(t, p, M)
  BY <1>3, SkipSpacePlaced
<1> HIDE DEF M
<1>5. Placed(t, p, Advance(t, M, 1))
  BY <1>4, AdvancePlaced
<1>6. Placed(t, p, N)
  BY <1>5, MarkPlaced
<1> HIDE DEF N
<1>7. scan_safe_nav(t, L0, st) \in
        {Refuse(L, st), Refuse(M, st), Accept(N, "SAFE_NAV", st)}
  BY Zenon DEF scan_safe_nav, L, A, M, N
<1> QED
  BY <1>2, <1>4, <1>6, <1>7 DEF Refuse, Accept

LEMMA ImportDotRight ==
    ASSUME NEW t \in Seq(STRING), NEW p \in 1 .. End(t), NEW st,
           NEW L0, Placed(t, p, L0), Tidy(t, L0)
    PROVE  Right(t, p, scan_import_dot(t, L0, st), st)
<1> DEFINE A == Advance(t, Mark(L0), 1)
           M == SkipSpace(t, A)
           newline == \E q \in Mark(L0).at .. M.at - 1 : t[q] \in LineEnd
           word == newline /\ Look(t, M.at) = "i"
           K == SkipTo(M, Keyword(t, M.at, "mport"))
           N == IF word THEN K ELSE M
<1>1. Placed(t, p, Mark(L0))
  BY MarkPlaced
<1>2. Placed(t, p, A)
  BY <1>1, AdvancePlaced
<1> HIDE DEF A
<1>3. Placed(t, p, M)
  BY <1>2, SkipSpacePlaced
<1> HIDE DEF M
<1>4. Look(t, M.at) = "i" => Placed(t, p, K)
  <2> SUFFICES ASSUME Look(t, M.at) = "i" PROVE Placed(t, p, K)
    OBVIOUS
  <2> DEFINE m == M.at
             k == Keyword(t, m, "mport")
  <2>0. m \in Nat
    BY <1>3, TextLength DEF Placed
  <2> HIDE DEF m
  <2>1. k \in {m + 1, m + 2} /\ k <= End(t)
    BY <2>0, KeywordIs DEF m
  <2> HIDE DEF k
  <2>2. k \in M.at .. End(t)
    BY <2>0, <2>1, TextLength DEF m
  <2>3. Placed(t, p, SkipTo(M, k))
    BY <1>3, <2>2, SkipPlaced
  <2> QED
    BY <2>3 DEF k, m
<1>5. Placed(t, p, N)
  <2> HIDE DEF K, newline
  <2> QED
    BY <1>3, <1>4
<1> HIDE DEF N, newline, K
<1>6. Placed(t, p, Mark(N))
  BY <1>5, MarkPlaced
<1>7. /\ Right(t, p, Refuse(L0, st), st)
      /\ Right(t, p, Accept(N, "AUTOMATIC_SEMICOLON", st), st)
      /\ Right(t, p, Accept(Mark(N), "IMPORT_DOT", st), st)
  BY <1>5, <1>6, AcceptRight, RefuseRight DEF Plainly, Tokens
<1>8. scan_import_dot(t, L0, st) \in
        {Refuse(L0, st), Accept(N, "AUTOMATIC_SEMICOLON", st), Accept(Mark(N), "IMPORT_DOT", st)}
  BY Zenon DEF scan_import_dot, N, K, newline, M, A
<1> QED
  BY <1>7, <1>8

LEMMA LineSepIs ==
    ASSUME NEW t \in Seq(STRING), NEW p \in 1 .. End(t)
    PROVE  scan_line_sep(t, p) \in {Nowhere} \cup (p .. End(t))
<1> DEFINE q == FirstNot(t, p, {"sp"})
           r == FirstNot(t, q + 1, {"sp"})
<1>1. q \in p .. End(t) /\ q \in Nat
  BY FirstNotIs, TextLength
<1> HIDE DEF q
<1>2. CASE Look(t, q) = "lf"
  <2>1. q + 1 <= End(t)
    BY <1>1, <1>2, LookIs
  <2> QED
    BY <1>1, <1>2, <2>1, TextLength DEF scan_line_sep, q
<1>3. CASE Look(t, q) = "cr"
  <2>1. q + 1 <= End(t) /\ q + 1 \in 1 .. End(t)
    BY <1>1, <1>3, LookIs
  <2>2. r \in q + 1 .. End(t) /\ r \in Nat
    BY <2>1, FirstNotIs, TextLength
  <2>3. scan_line_sep(t, p) = IF Look(t, r) = "lf" THEN r + 1 ELSE r
    BY <1>3, Zenon DEF scan_line_sep, q
  <2> HIDE DEF r
  <2>4. Look(t, r) = "lf" => r + 1 <= End(t)
    BY <2>2, LookIs
  <2> QED
    BY <1>1, <2>2, <2>3, <2>4, TextLength
<1>4. CASE Look(t, q) \notin {"lf", "cr"}
  BY <1>4 DEF scan_line_sep, q
<1> QED
  BY <1>2, <1>3, <1>4

LEMMA ImportListRight ==
    ASSUME NEW t \in Seq(STRING), NEW p \in 1 .. End(t), NEW st,
           NEW L0, Placed(t, p, L0), Tidy(t, L0)
    PROVE  Right(t, p, scan_import_list_delimiter(t, L0, st), st)
<1> DEFINE L      == Mark(L0)
           first  == scan_line_sep(t, L.at)
           second == scan_line_sep(t, first)
           M      == [L EXCEPT !.at = second]
<1>1. Placed(t, p, L) /\ Tidy(t, L)
  BY MarkPlaced
<1> HIDE DEF L
<1>2. L.at \in 1 .. End(t)
  BY <1>1, TextLength DEF Placed
<1>3. first \in {Nowhere} \cup (L.at .. End(t))
  BY <1>2, LineSepIs
<1> HIDE DEF first
<1>4. /\ Right(t, p, Refuse(L, st), st)
      /\ Right(t, p, Accept(L, "IMPORT_LIST_DELIMITER", st), st)
  BY <1>1, AcceptRight, RefuseRight DEF Plainly, Tokens
<1>5. ASSUME first # Nowhere, second # Nowhere
      PROVE  Right(t, p, Accept(Mark(M), "IMPORT_LIST_DELIMITER", st), st)
  <2>1. first \in 1 .. End(t) /\ first \in L.at .. End(t)
    BY <1>2, <1>3, <1>5, TextLength
  <2>2. second \in {Nowhere} \cup (first .. End(t))
    BY <2>1, LineSepIs
  <2> HIDE DEF second
  <2>3. second \in L.at .. End(t)
    BY <1>2, <1>5, <2>1, <2>2, TextLength
  <2>4. Placed(t, p, M)
    BY <1>1, <2>3, MovePlaced
  <2>5. Placed(t, p, Mark(M))
    BY <2>4, MarkPlaced
  <2>6. Right(t, p, Accept(Mark(M), "IMPORT_LIST_DELIMITER", st), st)
    BY <2>5, AcceptRight DEF Plainly, Tokens
  <2> QED
    BY <2>6
<1> HIDE DEF second, M
<1>6. \/ scan_import_list_delimiter(t, L0, st) \in
           {Refuse(L, st), Accept(L, "IMPORT_LIST_DELIMITER", st)}
      \/ /\ first # Nowhere /\ second # Nowhere
         /\ scan_import_list_delimiter(t, L0, st) =
              Accept(Mark(M), "IMPORT_LIST_DELIMITER", st)
  <2>1. CASE Eof(t, L.at)
    BY <2>1, Zenon DEF scan_import_list_delimiter, L
  <2>2. CASE ~Eof(t, L.at) /\ first = Nowhere
    BY <2>2, Zenon DEF scan_import_list_delimiter, L, first
  <2>3. CASE ~Eof(t, L.at) /\ first # Nowhere
    BY <2>3, Zenon DEF scan_import_list_delimiter, L, first, second, M
  <2> QED
    BY <2>1, <2>2, <2>3
<1> QED
  BY <1>4, <1>5, <1>6

LEMMA EndsRight ==
    ASSUME NEW t, NEW p, NEW L, Placed(t, p, L), NEW st, NEW s
    PROVE  Right(t, p, Ends(L, s), st)
  BY DEF Right, Ends, Accept, Abort, NoToken

LEMMA ContentRight ==
    ASSUME NEW t \in Seq(STRING), NEW p \in 1 .. End(t), NEW st,
           NEW L, Placed(t, p, L), Tidy(t, L)
    PROVE  Right(t, p, scan_string_content(t, L, st), st)
<1> DEFINE triple == IsTriple(st)
           q      == ContentEnd(t, L.at, triple)
           M      == [L EXCEPT !.at = q]
           quotes == FirstNot(t, q, {"dq"})
           A1     == Advance(t, M, 1)
           Q      == [M EXCEPT !.at = quotes]
<1>1. L.at \in 1 .. End(t)
  BY TextLength DEF Placed
<1> HIDE DEF triple
<1>2. q \in L.at .. End(t)
  BY <1>1, ContentEndIs
<1> HIDE DEF q
<1>3. Placed(t, p, M) /\ M.at = q /\ M.from = L.from
  BY <1>2, MovePlaced
<1> HIDE DEF M
<1>4. \A n \in Nat : Placed(t, p, Advance(t, M, n)) /\ Placed(t, p, Mark(Advance(t, M, n)))
  BY <1>3, AdvancePlaced, MarkPlaced
<1>5. Placed(t, p, Mark(M)) /\ Placed(t, p, Advance(t, Mark(M), 2))
  <2>1. Placed(t, p, Mark(M))
    BY <1>3, MarkPlaced
  <2> QED
    BY <2>1, AdvancePlaced
<1>6. Placed(t, p, Q) /\ Placed(t, p, Mark(Q))
  <2>1. q \in 1 .. End(t)
    BY <1>1, <1>2, TextLength
  <2>2. quotes \in M.at .. End(t)
    BY <1>3, <2>1, FirstNotIs
  <2> HIDE DEF quotes
  <2>3. Placed(t, p, Q)
    BY <1>3, <2>2, MovePlaced
  <2> HIDE DEF Q
  <2> QED
    BY <2>3, MarkPlaced
<1> HIDE DEF quotes, Q
<1>7. Right(t, p, Refuse(L, st), st)
  BY RefuseRight
<1>8. Look(t, q) = "nul" => Right(t, p, Refuse(M, st), st)
  BY <1>3, RefuseRight DEF Tidy
<1>9. ASSUME Look(t, q) = "$", q = L.at PROVE Right(t, p, Refuse(A1, st), st)
  <2>1. q \in Nat /\ q \in 1 .. End(t) /\ L.from \in Nat
    BY <1>1, <1>2, TextLength DEF Placed
  <2>2. q + 1 <= End(t) /\ t[q] = "$"
    BY <1>9, <2>1, LookIs
  <2>3. Placed(t, p, A1) /\ A1.at = q + 1 /\ A1.from = L.from
    <3>1. Placed(t, p, A1) /\ A1.at = Past(t, q, 1) /\ A1.from = L.from
      BY <1>3, AdvancePlaced
    <3>2. Past(t, q, 1) = q + 1
      BY <2>1, <2>2, PastIs
    <3> QED
      BY <3>1, <3>2
  <2> HIDE DEF A1
  <2>4. Tidy(t, A1)
    <3>1. ASSUME NEW i \in A1.from .. A1.at - 1
          PROVE  t[i] # "dq" /\ ~(t[i] = "/" /\ Look(t, i + 1) = "*")
      <4>1. CASE i = q
        BY <2>2, <4>1
      <4>2. CASE i # q
        <5>1. i \in L.from .. L.at - 1 /\ Look(t, L.at) # "nul"
          BY <1>9, <2>1, <2>3, <4>2
        <5> QED
          BY <5>1 DEF Tidy
      <4> QED
        BY <4>1, <4>2
    <3> QED
      BY <3>1 DEF Tidy
  <2> QED
    BY <2>3, <2>4, RefuseRight
<1>10. \A N : Placed(t, p, N) => Right(t, p, Accept(N, "STRING_CONTENT", st), st)
  BY AcceptRight DEF Plainly, Tokens
<1>11. \A N : Placed(t, p, N) => Right(t, p, Ends(N, st), st)
  BY EndsRight
<1>12. Placed(t, p, Mark(Advance(t, M, 1))) /\ Placed(t, p, Mark(Advance(t, M, 3)))
  BY <1>4
<1>13. CASE st = <<>>
  BY <1>7, <1>13 DEF scan_string_content
<1>14. CASE st # <<>>
  <2>1. CASE Look(t, q) = "$"
    <3>1. CASE q = L.at
      <4>1. scan_string_content(t, L, st) \in
              {Refuse(A1, st), Accept(Mark(A1), "STRING_CONTENT", st)}
        BY <1>14, <2>1, <3>1, Zenon DEF scan_string_content, q, triple, M
      <4> QED
        BY <1>9, <1>10, <1>12, <2>1, <3>1, <4>1
    <3>2. CASE q # L.at
      <4>1. scan_string_content(t, L, st) = Accept(M, "STRING_CONTENT", st)
        BY <1>14, <2>1, <3>2, Zenon DEF scan_string_content, q, triple, M
      <4> QED
        BY <1>3, <1>10, <4>1
    <3> QED
      BY <3>1, <3>2
  <2>2. CASE Look(t, q) # "$"
    <3>1. \/ Look(t, q) = "nul" /\ scan_string_content(t, L, st) = Refuse(M, st)
          \/ scan_string_content(t, L, st) \in
               {Ends(Mark(Advance(t, M, 3)), st), Ends(Mark(Advance(t, M, 1)), st),
                Ends(Mark(Q), st),
                Accept(Mark(M), "STRING_CONTENT", st),
                Accept(Mark(Q), "STRING_CONTENT", st),
                Accept(Advance(t, Mark(M), 2), "STRING_CONTENT", st)}
      BY <1>14, <2>2, Zenon DEF scan_string_content, q, triple, M, Q, quotes
    <3> QED
      BY <1>5, <1>6, <1>8, <1>10, <1>11, <1>12, <3>1
  <2> QED
    BY <2>1, <2>2
<1> QED
  BY <1>13, <1>14

-----------------------------------------------------------------------------
(* The start of a literal, of one quote and of three.                      *)
LEMMA SingleRight ==
    ASSUME NEW t \in Seq(STRING), NEW p \in 1 .. End(t), NEW st,
           NEW L, Placed(t, p, L), Tidy(t, L), Look(t, L.at) = "dq",
           NEW N, Placed(t, p, N), N.from = L.from, N.to = L.at + 1
    PROVE  Right(t, p, Starts(N, st, "single"), st)
<1> DEFINE r == Starts(N, st, "single")
           x == Extent(r)
<1>1. r.lexer = N /\ (r.token = "abort" \/ (r.token = "STRING_START" /\ r.stack = Append(st, "single")))
  BY DEF Starts, Accept, Abort
<1> HIDE DEF r
<1>2. L.at \in Nat /\ L.from \in Nat /\ L.from <= L.at /\ L.from >= 1
  BY TextLength DEF Placed
<1>3. x.to = L.at + 1 /\ x.from = L.from
  BY <1>1, <1>2 DEF Extent, Nowhere
<1> HIDE DEF x
<1>4. DelimiterOf(t, x) = "single"
  <2>1. ASSUME x.to - x.from >= 3, \A i \in 1 .. 3 : t[x.to - i] = "dq" PROVE FALSE
    <3>1. t[x.to - 2] = "dq"
      BY <2>1
    <3>2. x.to - 2 = L.at - 1 /\ L.at - 1 \in L.from .. L.at - 1
      BY <1>2, <1>3, <2>1
    <3> QED
      BY <3>1, <3>2 DEF Tidy
  <2> QED
    BY <2>1 DEF DelimiterOf
<1>5. r.token = "STRING_START" => ShowsDelimiter(t, r, st)
  BY <1>1, <1>4 DEF ShowsDelimiter, x
<1>6. Right(t, p, r, st)
  BY <1>1, <1>5 DEF Right, NoToken
<1> QED
  BY <1>6 DEF r

LEMMA TripleRight ==
    ASSUME NEW t \in Seq(STRING), NEW p \in 1 .. End(t), NEW st,
           NEW L, Placed(t, p, L), t[L.at] = "dq", t[L.at + 1] = "dq", t[L.at + 2] = "dq",
           NEW N, Placed(t, p, N), N.from = L.from, N.to = L.at + 3
    PROVE  Right(t, p, Starts(N, st, "triple"), st)
<1> DEFINE r == Starts(N, st, "triple")
           x == Extent(r)
<1>1. r.lexer = N /\ (r.token = "abort" \/ (r.token = "STRING_START" /\ r.stack = Append(st, "triple")))
  BY DEF Starts, Accept, Abort
<1> HIDE DEF r
<1>2. L.at \in Nat /\ L.from \in Nat /\ L.from <= L.at /\ L.from >= 1
  BY TextLength DEF Placed
<1>3. x.to = L.at + 3 /\ x.from = L.from
  BY <1>1, <1>2 DEF Extent, Nowhere
<1> HIDE DEF x
<1>4. DelimiterOf(t, x) = "triple"
  <2>1. x.to - x.from >= 3
    BY <1>2, <1>3
  <2>2. ASSUME NEW i \in 1 .. 3 PROVE t[x.to - i] = "dq"
    <3>1. x.to - i \in {L.at, L.at + 1, L.at + 2}
      BY <1>2, <1>3
    <3> QED
      BY <3>1
  <2> QED
    BY <2>1, <2>2 DEF DelimiterOf
<1>5. r.token = "STRING_START" => ShowsDelimiter(t, r, st)
  BY <1>1, <1>4 DEF ShowsDelimiter, x
<1>6. Right(t, p, r, st)
  BY <1>1, <1>5 DEF Right, NoToken
<1> QED
  BY <1>6 DEF r

LEMMA StartRight ==
    ASSUME NEW t \in Seq(STRING), NEW p \in 1 .. End(t), NEW st,
           NEW L, Placed(t, p, L), Tidy(t, L)
    PROVE  Right(t, p, scan_string_start(t, L, st), st)
<1> DEFINE q == L.at
           A1 == Advance(t, L, 1)
           A3 == Advance(t, L, 3)
           S  == Mark(A1)
           triple == Look(t, q + 1) = "dq" /\ Look(t, q + 2) = "dq"
<1>1. q \in Nat /\ q \in 1 .. End(t)
  BY TextLength DEF Placed
<1>2. CASE Look(t, q) # "dq"
  <2>1. scan_string_start(t, L, st) = Refuse(L, st)
    BY <1>2 DEF scan_string_start
  <2> QED
    BY <2>1, RefuseRight
<1>3. CASE Look(t, q) = "dq" /\ triple
  <2>1. /\ t[q] = "dq" /\ t[q + 1] = "dq" /\ t[q + 2] = "dq"
        /\ q + 3 <= End(t)
    <3>1. Look(t, q) = t[q] /\ Look(t, q + 1) = t[q + 1]
      BY <1>1, <1>3, LookIs
    <3>2. Look(t, q + 2) = t[q + 2] /\ q + 2 <= Len(t)
      BY <1>1, <1>3, LookIs
    <3> QED
      BY <1>1, <1>3, <3>1, <3>2, TextLength
  <2>2. Placed(t, p, A3) /\ A3.at = q + 3 /\ A3.from = L.from
    <3>1. Placed(t, p, A3) /\ A3.at = Past(t, q, 3) /\ A3.from = L.from
      BY AdvancePlaced
    <3>2. Past(t, q, 3) = q + 3
      BY <1>1, <2>1, PastIs
    <3> QED
      BY <3>1, <3>2
  <2>3. scan_string_start(t, L, st) = Starts(Mark(A3), st, "triple")
    BY <1>3 DEF scan_string_start
  <2> HIDE DEF A3
  <2>4. Placed(t, p, Mark(A3)) /\ Mark(A3).from = L.from /\ Mark(A3).to = L.at + 3
    BY <2>2, MarkPlaced
  <2> QED
    BY <2>1, <2>3, <2>4, TripleRight
<1>4. CASE Look(t, q) = "dq" /\ ~triple
  <2>1. q + 1 <= End(t)
    BY <1>1, <1>4, LookIs
  <2>2. Placed(t, p, A1) /\ A1.at = q + 1 /\ A1.from = L.from
    <3>1. Placed(t, p, A1) /\ A1.at = Past(t, q, 1) /\ A1.from = L.from
      BY AdvancePlaced
    <3>2. Past(t, q, 1) = q + 1
      BY <1>1, <2>1, PastIs
    <3> QED
      BY <3>1, <3>2
  <2>3. scan_string_start(t, L, st) \in
          {Starts(Advance(t, S, 1), st, "single"), Starts(S, st, "single")}
    BY <1>4 DEF scan_string_start
  <2> HIDE DEF A1
  <2>4. Placed(t, p, S) /\ S.from = L.from /\ S.to = L.at + 1
    BY <2>2, MarkPlaced
  <2>5. Advance(t, S, 1).to = S.to
    BY <2>4 DEF Advance, Placed
  <2> HIDE DEF S
  <2>6. Placed(t, p, Advance(t, S, 1)) /\ Advance(t, S, 1).from = L.from
    BY <2>4, AdvancePlaced
  <2>7. Right(t, p, Starts(Advance(t, S, 1), st, "single"), st)
    BY <1>4, <2>4, <2>5, <2>6, SingleRight
  <2>8. Right(t, p, Starts(S, st, "single"), st)
    BY <1>4, <2>4, SingleRight
  <2> QED
    BY <2>3, <2>7, <2>8
<1> QED
  BY <1>2, <1>3, <1>4

(* What is left at the end of a scan, tidied or not.                       *)
Sound(t, p, r, st) ==
    /\ Placed(t, p, r.lexer)
    /\ r.token = "STRING_START" => ShowsDelimiter(t, r, st)
    /\ r.token = "MULTILINE_COMMENT" => IsWholeComment(t, p, Extent(r))

LEMMA CommentSound ==
    ASSUME NEW t \in Seq(STRING), NEW p \in 1 .. End(t), NEW st, NEW s,
           NEW L, Placed(t, p, L), Tidy(t, L)
    PROVE  Sound(t, p, scan_multiline_comment(t, L, s), st)
<1> DEFINE q    == L.at
           body == ReadComment(t, q + 2, TRUE)
           M    == [L EXCEPT !.at = body.at]
           A    == Advance(t, L, 1)
           N    == Mark(M)
           R    == scan_multiline_comment(t, L, s)
<1>1. q \in Nat /\ q \in p .. End(t) /\ L.from \in 1 .. q
  BY TextLength DEF Placed
<1>2. \A K : Placed(t, p, K) => Sound(t, p, Refuse(K, s), st)
  BY DEF Sound, Refuse, NoToken
<1>3. CASE Look(t, q) # "/"
  <2>1. R = Refuse(L, s)
    BY <1>3 DEF scan_multiline_comment
  <2> QED
    BY <1>2, <2>1
<1>4. CASE Look(t, q) = "/" /\ Look(t, q + 1) # "*"
  <2>1. R = Refuse(A, s)
    BY <1>4 DEF scan_multiline_comment
  <2>2. Placed(t, p, A)
    BY AdvancePlaced
  <2> QED
    BY <1>2, <2>1, <2>2
<1>5. CASE Look(t, q) = "/" /\ Look(t, q + 1) = "*"
  <2>1. /\ q + 1 <= Len(t) /\ q < Len(t) /\ t[q] = "/" /\ t[q + 1] = "*"
        /\ q + 2 \in 1 .. End(t)
    <3>1. q <= Len(t) /\ q + 1 <= End(t) /\ Look(t, q) = t[q]
      BY <1>1, <1>5, LookIs
    <3>2. q + 1 <= Len(t) /\ Look(t, q + 1) = t[q + 1]
      BY <1>1, <1>5, LookIs
    <3> QED
      BY <1>1, <1>5, <3>1, <3>2, TextLength
  <2>2. /\ body.at \in q + 2 .. End(t)
        /\ body.depth = 0 \/ Eof(t, body.at) => body.at = CommentEnd(t, q + 2)
    BY <2>1, ReadCommentIs
  <2>3. R = IF body.depth = 0 \/ Eof(t, body.at)
              THEN Accept(N, "MULTILINE_COMMENT", s) ELSE Refuse(M, s)
    BY <1>5, Zenon DEF scan_multiline_comment
  <2> SUFFICES Sound(t, p, R, st)
    OBVIOUS
  <2> HIDE DEF body, R
  <2>4. Placed(t, p, M) /\ M.at = body.at /\ M.from = L.from
    <3>1. body.at \in L.at .. End(t)
      BY <1>1, <2>2, TextLength
    <3> QED
      BY <3>1, MovePlaced
  <2> HIDE DEF M
  <2>5. Placed(t, p, N) /\ N.from = L.from /\ N.to = body.at
    BY <2>4, MarkPlaced
  <2> HIDE DEF N
  <2>6. CASE ~(body.depth = 0 \/ Eof(t, body.at))
    BY <1>2, <2>3, <2>4, <2>6
  <2>7. CASE body.depth = 0 \/ Eof(t, body.at)
    <3> DEFINE x == Extent(R)
    <3>1. R.lexer = N /\ R.token = "MULTILINE_COMMENT"
      BY <2>3, <2>7 DEF Accept
    <3>2. body.at \in Nat /\ body.at > q /\ body.at # 0
      BY <1>1, <2>2, TextLength
    <3>3. x.to = body.at /\ x.from = L.from
      BY <1>1, <2>5, <3>1, <3>2 DEF Extent, Nowhere
    <3> HIDE DEF x
    <3>4. \A i \in x.from .. q - 1 : ~(t[i] = "/" /\ Look(t, i + 1) = "*")
      BY <1>5, <3>3 DEF Tidy
    <3>5. /\ x.from \in 1 .. q /\ x.to = CommentEnd(t, q + 2)
          /\ x.to \in Nat /\ x.to > q
      BY <1>1, <2>2, <2>7, <3>2, <3>3
    <3>6. IsWholeComment(t, p, x)
      <4> HIDE DEF q
      <4> QED
        BY <1>1, <2>1, <3>4, <3>5, FilledComment
    <3> QED
      BY <2>5, <3>1, <3>6 DEF Sound, x
  <2> QED
    BY <2>6, <2>7
<1> QED
  BY <1>3, <1>4, <1>5

(* A scan after the others.                                                *)
Step(t, p, r, st) == Right(t, p, r, st) /\ (r.token = NoToken => r.stack = st)

LEMMA RightIsSound ==
    ASSUME NEW t, NEW p, NEW r, NEW st, Right(t, p, r, st)
    PROVE  Sound(t, p, r, st)
  BY DEF Right, Sound

LEMMA SemicolonStep ==
    ASSUME NEW t \in Seq(STRING), NEW p \in 1 .. End(t), NEW st, NEW V
    PROVE  Step(t, p, SemicolonScan(t, p, st, V), st)
<1>1. Placed(t, p, Lexer(p)) /\ Tidy(t, Lexer(p))
  BY LexerPlaced
<1>2. Step(t, p, Refuse(Lexer(p), st), st)
  BY <1>1, RefuseRight, RefuseKeeps DEF Step, Keeps
<1>3. Step(t, p, scan_automatic_semicolon(t, Lexer(p), st, V), st)
  <2>1. Lexer(p).at = p
    BY DEF Lexer
  <2> QED
    BY <1>1, <2>1, SemicolonRight, SemicolonKeeps DEF Step, Keeps
<1> QED
  BY <1>2, <1>3, Zenon DEF SemicolonScan, Then

LEMMA DotStep ==
    ASSUME NEW t \in Seq(STRING), NEW p \in 1 .. End(t), NEW st, NEW V,
           NEW r, Step(t, p, r, st)
    PROVE  Step(t, p, DotScan(t, r, V), st)
<1>1. ASSUME r.token = NoToken
      PROVE  Step(t, p, scan_import_dot(t, r.lexer, r.stack), st)
  <2>1. Placed(t, p, r.lexer) /\ Tidy(t, r.lexer) /\ r.stack = st
    BY <1>1 DEF Step, Right
  <2> QED
    BY <2>1, ImportDotRight, ImportDotKeeps DEF Step, Keeps
<1> QED
  BY <1>1, Zenon DEF DotScan, Then

LEMMA KeywordStep ==
    ASSUME NEW t \in Seq(STRING), NEW p \in 1 .. End(t), NEW st, NEW V,
           NEW r, Step(t, p, r, st)
    PROVE  Step(t, p, KeywordScan(t, r, V), st)
<1> DEFINE M == SkipSpace(t, r.lexer)
           f == IF Look(t, M.at) = "c" THEN Constructor(t, M, r.stack)
                                       ELSE Refuse(M, r.stack)
<1>1. ASSUME r.token = NoToken PROVE Step(t, p, f, st)
  <2>1. Placed(t, p, r.lexer) /\ Tidy(t, r.lexer) /\ r.stack = st
    BY <1>1 DEF Step, Right
  <2>2. Placed(t, p, M) /\ Tidy(t, M)
    BY <2>1, SkipSpacePlaced
  <2> HIDE DEF M
  <2>3. Look(t, M.at) = "c" => Step(t, p, Constructor(t, M, st), st)
    BY <2>2, KeywordRight, ConstructorKeeps DEF Step, Keeps
  <2>4. Step(t, p, Refuse(M, st), st)
    BY <2>2, RefuseRight, RefuseKeeps DEF Step, Keeps
  <2> QED
    BY <2>1, <2>3, <2>4
<1>2. KeywordScan(t, r, V) = r \/ (r.token = NoToken /\ KeywordScan(t, r, V) = f)
  BY Zenon DEF KeywordScan, Then
<1> HIDE DEF f
<1> QED
  BY <1>1, <1>2

LEMMA ContentStep ==
    ASSUME NEW t \in Seq(STRING), NEW p \in 1 .. End(t), NEW st, NEW V,
           NEW r, Step(t, p, r, st)
    PROVE  Step(t, p, ContentScan(t, r, V), st)
<1>1. ASSUME r.token = NoToken
      PROVE  Step(t, p, scan_string_content(t, r.lexer, r.stack), st)
  <2> DEFINE c == scan_string_content(t, r.lexer, st)
  <2>1. Placed(t, p, r.lexer) /\ Tidy(t, r.lexer) /\ r.stack = st
    BY <1>1 DEF Step, Right
  <2>2. Right(t, p, c, st)
    BY <2>1, ContentRight
  <2>3. Keeps(c, st) \/ Ending(c, st)
    BY ContentKeepsOrEnds
  <2> HIDE DEF c
  <2>4. Step(t, p, c, st)
    BY <2>2, <2>3 DEF Step, Keeps, Ending, NoToken
  <2> QED
    BY <2>1, <2>4 DEF c
<1> QED
  BY <1>1, Zenon DEF ContentScan, Then

LEMMA StartStep ==
    ASSUME NEW t \in Seq(STRING), NEW p \in 1 .. End(t), NEW st, NEW V,
           NEW r, Step(t, p, r, st)
    PROVE  Step(t, p, StartScan(t, r, V), st)
<1> DEFINE M == SkipSpace(t, r.lexer)
           s == scan_string_start(t, M, st)
<1>1. ASSUME r.token = NoToken
      PROVE  r.stack = st /\ Step(t, p, s, st) /\ Step(t, p, Refuse(M, st), st)
  <2>1. Placed(t, p, r.lexer) /\ Tidy(t, r.lexer) /\ r.stack = st
    BY <1>1 DEF Step, Right
  <2>2. Placed(t, p, M) /\ Tidy(t, M)
    BY <2>1, SkipSpacePlaced
  <2> HIDE DEF M
  <2>3. Right(t, p, s, st)
    BY <2>2, StartRight
  <2>4. Keeps(s, st) \/ Starting(s, st) \/ Aborting(s, st)
    BY StartKeepsOrPushes
  <2> HIDE DEF s
  <2>5. Step(t, p, s, st)
    BY <2>3, <2>4 DEF Step, Keeps, Starting, Aborting, NoToken
  <2>6. Step(t, p, Refuse(M, st), st)
    BY <2>2, RefuseRight, RefuseKeeps DEF Step, Keeps
  <2> QED
    BY <2>1, <2>5, <2>6
<1>2. StartScan(t, r, V) = r
        \/ (r.token = NoToken
            /\ StartScan(t, r, V) = IF "STRING_START" \in V
                                      THEN scan_string_start(t, M, r.stack)
                                      ELSE Refuse(M, r.stack))
  BY Zenon DEF StartScan, Then
<1> HIDE DEF M
<1>3. StartScan(t, r, V) = r
        \/ (r.token = NoToken /\ StartScan(t, r, V) \in {s, Refuse(M, st)})
  BY <1>1, <1>2
<1> HIDE DEF s
<1> QED
  BY <1>1, <1>3

LEMMA ScanSound ==
    ASSUME NEW t \in Seq(STRING), NEW p \in 1 .. End(t), NEW st, NEW V
    PROVE  Sound(t, p, scan(t, p, st, V), st)
<1> DEFINE semicolon == SemicolonScan(t, p, st, V)
           keyword   == KeywordScan(t, DotScan(t, semicolon, V), V)
           start     == StartScan(t, ContentScan(t, keyword, V), V)
           comment   == CommentScan(t, start, V)
<1>1. Step(t, p, semicolon, st)
  BY SemicolonStep
<1> HIDE DEF semicolon
<1>2. Step(t, p, DotScan(t, semicolon, V), st)
  BY <1>1, DotStep
<1>3. Step(t, p, keyword, st)
  BY <1>2, KeywordStep
<1> HIDE DEF keyword
<1>4. Step(t, p, ContentScan(t, keyword, V), st)
  BY <1>3, ContentStep
<1>5. Step(t, p, start, st)
  BY <1>4, StartStep
<1> HIDE DEF start
<1>6. Sound(t, p, comment, st)
  <2>1. Sound(t, p, start, st)
    BY <1>5, RightIsSound DEF Step
  <2>2. start.token = NoToken =>
          Sound(t, p, scan_multiline_comment(t, start.lexer, start.stack), st)
    BY <1>5, CommentSound DEF Step, Right
  <2> QED
    BY <2>1, <2>2, Zenon DEF CommentScan, Then
<1> HIDE DEF comment
<1>7. ASSUME NEW r, Sound(t, p, r, st), r.token = NoToken
      PROVE  Sound(t, p, scan_safe_nav(t, r.lexer, r.stack), st)
  <2>1. Placed(t, p, r.lexer)
    BY <1>7 DEF Sound
  <2>2. /\ Placed(t, p, scan_safe_nav(t, r.lexer, r.stack).lexer)
        /\ scan_safe_nav(t, r.lexer, r.stack).token \in {NoToken, "SAFE_NAV"}
    BY <2>1, SafeNavRight
  <2> QED
    BY <2>2 DEF Sound, NoToken
<1>8. Sound(t, p, SafeNavScan(t, comment, V), st)
  BY <1>6, <1>7, Zenon DEF SafeNavScan, Then
<1>9. keyword.token = NoToken =>
        Sound(t, p, scan_import_list_delimiter(t, keyword.lexer, keyword.stack), st)
  <2> SUFFICES ASSUME keyword.token = NoToken
               PROVE  Sound(t, p, scan_import_list_delimiter(t, keyword.lexer, keyword.stack), st)
    OBVIOUS
  <2>1. Placed(t, p, keyword.lexer) /\ Tidy(t, keyword.lexer) /\ keyword.stack = st
    BY <1>3 DEF Step, Right
  <2>2. Right(t, p, scan_import_list_delimiter(t, keyword.lexer, st), st)
    BY <2>1, ImportListRight
  <2> QED
    BY <2>1, <2>2, RightIsSound
<1>10. Sound(t, p, AfterKeyword(t, keyword, V), st)
  BY <1>8, <1>9, Zenon DEF AfterKeyword, comment, start
<1>11. Sound(t, p, AfterSemicolon(t, semicolon, V), st)
  <2>1. Sound(t, p, semicolon, st)
    BY <1>1, RightIsSound DEF Step
  <2>2. semicolon.token = NoToken =>
          Sound(t, p, scan_safe_nav(t, semicolon.lexer, semicolon.stack), st)
    BY <1>7, <2>1
  <2> QED
    BY <1>10, <2>2, Zenon DEF AfterSemicolon, keyword
<1> QED
  BY <1>11 DEF scan, semicolon

-----------------------------------------------------------------------------
(* The stronger invariant: the positions are in the text, and the state of *)
(* a version is the literals it has open, each with its beginning.         *)
ParseInv ==
    /\ StackInv
    /\ TypeOK
    /\ \A v \in Versions :
          /\ head[v].state = head[v].open
          /\ Len(head[v].begun) = Len(head[v].open)

(* What the type says of the place a version is at.                        *)
Heads(t) ==
    [at : 1 .. End(t), state : Seq(Delimiters), open : Seq(Delimiters),
     begun : Seq(1 .. End(t)), code : Seq(Nat)]

LEMMA TextIs ==
    ASSUME ParseInv
    PROVE  /\ text \in Seq(STRING)
           /\ \A v \in Versions : head[v] \in Heads(text) /\ head[v].at \in 1 .. End(text)
  BY ParseAssumption DEF ParseInv, TypeOK, Heads

(* A version moves to another place.                                       *)
LEMMA HeadMoves ==
    ASSUME ParseInv, StackInv', NEW v \in Versions, NEW n \in Heads(text),
           n.state = n.open, Len(n.begun) = Len(n.open),
           head' = [head EXCEPT ![v] = n], text' = text, aborted' = aborted
    PROVE  ParseInv'
<1>1. \A w \in Versions : head'[w] = IF w = v THEN n ELSE head[w]
  BY DEF ParseInv, TypeOK
<1>2. head' \in [Versions -> Heads(text')]
  BY DEF ParseInv, TypeOK, Heads
<1>3. TypeOK'
  BY <1>2 DEF ParseInv, StackInv, TypeOK, Heads
<1> QED
  BY <1>1, <1>3 DEF ParseInv

LEMMA FoundSound ==
    ASSUME ParseInv, NEW v \in Versions, NEW V
    PROVE  /\ Sound(text, head[v].at, Found(v, V), head[v].state)
           /\ Good(Found(v, V), head[v].state)
<1>1. text \in Seq(STRING) /\ head[v].at \in 1 .. End(text)
  BY TextIs
<1>2. Loaded(v).contents = head[v].state
  BY LoadedFits DEF ParseInv
<1> QED
  BY <1>1, <1>2, ScanSound, ScanStack DEF Found

LEMMA ExtentIs ==
    ASSUME NEW t \in Seq(STRING), NEW p \in 1 .. End(t), NEW r, Placed(t, p, r.lexer)
    PROVE  Extent(r).to \in 1 .. End(t)
  BY TextLength DEF Extent, Placed, Nowhere

(* The version that a token of a scan leads to.                            *)
LEMMA ReachedIs ==
    ASSUME NEW h \in Heads(text), h.state = h.open, Len(h.begun) = Len(h.open),
           NEW r, Extent(r).to \in 1 .. End(text), Good(r, h.state), r.token # "abort",
           r.token = "STRING_START" => ShowsDelimiter(text, r, h.state),
           NEW w, w.contents = r.stack
    PROVE  LET n == Reached(h, r, w)
           IN  n \in Heads(text) /\ n.state = n.open /\ Len(n.begun) = Len(n.open)
<1> DEFINE n == Reached(h, r, w)
           k == Len(h.open) - 1
           x == Extent(r)
           Now(open, begun) == [at |-> x.to, state |-> r.stack,
                                open |-> open, begun |-> begun, code |-> h.code]
<1>1. /\ h.open \in Seq(Delimiters) /\ h.begun \in Seq(1 .. End(text))
      /\ h.code \in Seq(Nat) /\ Len(h.open) \in Nat
  BY DEF Heads
<1> SUFFICES n \in Heads(text) /\ n.state = n.open /\ Len(n.begun) = Len(n.open)
  OBVIOUS
<1>5. ASSUME NEW o \in Seq(Delimiters), NEW b \in Seq(1 .. End(text)),
             n = Now(o, b), r.stack = o, Len(b) = Len(o)
      PROVE  n \in Heads(text) /\ n.state = n.open /\ Len(n.begun) = Len(n.open)
  <2>1. x.to \in 1 .. End(text)
    OBVIOUS
  <2> HIDE DEF n, x
  <2> QED
    BY <1>1, <1>5, <2>1 DEF Heads
<1>2. CASE Starting(r, h.state)
  <2> DEFINE o == Append(h.open, DelimiterOf(text, x))
             b == Append(h.begun, x.to)
  <2>1. r.token = "STRING_START" /\ r.stack = o
    BY <1>2 DEF Starting, ShowsDelimiter
  <2>2. n = Now(o, b)
    BY <2>1 DEF Reached, serialize
  <2>3. o \in Seq(Delimiters) /\ Len(o) = Len(h.open) + 1
    BY <1>1 DEF DelimiterOf, Delimiters
  <2>4. b \in Seq(1 .. End(text)) /\ Len(b) = Len(h.begun) + 1
    BY <1>1
  <2>5. Len(o) = Len(b)
    BY <2>3, <2>4
  <2> HIDE DEF o, b, n, x
  <2> QED
    BY <1>5, <2>1, <2>2, <2>3, <2>4, <2>5
<1>3. CASE Ending(r, h.state)
  <2> DEFINE o == SubSeq(h.open, 1, k)
             b == SubSeq(h.begun, 1, k)
  <2>1. r.token = "STRING_END" /\ r.stack = o /\ h.open # <<>>
    BY <1>3 DEF Ending
  <2>2. n = Now(o, b)
    BY <2>1 DEF Reached, serialize
  <2>3. k \in 0 .. Len(h.open)
    BY <1>1, <2>1
  <2>4. o \in Seq(Delimiters) /\ Len(o) = k
    BY <1>1, <2>3
  <2>5. b \in Seq(1 .. End(text)) /\ Len(b) = k
    <3> DEFINE N == 1 .. End(text)
               g == h.begun
    <3>1. k \in 0 .. Len(g) /\ g \in Seq(N)
      BY <1>1, <2>3
    <3> HIDE DEF k, N, g
    <3>2. SubSeq(g, 1, k) \in Seq(N) /\ Len(SubSeq(g, 1, k)) = k
      BY <3>1
    <3> QED
      BY <3>2 DEF N, g
  <2> HIDE DEF o, b, n, x, k
  <2> QED
    BY <1>5, <2>1, <2>2, <2>4, <2>5
<1>4. CASE Keeps(r, h.state)
  <2>1. r.stack = h.open /\ r.token \notin {"STRING_START", "STRING_END"}
    BY <1>4 DEF Keeps
  <2>2. n = Now(h.open, h.begun)
    BY <2>1 DEF Reached, serialize
  <2> HIDE DEF n, x
  <2> QED
    BY <1>1, <1>5, <2>1, <2>2
<1> QED
  BY <1>2, <1>3, <1>4 DEF Good, Aborting

LEMMA LexExternalParses ==
    ASSUME ParseInv, NEW v \in Versions, NEW V \in Rows, LexExternal(v, V)
    PROVE  ParseInv'
<1> DEFINE r == Found(v, V)
           h == head[v]
           n == Reached(h, r, payload')
<1>1. StackInv'
  BY LexExternalKeeps DEF ParseInv
<1>2. Sound(text, h.at, r, h.state) /\ Good(r, h.state)
  BY FoundSound
<1>3. /\ r.token \notin {NoToken, "abort"}
      /\ payload' = Written(Loaded(v), r.stack)
      /\ head' = [head EXCEPT ![v] = n]
      /\ text' = text /\ aborted' = aborted
  BY DEF LexExternal
<1>4. payload'.contents = r.stack
  <2>1. Loaded(v) \in [contents : Seq(Delimiters), capacity : Nat]
    BY LoadedFits DEF ParseInv
  <2> DEFINE a == Loaded(v)
             s == r.stack
             b == IF Len(s) > Len(a.contents) THEN array_grow(a, 1) ELSE a
  <2>2. "contents" \in DOMAIN b
    BY <2>1 DEF array_grow, array_reserve
  <2> HIDE DEF a, s, b
  <2>3. [b EXCEPT !.contents = s].contents = s
    BY <2>2
  <2>4. Written(a, s) = [b EXCEPT !.contents = s]
    BY DEF Written, b
  <2> QED
    BY <1>3, <2>3, <2>4 DEF a, s
<1> HIDE DEF r
<1>5. /\ text \in Seq(STRING) /\ h \in Heads(text) /\ h.at \in 1 .. End(text)
      /\ h.state = h.open /\ Len(h.begun) = Len(h.open)
  BY TextIs DEF ParseInv
<1>6. Extent(r).to \in 1 .. End(text)
  BY <1>2, <1>5, ExtentIs DEF Sound
<1>7. r.token = "STRING_START" => ShowsDelimiter(text, r, h.state)
  BY <1>2 DEF Sound
<1>8. n \in Heads(text) /\ n.state = n.open /\ Len(n.begun) = Len(n.open)
  <2> HIDE DEF h
  <2> QED
    BY <1>2, <1>3, <1>4, <1>5, <1>6, <1>7, ReachedIs
<1> HIDE DEF n
<1> QED
  BY <1>1, <1>3, <1>8, HeadMoves

LEMMA LexAbortsParses ==
    ASSUME ParseInv, NEW v \in Versions, NEW V \in Rows, LexAborts(v, V)
    PROVE  ParseInv'
<1>1. StackInv'
  BY LexAbortsKeeps DEF ParseInv
<1> QED
  BY <1>1 DEF ParseInv, TypeOK, StackInv, LexAborts

LEMMA InternalMoves ==
    ASSUME ParseInv, NEW v \in Versions, ~Eof(text, head[v].at)
    PROVE  /\ Internal(head[v]) \in Heads(text)
           /\ Internal(head[v]).state = head[v].state
           /\ Internal(head[v]).open = head[v].open
           /\ Internal(head[v]).begun = head[v].begun
<1> DEFINE h == head[v]
           p == h.at
           t == text
<1>1. t \in Seq(STRING) /\ p \in 1 .. End(t) /\ DOMAIN h = DOMAIN Start
  BY TextIs DEF ParseInv, StackInv
<1>0. h \in Heads(t)
  BY TextIs
<1>2. p \in Nat /\ p <= Len(t) /\ p + 1 \in 1 .. End(t) /\ p \in 1 .. End(t)
  BY <1>1, TextLength DEF Eof
<1>3. /\ Internal(h).state = h.state /\ Internal(h).open = h.open
      /\ Internal(h).begun = h.begun
  BY <1>1 DEF Internal, Start
<1>4. FirstNot(t, p + 1, WordChar) \in 1 .. End(t)
  <2>1. FirstNot(t, p + 1, WordChar) \in p + 1 .. End(t)
    BY <1>1, <1>2, FirstNotIs
  <2> QED
    BY <1>1, <1>2, <2>1, TextLength
<1>5. FirstIn(t, p, LineEnd \cup {"nul"}) \in 1 .. End(t)
  <2>1. FirstIn(t, p, LineEnd \cup {"nul"}) \in p .. End(t)
    BY <1>1, <1>2, FirstInIs
  <2> QED
    BY <1>1, <1>2, <2>1, TextLength
<1>6. Look(t, p + 1) = "{" => p + 2 \in 1 .. End(t)
  <2>1. p + 1 \in Nat
    BY <1>2
  <2>2. Look(t, p + 1) # "nul" => p + 1 <= Len(t)
    BY <1>1, <2>1, LookIs
  <2>3. Len(t) \in Nat /\ End(t) = Len(t) + 1
    BY <1>1, TextLength
  <2>4. ASSUME Look(t, p + 1) = "{" PROVE p + 2 \in 1 .. End(t)
    <3>1. Look(t, p + 1) # "nul"
      BY <2>4
    <3> HIDE DEF p, t
    <3> QED
      BY <1>2, <2>2, <2>3, <3>1
  <2> QED
    BY <2>4
<1>7. Internal(h).at \in
        {p + 1, FirstNot(t, p + 1, WordChar), FirstIn(t, p, LineEnd \cup {"nul"})}
        \cup (IF Look(t, p + 1) = "{" THEN {p + 2} ELSE {})
  <2>1. CASE InLiteral(h) /\ Look(t, p + 1) = "{"
    BY <1>1, <2>1 DEF Internal, Start
  <2>2. CASE InLiteral(h) /\ Look(t, p + 1) # "{"
    BY <1>1, <2>2 DEF Internal, Start
  <2>3. CASE ~InLiteral(h)
    BY <1>1, <2>3 DEF Internal, Start
  <2> QED
    BY <2>1, <2>2, <2>3
<1>8. Internal(h).at \in 1 .. End(t)
  BY <1>2, <1>4, <1>5, <1>6, <1>7
<1>9. Internal(h) \in Heads(t)
  <2>1. Len(h.open) \in Nat /\ h.code \in Seq(Nat)
    BY <1>0 DEF Heads
  <2>2. Append(h.code, Len(h.open)) \in Seq(Nat)
    BY <2>1
  <2>3. h.code # <<>> => SubSeq(h.code, 1, Len(h.code) - 1) \in Seq(Nat)
    BY <2>1
  <2> DEFINE Moved(q, c) == [h EXCEPT !.at = q, !.code = c]
  <2>4. \E c \in Seq(Nat) : Internal(h) = Moved(Internal(h).at, c)
    <3>1. CASE InLiteral(h) /\ Look(t, p + 1) = "{"
      BY <1>0, <1>1, <2>2, <3>1 DEF Internal, Heads
    <3>2. CASE InLiteral(h) /\ Look(t, p + 1) # "{"
      BY <1>0, <1>1, <2>1, <3>2 DEF Internal, Heads
    <3>3. CASE ~InLiteral(h) /\ Look(t, p) = "}" /\ h.code # <<>>
      BY <1>0, <1>1, <2>3, <3>3 DEF Internal, Heads
    <3>4. CASE ~InLiteral(h) /\ ~(Look(t, p) = "}" /\ h.code # <<>>)
      BY <1>0, <1>1, <2>1, <3>4 DEF Internal, Heads
    <3> QED
      BY <3>1, <3>2, <3>3, <3>4
  <2>5. \A q \in 1 .. End(t), c \in Seq(Nat) : Moved(q, c) \in Heads(t)
    BY <1>0 DEF Heads
  <2> HIDE DEF Moved, h, t
  <2> QED
    BY <1>8, <2>4, <2>5
<1> QED
  BY <1>3, <1>9

LEMMA LexInternalParses ==
    ASSUME ParseInv, NEW v \in Versions, NEW V \in Rows, LexInternal(v, V)
    PROVE  ParseInv'
<1> DEFINE n == Internal(head[v])
<1>1. StackInv'
  BY LexInternalKeeps DEF ParseInv
<1>2. /\ head' = [head EXCEPT ![v] = n] /\ text' = text
      /\ aborted' = aborted /\ ~Eof(text, head[v].at)
  BY DEF LexInternal
<1>3. n \in Heads(text) /\ n.state = n.open /\ Len(n.begun) = Len(n.open)
  BY <1>2, InternalMoves DEF ParseInv
<1> HIDE DEF n
<1> QED
  BY <1>1, <1>2, <1>3, HeadMoves

LEMMA ForkParses ==
    ASSUME ParseInv, NEW v \in Versions, NEW w \in Versions, Fork(v, w)
    PROVE  ParseInv'
<1>1. StackInv'
  BY ForkKeeps DEF ParseInv
<1>2. /\ head[v] \in Heads(text) /\ head[v].state = head[v].open
      /\ Len(head[v].begun) = Len(head[v].open)
  BY TextIs DEF ParseInv
<1>3. head' = [head EXCEPT ![w] = head[v]] /\ text' = text /\ aborted' = aborted
  BY DEF Fork
<1> QED
  BY <1>1, <1>2, <1>3, HeadMoves

LEMMA StartIs ==
    ASSUME NEW t \in Seq(STRING)
    PROVE  Start \in Heads(t) /\ Start.state = Start.open /\ Len(Start.begun) = Len(Start.open)
<1>1. 1 \in 1 .. End(t)
  BY TextLength
<1>2. <<>> \in Seq(Delimiters) /\ <<>> \in Seq(1 .. End(t)) /\ <<>> \in Seq(Nat)
  OBVIOUS
<1> QED
  BY <1>1, <1>2 DEF Start, Heads

LEMMA GiveUpParses ==
    ASSUME ParseInv, NEW v \in Versions, GiveUp(v)
    PROVE  ParseInv'
<1>1. StackInv'
  BY GiveUpKeeps DEF ParseInv
<1>2. /\ Start \in Heads(text) /\ Start.state = Start.open
      /\ Len(Start.begun) = Len(Start.open)
  BY TextIs, StartIs
<1>3. head' = [head EXCEPT ![v] = Start] /\ text' = text /\ aborted' = aborted
  BY DEF GiveUp
<1> QED
  BY <1>1, <1>2, <1>3, HeadMoves

LEMMA InitiallyParses == Init => ParseInv
<1> SUFFICES ASSUME Init PROVE ParseInv
  OBVIOUS
<1>1. StackInv /\ text \in Texts /\ aborted = FALSE
  BY Initially DEF Init
<1>2. /\ Start \in Heads(text) /\ Start.state = Start.open
      /\ Len(Start.begun) = Len(Start.open)
  BY <1>1, ParseAssumption, StartIs
<1>3. /\ \A v \in Versions : head[v] = Start
      /\ head \in [Versions -> Heads(text)]
  BY <1>2 DEF Init
<1>4. TypeOK
  BY <1>1, <1>3 DEF TypeOK, StackInv, Heads
<1> QED
  BY <1>1, <1>2, <1>3, <1>4 DEF ParseInv

(* The invariant holds in every state.                                     *)
THEOREM ParseInvariant == Spec => []ParseInv
<1>1. Init => ParseInv
  BY InitiallyParses
<1>2. ParseInv /\ [Next]_vars => ParseInv'
  <2> SUFFICES ASSUME ParseInv, [Next]_vars PROVE ParseInv'
    OBVIOUS
  <2>1. ASSUME NEW v \in Versions, NEW V \in Rows, LexExternal(v, V) PROVE ParseInv'
    BY <2>1, LexExternalParses
  <2>2. ASSUME NEW v \in Versions, NEW V \in Rows, LexAborts(v, V) PROVE ParseInv'
    BY <2>2, LexAbortsParses
  <2>3. ASSUME NEW v \in Versions, NEW V \in Rows, LexInternal(v, V) PROVE ParseInv'
    BY <2>3, LexInternalParses
  <2>4. ASSUME NEW v \in Versions, NEW w \in Versions, Fork(v, w) PROVE ParseInv'
    BY <2>4, ForkParses
  <2>5. ASSUME NEW v \in Versions, GiveUp(v) PROVE ParseInv'
    BY <2>5, GiveUpParses
  <2>6. CASE UNCHANGED vars
    BY <2>6 DEF vars, ParseInv, TypeOK, StackInv, AbortOnlyAtLimit
  <2> QED
    BY <2>1, <2>2, <2>3, <2>4, <2>5, <2>6 DEF Next
<1> QED
  BY <1>1, <1>2, PTL DEF Spec

(* For every text: each variable has its type, and no token leaves a       *)
(* version behind the end of the text.                                     *)
THEOREM ParseTypeCorrect == Spec => []TypeOK
<1>1. ParseInv => TypeOK
  BY DEF ParseInv
<1> QED
  BY <1>1, ParseInvariant, PTL

(* For every text and every interleaving of versions: the state a version  *)
(* comes back to names the literals that its own tokens have opened and    *)
(* not closed, single or triple as the text shows them.                    *)
THEOREM StateIsOpenLiterals == Spec => []StackIsOpenLiterals
<1>1. ParseInv => StackIsOpenLiterals
  BY DEF ParseInv, StackInv, StackIsOpenLiterals
<1> QED
  BY <1>1, ParseInvariant, PTL

(* For every text: a comment token ends where the first comment in it      *)
(* ends, the comments in that comment counted; and an empty one stands     *)
(* behind that comment and nothing but blanks.                             *)
THEOREM CommentsAreWhole == Spec => []CommentWhole
<1>1. ParseInv => CommentWhole
  <2> SUFFICES ASSUME ParseInv, NEW v \in alive, NEW V \in RowsOf(head[v]),
                      Found(v, V).token = "MULTILINE_COMMENT"
               PROVE  IsWholeComment(text, head[v].at, Extent(Found(v, V)))
    BY DEF CommentWhole
  <2>1. v \in Versions
    BY DEF ParseInv, StackInv
  <2> QED
    BY <2>1, FoundSound DEF Sound
<1> QED
  BY <1>1, ParseInvariant, PTL

-----------------------------------------------------------------------------
(* Where literals end.  An even number of backslashes stands before q: the *)
(* symbol there is not escaped.                                            *)
EvenRun(t, from, q) ==
    \E k \in 0 .. q - from :
        /\ k % 2 = 0
        /\ \A i \in 1 .. k : t[q - i] = "bs"
        /\ q - k = from \/ t[q - k - 1] # "bs"

LEMMA ClosingSingle ==
    ASSUME NEW t, NEW from, NEW d, d # "triple"
    PROVE  ClosingQuote(t, from, d) = {q \in from .. Len(t) : t[q] = "dq" /\ EvenRun(t, from, q)}
  BY DEF ClosingQuote, EvenRun

LEMMA ClosingTriple ==
    ASSUME NEW t, NEW from
    PROVE  ClosingQuote(t, from, "triple") =
             {q \in from .. Len(t) - 2 : \A i \in 0 .. 2 : t[q + i] = "dq"}
  BY DEF ClosingQuote

(* No backslash stands before q.                                           *)
LEMMA RunBegins ==
    ASSUME NEW t, NEW from \in Nat, NEW q \in Nat, from <= q,
           q = from \/ t[q - 1] # "bs"
    PROVE  EvenRun(t, from, q)
<1>1. 0 \in 0 .. q - from /\ 0 % 2 = 0
  OBVIOUS
<1> QED
  BY <1>1 DEF EvenRun

(* What is behind an odd number of them is escaped.                        *)
LEMMA RunOdd ==
    ASSUME NEW t, NEW from \in Nat, NEW q \in Nat, from <= q,
           EvenRun(t, from, q), t[q] = "bs"
    PROVE  ~EvenRun(t, from, q + 1)
<1> DEFINE r == q + 1
<1> SUFFICES ASSUME EvenRun(t, from, r) PROVE FALSE
  OBVIOUS
<1>0. r = q + 1
  OBVIOUS
<1> HIDE DEF r
<1>1. PICK k \in 0 .. q - from :
        /\ k % 2 = 0
        /\ \A i \in 1 .. k : t[q - i] = "bs"
        /\ q - k = from \/ t[q - k - 1] # "bs"
  BY DEF EvenRun
<1>2. PICK m \in 0 .. r - from :
        /\ m % 2 = 0
        /\ \A i \in 1 .. m : t[r - i] = "bs"
        /\ r - m = from \/ t[r - m - 1] # "bs"
  BY DEF EvenRun
<1>3. m # k + 1
  <2>1. k \in Nat
    OBVIOUS
  <2>2. k % 2 = 0 /\ m % 2 = 0
    BY <1>1, <1>2
  <2>3. (k + 1) % 2 = 1
    BY <2>1, <2>2
  <2> QED
    BY <2>2, <2>3
<1>4. CASE m < k + 1
  <2>1. r - m # from
    BY <1>0, <1>1, <1>4
  <2>2. t[r - m - 1] # "bs" /\ r - m - 1 = q - m
    BY <1>0, <1>2, <2>1
  <2>3. m = 0 => t[q - m] = "bs"
    OBVIOUS
  <2>4. m # 0 => m \in 1 .. k
    BY <1>0, <1>4
  <2> QED
    BY <1>1, <2>2, <2>3, <2>4
<1>5. CASE m > k + 1
  <2>1. k + 2 \in 1 .. m
    BY <1>5
  <2>2. t[r - (k + 2)] = "bs" /\ r - (k + 2) = q - k - 1
    BY <1>0, <1>2, <2>1
  <2>3. q - k # from
    BY <1>0, <1>2, <1>5
  <2> QED
    BY <1>1, <2>2, <2>3
<1> QED
  BY <1>3, <1>4, <1>5

(* Two more, or one and what it escapes.                                   *)
LEMMA RunGoesOn ==
    ASSUME NEW t, NEW from \in Nat, NEW q \in Nat, from <= q,
           EvenRun(t, from, q), t[q] = "bs"
    PROVE  EvenRun(t, from, q + 2)
<1>1. PICK k \in 0 .. q - from :
        /\ k % 2 = 0
        /\ \A i \in 1 .. k : t[q - i] = "bs"
        /\ q - k = from \/ t[q - k - 1] # "bs"
  BY DEF EvenRun
<1>2. CASE t[q + 1] # "bs"
  <2>1. t[(q + 2) - 1] # "bs" /\ q + 2 \in Nat /\ from <= q + 2
    BY <1>2
  <2> QED
    BY <2>1, RunBegins
<1>3. CASE t[q + 1] = "bs"
  <2>1. k + 2 \in 0 .. q + 2 - from /\ (k + 2) % 2 = 0
    BY <1>1
  <2>2. ASSUME NEW i \in 1 .. k + 2 PROVE t[q + 2 - i] = "bs"
    <3>1. CASE i = 1
      BY <1>3, <3>1
    <3>2. CASE i = 2
      BY <3>2
    <3>3. CASE i > 2
      <4>1. i - 2 \in 1 .. k /\ q + 2 - i = q - (i - 2)
        BY <3>3
      <4> QED
        BY <1>1, <4>1
    <3> QED
      BY <3>1, <3>2, <3>3
  <2>3. q + 2 - (k + 2) = q - k /\ q + 2 - (k + 2) - 1 = q - k - 1
    OBVIOUS
  <2>4. q + 2 - (k + 2) = from \/ t[q + 2 - (k + 2) - 1] # "bs"
    BY <1>1, <2>3
  <2> DEFINE K == k + 2
             r == q + 2
  <2>5. /\ K \in 0 .. r - from /\ K % 2 = 0
        /\ \A i \in 1 .. K : t[r - i] = "bs"
        /\ r - K = from \/ t[r - K - 1] # "bs"
    BY <2>1, <2>2, <2>4
  <2> HIDE DEF K, r
  <2>6. EvenRun(t, from, r)
    BY <2>5 DEF EvenRun
  <2> QED
    BY <2>6 DEF r
<1> QED
  BY <1>2, <1>3

(* The content of a literal is read past no closing quotes, and stops      *)
(* where nothing is escaped.                                               *)
NoDollar(t, from, to) == \A i \in from .. to - 1 : t[i] # "$"

Unclosed(t, from, d, p, q) ==
    /\ \A e \in p .. q - 1 : e \notin ClosingQuote(t, from, d)
    /\ Look(t, q) = "nul" \/ d = "triple" \/ EvenRun(t, from, q)

(* A closing quote is a quote; the three of them are.                      *)
LEMMA ClosingIs ==
    ASSUME NEW t \in Seq(STRING), NEW from \in Nat, NEW d, NEW e \in ClosingQuote(t, from, d)
    PROVE  /\ e \in from .. Len(t) /\ t[e] = "dq"
           /\ d = "triple" => e + 2 <= Len(t) /\ t[e + 1] = "dq" /\ t[e + 2] = "dq"
           /\ d # "triple" => EvenRun(t, from, e)
<1>0. Len(t) \in Nat
  OBVIOUS
<1>1. CASE d = "triple"
  <2>1. e \in from .. Len(t) - 2 /\ \A i \in 0 .. 2 : t[e + i] = "dq"
    BY <1>1, ClosingTriple
  <2>2. 0 \in 0 .. 2 /\ 1 \in 0 .. 2 /\ 2 \in 0 .. 2 /\ e + 0 = e
    BY <2>1
  <2>3. t[e + 0] = "dq" /\ t[e + 1] = "dq" /\ t[e + 2] = "dq"
    BY <2>1, <2>2
  <2>4. t[e] = "dq"
    BY <2>2, <2>3
  <2> QED
    BY <1>0, <1>1, <2>1, <2>3, <2>4
<1>2. CASE d # "triple"
  BY <1>2, ClosingSingle
<1> QED
  BY <1>1, <1>2

LEMMA TurnUnclosed ==
    ASSUME NEW t \in Seq(STRING), NEW from \in 1 .. End(t), NEW d \in Delimiters,
           NEW q \in from .. End(t), ~ContentStops(t, q),
           d = "triple" \/ EvenRun(t, from, q),
           Look(t, q) # "bs" \/ Look(t, q + 1) # "$"
    PROVE  Unclosed(t, from, d, q, NextContent(t, q, d = "triple"))
<1> DEFINE n == NextContent(t, q, d = "triple")
<1> SUFFICES Unclosed(t, from, d, q, n)
  OBVIOUS
<1>1. /\ q \in Nat /\ from \in Nat /\ q <= Len(t) /\ Len(t) \in Nat /\ End(t) = Len(t) + 1
      /\ Look(t, q) = t[q] /\ t[q] \notin {"dq", "$", "nul"}
  BY TextLength DEF ContentStops, Look, Eof
<1>2. q \notin ClosingQuote(t, from, d)
  BY <1>1, ClosingIs
<1>3. CASE t[q] # "bs" \/ (d = "triple" /\ Look(t, q + 1) = "dq")
  <2>1. n = q + 1
    BY <1>1, <1>3 DEF NextContent, Past
  <2>2. d = "triple" \/ t[q + 1 - 1] # "bs"
    BY <1>1, <1>3
  <2>3. d = "triple" \/ EvenRun(t, from, q + 1)
    BY <1>1, <2>2, RunBegins
  <2> HIDE DEF n
  <2> QED
    BY <1>1, <1>2, <2>1, <2>3 DEF Unclosed
<1>4. CASE t[q] = "bs" /\ ~(d = "triple" /\ Look(t, q + 1) = "dq")
  <2>1. Look(t, q + 1) # "$"
    BY <1>1, <1>4
  <2>2. n = Past(t, q, 2)
    BY <1>1, <1>4, <2>1 DEF NextContent
  <2> HIDE DEF n
  <2>3. CASE q = Len(t)
    <3>1. n = End(t) /\ n = q + 1
      BY <1>1, <2>2, <2>3 DEF Past
    <3>2. Look(t, n) = "nul"
      BY <1>1, <3>1 DEF Look, Eof
    <3> QED
      BY <1>1, <1>2, <3>1, <3>2 DEF Unclosed
  <2>4. CASE q < Len(t)
    <3>1. n = q + 2 /\ Look(t, q + 1) = t[q + 1]
      BY <1>1, <2>2, <2>4 DEF Past, Look, Eof
    <3>2. q + 1 \notin ClosingQuote(t, from, d)
      <4> DEFINE e == q + 1
      <4>1. d # "triple" => ~EvenRun(t, from, e)
        BY <1>1, <1>4, RunOdd
      <4>2. d = "triple" => t[e] # "dq"
        BY <1>4, <3>1
      <4> HIDE DEF e
      <4>3. e \notin ClosingQuote(t, from, d)
        BY <1>1, <4>1, <4>2, ClosingIs
      <4> QED
        BY <4>3 DEF e
    <3>3. d = "triple" \/ EvenRun(t, from, q + 2)
      BY <1>1, <1>4, RunGoesOn
    <3>4. \A e \in q .. n - 1 : e = q \/ e = q + 1
      BY <1>1, <3>1
    <3> QED
      BY <1>2, <3>1, <3>2, <3>3, <3>4 DEF Unclosed
  <2> QED
    BY <1>1, <2>3, <2>4
<1> HIDE DEF n
<1> QED
  BY <1>1, <1>3, <1>4

LEMMA ContentUnclosed ==
    ASSUME NEW t \in Seq(STRING), NEW from \in 1 .. End(t), NEW d \in Delimiters,
           NEW p \in from .. End(t), d = "triple" \/ EvenRun(t, from, p),
           NoDollar(t, p, ContentEnd(t, p, d = "triple"))
    PROVE  Unclosed(t, from, d, p, ContentEnd(t, p, d = "triple"))
<1> DEFINE triple == d = "triple"
           D == from .. End(t)
           rank == Room(t)
<1> HIDE DEF triple
<1>1. PICK end : /\ IsContentEnd(end, t, triple)
                 /\ \A q : ContentEnd(t, q, triple) = end[q]
  BY ContentUnfolds
<1> DEFINE T == {q \in D : triple \/ EvenRun(t, from, q) =>
                           (NoDollar(t, q, end[q]) => Unclosed(t, from, d, q, end[q]))}
<1>2. \A q \in Nat : end[q] = IF ContentStops(t, q) THEN q
                              ELSE end[NextContent(t, q, triple)]
  BY <1>1 DEF IsContentEnd
<1>3. \A q \in D : q \in Nat /\ q \in 1 .. End(t) /\ end[q] \in q .. End(t)
  BY <1>1, ContentEndIs, TextLength
<1>4. \A q \in D : rank[q] \in Nat
  BY <1>3, RoomIs, TextLength
<1>5. ASSUME NEW q \in D, \A e \in D : rank[e] < rank[q] => e \in T
      PROVE  q \in T
  <2> DEFINE n == NextContent(t, q, triple)
             s == end[q]
  <2> SUFFICES ASSUME triple \/ EvenRun(t, from, q), NoDollar(t, q, s)
               PROVE  Unclosed(t, from, d, q, s)
    OBVIOUS
  <2>1. CASE ContentStops(t, q)
    <3>1. s = q
      BY <1>2, <1>3, <2>1
    <3> HIDE DEF s
    <3> QED
      BY <1>3, <3>1 DEF Unclosed, triple
  <2>2. CASE ~ContentStops(t, q)
    <3>1. q <= Len(t)
      BY <1>3, <2>2, TextLength DEF ContentStops, Look, Eof
    <3>2. n \in q + 1 .. End(t)
      BY <1>3, <3>1, NextContentMoves
    <3>3. s = end[n]
      BY <1>2, <1>3, <2>2
    <3> HIDE DEF s
    <3>4. n \in D /\ n \in T /\ s \in n .. End(t) /\ q \in Nat /\ n \in Nat
      <4>1. n \in D /\ rank[n] < rank[q]
        BY <1>3, <3>1, <3>2, RoomIs, TextLength
      <4> HIDE DEF n, T, D
      <4> QED
        BY <1>3, <1>5, <3>3, <4>1
    <3>5. Look(t, q) # "bs" \/ Look(t, q + 1) # "$"
      <4> SUFFICES ASSUME Look(t, q) = "bs", Look(t, q + 1) = "$" PROVE FALSE
        OBVIOUS
      <4>1. n = Past(t, q, 3)
        BY DEF NextContent
      <4>2. q + 1 <= Len(t) /\ t[q + 1] = "$"
        BY <1>3, LookIs
      <4>3. n >= q + 2
        BY <1>3, <4>1, <4>2, TextLength DEF Past
      <4> HIDE DEF n
      <4>4. q + 1 \in q .. s - 1
        BY <3>4, <4>3
      <4> QED
        BY <4>2, <4>4 DEF NoDollar
    <3>6. Unclosed(t, from, d, q, n)
      BY <2>2, <3>5, TurnUnclosed DEF triple
    <3> HIDE DEF n
    <3>7. NoDollar(t, n, s)
      BY <3>2, <3>4 DEF NoDollar
    <3>8. CASE Look(t, n) = "nul"
      <4>1. s = n
        BY <1>2, <3>3, <3>4, <3>8 DEF ContentStops
      <4> QED
        BY <3>6, <4>1
    <3>9. CASE Look(t, n) # "nul"
      <4>1. triple \/ EvenRun(t, from, n)
        BY <3>6, <3>9 DEF Unclosed, triple
      <4>2. Unclosed(t, from, d, n, s)
        BY <3>3, <3>4, <3>7, <4>1
      <4>3. \A e \in q .. s - 1 : e \in q .. n - 1 \/ e \in n .. s - 1
        BY <3>4
      <4> QED
        BY <3>6, <4>2, <4>3 DEF Unclosed
    <3> QED
      BY <3>8, <3>9
  <2> QED
    BY <2>1, <2>2
<1>6. \A q \in D : q \in T
  <2> HIDE DEF D, rank, T
  <2> QED
    BY <1>4, <1>5, RankInduction
<1>7. p \in T
  BY <1>6
<1> QED
  BY <1>1, <1>7 DEF triple

-----------------------------------------------------------------------------
(* What the parser reads in a literal while it recovers.  Of plain text it *)
(* reads no quotes and no backslashes.                                     *)
Gentle(t, p, q) ==
    Plain(t, p, q) => \A i \in p .. q - 1 : t[i] \notin {"bs", "dq"}

GentlyBy(t, p, L) ==
    /\ Placed(t, p, L)
    /\ Gentle(t, p, L.at)
    /\ L.to # Nowhere => Gentle(t, p, L.to)

LEMMA PlainPart ==
    ASSUME NEW t, NEW p \in Nat, NEW q \in Nat, NEW r \in Nat, NEW s \in Nat,
           p <= q, r <= s, Plain(t, p, s)
    PROVE  Plain(t, q, r)
<1>1. \A i \in q .. r - 1 : i \in p .. s - 1
  OBVIOUS
<1>2. \A i \in q .. r - 1 : \A j \in i + 1 .. r - 1 : j \in i + 1 .. s - 1
  OBVIOUS
<1> QED
  BY <1>1, <1>2 DEF Plain

LEMMA GentleSelf ==
    ASSUME NEW t, NEW p \in Nat
    PROVE  Gentle(t, p, p)
  BY DEF Gentle

LEMMA GentleOn ==
    ASSUME NEW t, NEW p \in Nat, NEW q \in Nat, NEW r \in Nat, p <= q, q <= r,
           Gentle(t, p, q), Gentle(t, q, r)
    PROVE  Gentle(t, p, r)
<1> SUFFICES ASSUME Plain(t, p, r) PROVE \A i \in p .. r - 1 : t[i] \notin {"bs", "dq"}
  BY DEF Gentle
<1>1. Plain(t, p, q) /\ Plain(t, q, r)
  BY PlainPart
<1>2. \A i \in p .. r - 1 : i \in p .. q - 1 \/ i \in q .. r - 1
  OBVIOUS
<1> QED
  BY <1>1, <1>2 DEF Gentle

(* Text without them, or with a slash on a line of its own.                *)
LEMMA GentleOver ==
    ASSUME NEW t, NEW p \in Nat, NEW q \in Nat,
           \A i \in p .. q - 1 : t[i] \notin {"bs", "dq"}
    PROVE  Gentle(t, p, q)
  BY DEF Gentle

LEMMA GentleSlash ==
    ASSUME NEW t, NEW p \in Nat, NEW q \in Nat, NEW i \in p .. q - 1, NEW j \in i + 1 .. q - 1,
           t[i] \in LineEnd, t[j] = "/"
    PROVE  Gentle(t, p, q)
  BY DEF Gentle, Plain

LEMMA GentleSymbol ==
    ASSUME NEW t \in Seq(STRING), NEW q \in Nat,
           Look(t, q) \notin {"nul", "bs", "dq"}
    PROVE  Gentle(t, q, q + 1) /\ q + 1 <= End(t)
<1>1. q <= Len(t) /\ q + 1 <= End(t) /\ Look(t, q) = t[q]
  BY LookIs
<1>2. \A i \in q .. q + 1 - 1 : i = q
  OBVIOUS
<1>3. \A i \in q .. q + 1 - 1 : t[i] \notin {"bs", "dq"}
  BY <1>1, <1>2
<1> DEFINE r == q + 1
<1>4. r \in Nat /\ \A i \in q .. r - 1 : t[i] \notin {"bs", "dq"}
  BY <1>3
<1> HIDE DEF r
<1>5. Gentle(t, q, r)
  BY <1>4, GentleOver
<1> QED
  BY <1>1, <1>5 DEF r

LEMMA GentleWord ==
    ASSUME NEW t \in Seq(STRING), NEW q \in Nat,
           Look(t, q) \notin {"nul", "bs", "dq"}, Look(t, q + 1) \notin {"nul", "bs", "dq"}
    PROVE  Gentle(t, q, q + 2) /\ q + 2 <= End(t)
<1> DEFINE r == q + 1
           s == q + 2
<1>1. Gentle(t, q, r)
  BY GentleSymbol
<1>2. r \in Nat /\ s \in Nat /\ q <= r /\ r <= s /\ r + 1 = s
  OBVIOUS
<1>3. Look(t, r) \notin {"nul", "bs", "dq"}
  OBVIOUS
<1> HIDE DEF r, s
<1>4. Gentle(t, r, s) /\ s <= End(t)
  BY <1>2, <1>3, GentleSymbol
<1>5. Gentle(t, q, s)
  BY <1>1, <1>2, <1>4, GentleOn
<1> QED
  BY <1>4, <1>5 DEF s

LEMMA GentleSet ==
    ASSUME NEW t \in Seq(STRING), NEW q \in 1 .. End(t), NEW S,
           "bs" \notin S, "dq" \notin S
    PROVE  Gentle(t, q, FirstNot(t, q, S)) /\ FirstNot(t, q, S) \in q .. End(t)
<1> DEFINE n == FirstNot(t, q, S)
<1>1. n \in q .. End(t) /\ \A i \in q .. n - 1 : t[i] \in S
  BY FirstNotIs
<1> HIDE DEF n
<1>2. \A i \in q .. n - 1 : t[i] \notin {"bs", "dq"}
  BY <1>1
<1>3. q \in Nat /\ n \in Nat
  BY <1>1, TextLength
<1>4. Gentle(t, q, n)
  BY <1>2, <1>3, GentleOver
<1> QED
  BY <1>1, <1>4 DEF n

(* The lexer.                                                              *)
LEMMA GentlyStarts ==
    ASSUME NEW t \in Seq(STRING), NEW p \in 1 .. End(t)
    PROVE  GentlyBy(t, p, Lexer(p))
<1>1. Placed(t, p, Lexer(p)) /\ Lexer(p).at = p /\ Lexer(p).to = Nowhere
  BY LexerPlaced DEF Lexer
<1>2. Gentle(t, p, p)
  BY TextLength, GentleSelf
<1> QED
  BY <1>1, <1>2 DEF GentlyBy

LEMMA GentlyGoes ==
    ASSUME NEW t \in Seq(STRING), NEW p \in 1 .. End(t), NEW L, GentlyBy(t, p, L),
           NEW q \in L.at .. End(t), Gentle(t, L.at, q)
    PROVE  /\ Gentle(t, p, q)
           /\ GentlyBy(t, p, SkipTo(L, q))
           /\ GentlyBy(t, p, [L EXCEPT !.at = q])
<1>1. Placed(t, p, L) /\ Gentle(t, p, L.at)
  BY DEF GentlyBy
<1>2. p \in Nat /\ L.at \in Nat /\ q \in Nat /\ p <= L.at /\ L.at <= q
  BY <1>1, TextLength DEF Placed
<1>3. Gentle(t, p, q)
  BY <1>1, <1>2, GentleOn
<1>4. Placed(t, p, SkipTo(L, q)) /\ SkipTo(L, q).at = q /\ SkipTo(L, q).to = L.to
  BY <1>1, SkipPlaced
<1>5. /\ Placed(t, p, [L EXCEPT !.at = q])
      /\ [L EXCEPT !.at = q].at = q /\ [L EXCEPT !.at = q].to = L.to
  BY <1>1, MovePlaced
<1> QED
  BY <1>3, <1>4, <1>5 DEF GentlyBy

LEMMA GentlyMarks ==
    ASSUME NEW t \in Seq(STRING), NEW p \in 1 .. End(t), NEW L, GentlyBy(t, p, L)
    PROVE  GentlyBy(t, p, Mark(L)) /\ Mark(L).at = L.at
<1>1. Placed(t, p, L) /\ Gentle(t, p, L.at)
  BY DEF GentlyBy
<1>2. Placed(t, p, Mark(L)) /\ Mark(L).at = L.at /\ Mark(L).to = L.at
  BY <1>1, MarkPlaced
<1> QED
  BY <1>1, <1>2 DEF GentlyBy

LEMMA GentlySkips ==
    ASSUME NEW t \in Seq(STRING), NEW p \in 1 .. End(t), NEW L, GentlyBy(t, p, L)
    PROVE  /\ GentlyBy(t, p, SkipSpace(t, L))
           /\ SkipSpace(t, L).at = FirstNot(t, L.at, Space)
           /\ SkipSpace(t, L).at \in L.at .. End(t)
<1> DEFINE q == FirstNot(t, L.at, Space)
<1>1. Placed(t, p, L) /\ L.at \in 1 .. End(t)
  BY TextLength DEF GentlyBy, Placed
<1>2. q \in L.at .. End(t) /\ Gentle(t, L.at, q)
  BY <1>1, GentleSet DEF Space
<1> HIDE DEF q
<1>3. GentlyBy(t, p, SkipTo(L, q))
  BY <1>2, GentlyGoes
<1>4. SkipTo(L, q).at = q
  BY DEF SkipTo
<1> QED
  BY <1>2, <1>3, <1>4 DEF SkipSpace, q

LEMMA GentlyAdvances ==
    ASSUME NEW t \in Seq(STRING), NEW p \in 1 .. End(t), NEW L, GentlyBy(t, p, L),
           Look(t, L.at) \notin {"nul", "bs", "dq"}
    PROVE  /\ GentlyBy(t, p, Advance(t, L, 1)) /\ Advance(t, L, 1).at = L.at + 1
           /\ GentlyBy(t, p, Mark(Advance(t, L, 1)))
<1> DEFINE q == L.at + 1
<1>1. Placed(t, p, L) /\ L.at \in Nat /\ L.at \in 1 .. End(t)
  BY TextLength DEF GentlyBy, Placed
<1>2. q <= End(t) /\ Gentle(t, L.at, q)
  BY <1>1, GentleSymbol
<1>3. q \in L.at .. End(t) /\ Past(t, L.at, 1) = q
  BY <1>1, <1>2, PastIs, TextLength
<1> HIDE DEF q
<1>4. Advance(t, L, 1) = [L EXCEPT !.at = q]
  BY <1>3 DEF Advance
<1>5. GentlyBy(t, p, [L EXCEPT !.at = q])
  BY <1>2, <1>3, GentlyGoes
<1>6. [L EXCEPT !.at = q].at = q
  BY <1>1, <1>3, MovePlaced
<1> QED
  BY <1>4, <1>5, <1>6, GentlyMarks DEF q

(* The tokens of literals, and a scan that finds none of them.             *)
Literals == {"STRING_START", "STRING_END", "STRING_CONTENT"}

Calm(t, p, r) == GentlyBy(t, p, r.lexer) /\ r.token \notin Literals

LEMMA CalmIs ==
    ASSUME NEW t, NEW p, NEW L, GentlyBy(t, p, L), NEW st
    PROVE  /\ Calm(t, p, Refuse(L, st))
           /\ Calm(t, p, Accept(L, "AUTOMATIC_SEMICOLON", st))
           /\ Calm(t, p, Accept(L, "IMPORT_LIST_DELIMITER", st))
           /\ Calm(t, p, Accept(L, "SAFE_NAV", st))
           /\ Calm(t, p, Accept(L, "MULTILINE_COMMENT", st))
           /\ Calm(t, p, Accept(L, "IMPORT_DOT", st))
  BY DEF Calm, Refuse, Accept, Literals, NoToken

(* Behind a slash on a line of its own anything may be read.               *)
Indented(t, p, L) ==
    /\ \E i \in p .. L.at - 1 : t[i] \in LineEnd
    /\ Look(t, L.at) = "/"

LEMMA GentlyBehind ==
    ASSUME NEW t \in Seq(STRING), NEW p \in 1 .. End(t), NEW L, GentlyBy(t, p, L),
           Indented(t, p, L), NEW q \in L.at .. End(t)
    PROVE  Gentle(t, p, q)
<1>1. p \in Nat /\ L.at \in Nat /\ q \in Nat /\ Gentle(t, p, L.at)
  BY TextLength DEF GentlyBy, Placed
<1>2. CASE q = L.at
  BY <1>1, <1>2
<1>3. CASE q # L.at
  <2>1. PICK i \in p .. L.at - 1 : t[i] \in LineEnd
    BY DEF Indented
  <2>2. t[L.at] = "/"
    BY <1>1, LookIs DEF Indented
  <2>3. i \in p .. q - 1 /\ L.at \in i + 1 .. q - 1
    BY <1>1, <1>3
  <2> QED
    BY <1>1, <2>1, <2>2, <2>3, GentleSlash
<1> QED
  BY <1>2, <1>3

LEMMA LineCommentGently ==
    ASSUME NEW t \in Seq(STRING), NEW p \in 1 .. End(t), NEW st,
           NEW L, GentlyBy(t, p, L), Indented(t, p, L)
    PROVE  Calm(t, p, AfterLineComment(t, L, st))
<1> DEFINE n == PastComments(t, L.at)
           To(k) == SkipTo(L, Past(t, n, k))
<1>1. Placed(t, p, L) /\ L.at \in 1 .. End(t)
  BY TextLength DEF GentlyBy, Placed
<1>2. n \in L.at .. End(t)
  BY <1>1, PastCommentsIs DEF GentlyBy
<1> HIDE DEF n
<1>3. ASSUME NEW k \in Nat PROVE GentlyBy(t, p, To(k))
  <2> DEFINE m == Past(t, n, k)
  <2>1. n \in 1 .. End(t) /\ n \in Nat
    BY <1>1, <1>2, TextLength DEF GentlyBy, Placed
  <2>2. m \in n .. End(t)
    BY <2>1, PastIs
  <2> HIDE DEF m
  <2>3. m \in L.at .. End(t)
    BY <1>2, <2>1, <2>2, TextLength DEF GentlyBy, Placed
  <2>4. Gentle(t, p, m)
    BY <2>3, GentlyBehind
  <2>5. Placed(t, p, SkipTo(L, m)) /\ SkipTo(L, m).at = m /\ SkipTo(L, m).to = L.to
    BY <2>3, SkipPlaced DEF GentlyBy
  <2>6. GentlyBy(t, p, SkipTo(L, m))
    BY <2>4, <2>5 DEF GentlyBy
  <2> QED
    BY <2>6 DEF m
<1>4. AfterLineComment(t, L, st) \in
        {Refuse(To(0), st), Refuse(To(1), st), Refuse(To(2), st),
         Accept(L, "AUTOMATIC_SEMICOLON", st)}
  BY Zenon DEF AfterLineComment, n
<1>5. GentlyBy(t, p, To(0)) /\ GentlyBy(t, p, To(1)) /\ GentlyBy(t, p, To(2))
  BY <1>3
<1> HIDE DEF To
<1> QED
  BY <1>4, <1>5, CalmIs

LEMMA BlockCommentGently ==
    ASSUME NEW t \in Seq(STRING), NEW p \in 1 .. End(t), NEW st,
           NEW L, GentlyBy(t, p, L), Indented(t, p, L), Look(t, L.at + 1) = "*"
    PROVE  Calm(t, p, AfterBlockComment(t, L, st))
<1> DEFINE q    == L.at
           body == ReadComment(t, q + 2, FALSE)
           B    == [L EXCEPT !.at = body.at]
           M    == SkipSpace(t, B)
           n    == M.at
           Behind2(k) == SkipTo(Mark(M), Past(t, n, k))
<1>1. /\ Placed(t, p, L) /\ q \in 1 .. End(t) /\ q \in Nat
      /\ L.to # Nowhere => Gentle(t, p, L.to)
  BY TextLength DEF GentlyBy, Placed
<1>2. q + 2 \in 1 .. End(t)
  <2>1. q + 1 \in Nat /\ Look(t, q + 1) # "nul"
    BY <1>1
  <2>2. q + 1 <= Len(t)
    BY <2>1, LookIs
  <2> QED
    BY <1>1, <2>2, TextLength
<1>3. body.at \in q .. End(t)
  <2>1. body.at \in q + 2 .. End(t)
    BY <1>2, ReadCommentIs
  <2> HIDE DEF body
  <2> QED
    BY <1>1, <2>1, TextLength
<1>4. ASSUME NEW K, Placed(t, p, K), K.at \in q .. End(t), K.to # Nowhere => Gentle(t, p, K.to)
      PROVE  GentlyBy(t, p, K)
  <2>1. Gentle(t, p, K.at)
    BY <1>4, GentlyBehind
  <2> QED
    BY <1>4, <2>1 DEF GentlyBy
<1> HIDE DEF body
<1>5. GentlyBy(t, p, B) /\ B.at = body.at
  <2>1. Placed(t, p, B) /\ B.at = body.at /\ B.to = L.to
    BY <1>1, <1>3, MovePlaced
  <2> HIDE DEF B
  <2> QED
    BY <1>1, <1>3, <1>4, <2>1
<1> HIDE DEF B
<1>6. GentlyBy(t, p, M) /\ n \in B.at .. End(t)
  BY <1>5, GentlySkips
<1> HIDE DEF M
<1>7. n \in q .. End(t) /\ n \in 1 .. End(t) /\ n \in Nat
  BY <1>1, <1>3, <1>5, <1>6, TextLength
<1>8. GentlyBy(t, p, Mark(M)) /\ Mark(M).at = n
  BY <1>6, GentlyMarks
<1>9. ASSUME NEW k \in Nat PROVE GentlyBy(t, p, Behind2(k))
  <2> DEFINE m == Past(t, n, k)
             N == Mark(M)
  <2>1. m \in n .. End(t)
    BY <1>7, PastIs
  <2>3. Placed(t, p, N)
    BY <1>8 DEF GentlyBy
  <2> HIDE DEF m, N
  <2>4. m \in q .. End(t) /\ m \in N.at .. End(t)
    <3>1. N.at = n
      BY <1>8 DEF N
    <3> QED
      BY <1>1, <1>7, <2>1, <3>1, TextLength
  <2>5. Placed(t, p, SkipTo(N, m)) /\ SkipTo(N, m).at = m /\ SkipTo(N, m).to = N.to
    BY <2>3, <2>4, SkipPlaced
  <2>6. N.to # Nowhere => Gentle(t, p, N.to)
    BY <1>8 DEF GentlyBy, N
  <2>7. GentlyBy(t, p, SkipTo(N, m))
    BY <1>4, <2>4, <2>5, <2>6
  <2> QED
    BY <2>7 DEF m, N
<1>10. GentlyBy(t, p, Behind2(0)) /\ GentlyBy(t, p, Behind2(1)) /\ GentlyBy(t, p, Behind2(2))
  BY <1>9
<1>11. AfterBlockComment(t, L, st) \in
         {Accept(M, "AUTOMATIC_SEMICOLON", st), Accept(Behind2(1), "AUTOMATIC_SEMICOLON", st),
          Accept(Behind2(0), "MULTILINE_COMMENT", st), Accept(Behind2(1), "MULTILINE_COMMENT", st),
          Accept(Behind2(2), "MULTILINE_COMMENT", st)}
  BY Zenon DEF AfterBlockComment, M, B, body
<1> HIDE DEF Behind2
<1> QED
  BY <1>6, <1>10, <1>11, CalmIs

LEMMA LineEndGently ==
    ASSUME NEW t \in Seq(STRING), NEW p \in 1 .. End(t), NEW st,
           NEW V, ~InClassHeader(V),
           NEW L, GentlyBy(t, p, L), \E i \in p .. L.at - 1 : t[i] \in LineEnd
    PROVE  Calm(t, p, AfterLineEnd(t, L, st, V))
<1> DEFINE q == L.at
           A == Advance(t, L, 1)
<1>1. q \in Nat /\ q \in 1 .. End(t) /\ q \in L.at .. End(t)
  BY TextLength DEF GentlyBy, Placed
<1>2. ASSUME NEW k \in q .. End(t), Gentle(t, q, k) PROVE GentlyBy(t, p, SkipTo(L, k))
  BY <1>2, GentlyGoes
<1>3. GentlyBy(t, p, SkipTo(L, q))
  BY <1>1, <1>2, GentleSelf
<1>4. NotEqual(t, q) => GentlyBy(t, p, SkipTo(L, q + 1))
  <2> SUFFICES ASSUME NotEqual(t, q) PROVE GentlyBy(t, p, SkipTo(L, q + 1))
    OBVIOUS
  <2>1. Gentle(t, q, q + 1) /\ q + 1 <= End(t)
    BY <1>1, GentleSymbol DEF NotEqual
  <2>2. q + 1 \in q .. End(t)
    BY <1>1, <2>1, TextLength
  <2> QED
    BY <1>2, <2>1, <2>2
<1>5. Continues(t, q, DOMAIN Rest) => GentlyBy(t, p, SkipTo(L, q + 2))
  <2> SUFFICES ASSUME Continues(t, q, DOMAIN Rest) PROVE GentlyBy(t, p, SkipTo(L, q + 2))
    OBVIOUS
  <2>1. /\ Look(t, q) \notin {"nul", "bs", "dq"}
        /\ Look(t, q + 1) \notin {"nul", "bs", "dq"}
    BY DEF Continues, Rest, IsWord
  <2>2. Gentle(t, q, q + 2) /\ q + 2 <= End(t)
    BY <1>1, <2>1, GentleWord
  <2>3. q + 2 \in q .. End(t)
    BY <1>1, <2>2, TextLength
  <2> QED
    BY <1>2, <2>2, <2>3
<1>6. Look(t, q) \in {"/", ";"} => GentlyBy(t, p, A) /\ GentlyBy(t, p, Mark(A))
  BY GentlyAdvances
<1>7. Look(t, q) = "/" => Calm(t, p, AfterLineComment(t, L, st))
  BY LineCommentGently DEF Indented
<1>8. Look(t, q) = "/" /\ Look(t, q + 1) = "*" =>
        Calm(t, p, AfterBlockComment(t, L, st))
  BY BlockCommentGently DEF Indented
<1>9. Calm(t, p, Refuse(SkipTo(L, q), st)) /\ Calm(t, p, Accept(L, "AUTOMATIC_SEMICOLON", st))
  BY <1>3, CalmIs
<1>10. /\ Look(t, q) = "/" => Calm(t, p, Refuse(A, st))
       /\ Look(t, q) = ";" => Calm(t, p, Accept(Mark(A), "AUTOMATIC_SEMICOLON", st))
       /\ NotEqual(t, q) => Calm(t, p, Refuse(SkipTo(L, q + 1), st))
       /\ Continues(t, q, DOMAIN Rest) => Calm(t, p, Refuse(SkipTo(L, q + 2), st))
  BY <1>4, <1>5, <1>6, CalmIs
<1> QED
  BY <1>7, <1>8, <1>9, <1>10, Zenon DEF AfterLineEnd

(* Words and the scans of other tokens.                                    *)
LEMMA KeywordGently ==
    ASSUME NEW t \in Seq(STRING), NEW p \in 1 .. End(t),
           NEW L, GentlyBy(t, p, L), Look(t, L.at) = "i"
    PROVE  GentlyBy(t, p, SkipTo(L, Keyword(t, L.at, "mport")))
<1> DEFINE q == L.at
           k == Keyword(t, q, "mport")
<1>1. q \in Nat
  BY TextLength DEF GentlyBy, Placed
<1>2. k \in {q + 1, q + 2} /\ k <= End(t) /\ k = q + 2 => Look(t, q + 1) = "mport"
  BY <1>1, KeywordIs
<1>3. k \in {q + 1, q + 2} /\ k <= End(t)
  BY <1>1, KeywordIs
<1> HIDE DEF k
<1>4. k = q + 1 => Gentle(t, q, k)
  BY <1>1, GentleSymbol
<1>5. k = q + 2 => Gentle(t, q, k)
  BY <1>1, <1>2, <1>3, GentleWord
<1>6. k \in L.at .. End(t) /\ Gentle(t, L.at, k)
  BY <1>1, <1>3, <1>4, <1>5, TextLength
<1>7. GentlyBy(t, p, SkipTo(L, k))
  BY <1>6, GentlyGoes
<1> QED
  BY <1>7 DEF k

LEMMA SemicolonCalm ==
    ASSUME NEW t \in Seq(STRING), NEW p \in 1 .. End(t), NEW st,
           NEW V, ~InClassHeader(V)
    PROVE  Calm(t, p, scan_automatic_semicolon(t, Lexer(p), st, V))
<1> DEFINE L0 == Lexer(p)
           q == FirstNot(t, L0.at, {"sp"})
           N == Mark(L0)
           L == SkipTo(N, q)
           S == SkipSpace(t, L)
<1>1. GentlyBy(t, p, L0) /\ L0.at = p
  BY GentlyStarts DEF Lexer
<1> HIDE DEF L0
<1>2. q \in p .. End(t) /\ Gentle(t, p, q)
  BY <1>1, GentleSet
<1> HIDE DEF q
<1>3. GentlyBy(t, p, N) /\ N.at = p
  BY <1>1, GentlyMarks
<1> HIDE DEF N
<1>4. GentlyBy(t, p, L) /\ L.at = q /\ q \in Nat /\ q \in 1 .. End(t)
  <2>1. GentlyBy(t, p, L)
    BY <1>2, <1>3, GentlyGoes
  <2>2. L.at = q
    BY DEF SkipTo
  <2> QED
    BY <1>2, <2>1, <2>2, TextLength
<1> HIDE DEF L
<1>5. Calm(t, p, Refuse(L, st)) /\ Calm(t, p, Accept(L, "AUTOMATIC_SEMICOLON", st))
  BY <1>4, CalmIs
<1>6. Look(t, q) = ";" => Calm(t, p, Accept(Mark(Advance(t, L, 1)), "AUTOMATIC_SEMICOLON", st))
  <2> SUFFICES ASSUME Look(t, q) = ";"
               PROVE  Calm(t, p, Accept(Mark(Advance(t, L, 1)), "AUTOMATIC_SEMICOLON", st))
    OBVIOUS
  <2>1. GentlyBy(t, p, Mark(Advance(t, L, 1)))
    BY <1>4, GentlyAdvances
  <2> QED
    BY <2>1, CalmIs
<1>7. ASSUME Look(t, q) \in LineEnd PROVE Calm(t, p, AfterLineEnd(t, S, st, V))
  <2>1. Look(t, L.at) \in Space /\ Look(t, q) # "nul"
    BY <1>4, <1>7 DEF LineEnd, Space
  <2>2. S.at # L.at
    BY <1>4, <2>1, SkipSpacePlaced DEF GentlyBy
  <2>3. GentlyBy(t, p, S) /\ S.at \in q .. End(t)
    BY <1>4, GentlySkips
  <2> HIDE DEF S
  <2>4. t[q] \in LineEnd
    BY <1>4, <1>7, <2>1, LookIs
  <2>5. q \in p .. S.at - 1
    BY <1>2, <1>4, <2>2, <2>3, TextLength
  <2> QED
    BY <2>3, <2>4, <2>5, LineEndGently
<1>8. Look(t, q) = "i" =>
        Calm(t, p, IF IsWord(t, q, "i", "mport")
                      THEN Accept(L, "AUTOMATIC_SEMICOLON", st)
                      ELSE Refuse(SkipTo(L, Keyword(t, q, "mport")), st))
  <2> SUFFICES ASSUME Look(t, q) = "i"
               PROVE  Calm(t, p, Refuse(SkipTo(L, Keyword(t, q, "mport")), st))
    BY <1>5
  <2>1. GentlyBy(t, p, SkipTo(L, Keyword(t, q, "mport")))
    BY <1>4, KeywordGently
  <2> QED
    BY <2>1, CalmIs
<1> QED
  BY <1>5, <1>6, <1>7, <1>8, Zenon DEF scan_automatic_semicolon, L, N, q, L0

LEMMA SafeNavCalm ==
    ASSUME NEW t \in Seq(STRING), NEW p \in 1 .. End(t), NEW st,
           NEW L0, GentlyBy(t, p, L0)
    PROVE  Calm(t, p, scan_safe_nav(t, L0, st))
<1> DEFINE L == SkipSpace(t, Mark(L0))
           A == Advance(t, L, 1)
           M == SkipSpace(t, A)
           N == Mark(Advance(t, M, 1))
<1>1. GentlyBy(t, p, L)
  BY GentlyMarks, GentlySkips
<1> HIDE DEF L
<1>2. CASE Look(t, L.at) # "?"
  <2>1. scan_safe_nav(t, L0, st) = Refuse(L, st)
    BY <1>2, Zenon DEF scan_safe_nav, L
  <2> QED
    BY <1>1, <2>1, CalmIs
<1>3. CASE Look(t, L.at) = "?"
  <2>1. GentlyBy(t, p, A)
    BY <1>1, <1>3, GentlyAdvances
  <2> HIDE DEF A
  <2>2. GentlyBy(t, p, M)
    BY <2>1, GentlySkips
  <2>3. Look(t, M.at) # "." => scan_safe_nav(t, L0, st) = Refuse(M, st)
    BY <1>3, Zenon DEF scan_safe_nav, L, A
  <2>4. Look(t, M.at) = "." => scan_safe_nav(t, L0, st) = Accept(N, "SAFE_NAV", st)
    BY <1>3, Zenon DEF scan_safe_nav, L, A
  <2> HIDE DEF M
  <2>5. Look(t, M.at) = "." => GentlyBy(t, p, N)
    BY <2>2, GentlyAdvances
  <2> HIDE DEF N
  <2> QED
    BY <2>2, <2>3, <2>4, <2>5, CalmIs
<1> QED
  BY <1>2, <1>3

LEMMA DotCalm ==
    ASSUME NEW t \in Seq(STRING), NEW p \in 1 .. End(t), NEW st,
           NEW L0, GentlyBy(t, p, L0)
    PROVE  Calm(t, p, scan_import_dot(t, L0, st))
<1> DEFINE A == Advance(t, Mark(L0), 1)
           M == SkipSpace(t, A)
           newline == \E q \in Mark(L0).at .. M.at - 1 : t[q] \in LineEnd
           word == newline /\ Look(t, M.at) = "i"
           K == SkipTo(M, Keyword(t, M.at, "mport"))
           N == IF word THEN K ELSE M
<1>1. GentlyBy(t, p, Mark(L0)) /\ Mark(L0).at = L0.at
  BY GentlyMarks
<1>2. CASE Look(t, L0.at) # "."
  <2>1. scan_import_dot(t, L0, st) = Refuse(L0, st)
    BY <1>2, Zenon DEF scan_import_dot
  <2> QED
    BY <2>1, CalmIs
<1>3. CASE Look(t, L0.at) = "."
  <2>1. GentlyBy(t, p, A)
    BY <1>1, <1>3, GentlyAdvances
  <2>2. scan_import_dot(t, L0, st) \in
          {Accept(N, "AUTOMATIC_SEMICOLON", st), Accept(Mark(N), "IMPORT_DOT", st)}
    BY <1>3, Zenon DEF scan_import_dot
  <2> HIDE DEF A
  <2>3. GentlyBy(t, p, M)
    BY <2>1, GentlySkips
  <2> HIDE DEF M
  <2>4. Look(t, M.at) = "i" => GentlyBy(t, p, K)
    BY <2>3, KeywordGently
  <2> HIDE DEF K, newline
  <2>5. GentlyBy(t, p, N)
    BY <2>3, <2>4
  <2> HIDE DEF N
  <2> QED
    BY <2>2, <2>5, GentlyMarks, CalmIs
<1> QED
  BY <1>2, <1>3

LEMMA LineSepGentle ==
    ASSUME NEW t \in Seq(STRING), NEW p \in 1 .. End(t), scan_line_sep(t, p) # Nowhere
    PROVE  Gentle(t, p, scan_line_sep(t, p)) /\ scan_line_sep(t, p) \in p .. End(t)
<1> DEFINE q == FirstNot(t, p, {"sp"})
           a == q + 1
           r == FirstNot(t, a, {"sp"})
           b == r + 1
<1>1. q \in p .. End(t) /\ q \in Nat /\ Gentle(t, p, q) /\ p \in Nat
  BY GentleSet, TextLength
<1>2. CASE Look(t, q) \in {"lf", "cr"}
  <2> HIDE DEF q
  <2>1. Gentle(t, q, a) /\ a <= End(t) /\ a \in Nat
    BY <1>1, <1>2, GentleSymbol
  <2>2. a \in 1 .. End(t) /\ a >= q
    BY <1>1, <2>1
  <2> HIDE DEF a
  <2>3. r \in a .. End(t) /\ r \in Nat /\ Gentle(t, a, r)
    BY <2>2, GentleSet, TextLength
  <2> HIDE DEF r
  <2>4. Look(t, r) = "lf" => Gentle(t, r, b) /\ b <= End(t) /\ b \in Nat
    BY <2>3, GentleSymbol
  <2>5. b \in Nat /\ b >= r
    BY <2>3
  <2> HIDE DEF b
  <2>6. Gentle(t, p, a)
    BY <1>1, <2>1, <2>2, GentleOn
  <2>7. Gentle(t, p, r)
    BY <1>1, <2>1, <2>2, <2>3, <2>6, GentleOn
  <2>8. Look(t, r) = "lf" => Gentle(t, p, b)
    BY <1>1, <2>1, <2>2, <2>3, <2>4, <2>5, <2>7, GentleOn
  <2>9. scan_line_sep(t, p) \in {a, r} \/ (Look(t, r) = "lf" /\ scan_line_sep(t, p) = b)
    BY <1>2, Zenon DEF scan_line_sep, q, a, r, b
  <2>10. /\ a \in p .. End(t) /\ r \in p .. End(t)
         /\ Look(t, r) = "lf" => b \in p .. End(t)
    BY <1>1, <2>1, <2>2, <2>3, <2>4, <2>5, TextLength
  <2> QED
    BY <2>6, <2>7, <2>8, <2>9, <2>10
<1>3. CASE Look(t, q) \notin {"lf", "cr"}
  BY <1>3 DEF scan_line_sep
<1> QED
  BY <1>2, <1>3

LEMMA ImportListCalm ==
    ASSUME NEW t \in Seq(STRING), NEW p \in 1 .. End(t), NEW st,
           NEW L0, GentlyBy(t, p, L0)
    PROVE  Calm(t, p, scan_import_list_delimiter(t, L0, st))
<1> DEFINE L      == Mark(L0)
           first  == scan_line_sep(t, L.at)
           second == scan_line_sep(t, first)
           M      == [L EXCEPT !.at = second]
<1>1. GentlyBy(t, p, L)
  BY GentlyMarks
<1> HIDE DEF L
<1>2. L.at \in 1 .. End(t) /\ L.at \in Nat
  BY <1>1, TextLength DEF GentlyBy, Placed
<1>3. first # Nowhere => Gentle(t, L.at, first) /\ first \in L.at .. End(t)
  BY <1>2, LineSepGentle
<1> HIDE DEF first
<1>4. Calm(t, p, Refuse(L, st)) /\ Calm(t, p, Accept(L, "IMPORT_LIST_DELIMITER", st))
  BY <1>1, CalmIs
<1>5. ASSUME first # Nowhere, second # Nowhere
      PROVE  Calm(t, p, Accept(Mark(M), "IMPORT_LIST_DELIMITER", st))
  <2>1. first \in 1 .. End(t) /\ first \in L.at .. End(t) /\ first \in Nat
    BY <1>2, <1>3, <1>5, TextLength
  <2>2. Gentle(t, first, second) /\ second \in first .. End(t)
    BY <1>5, <2>1, LineSepGentle
  <2> HIDE DEF second
  <2>3. second \in L.at .. End(t) /\ second \in Nat /\ L.at <= first /\ first <= second
    BY <1>2, <2>1, <2>2, TextLength
  <2>4. Gentle(t, L.at, second)
    BY <1>2, <1>3, <1>5, <2>1, <2>2, <2>3, GentleOn
  <2>5. GentlyBy(t, p, M)
    BY <1>1, <2>3, <2>4, GentlyGoes
  <2>6. GentlyBy(t, p, Mark(M))
    BY <2>5, GentlyMarks
  <2> QED
    BY <2>6, CalmIs
<1> HIDE DEF second, M
<1>6. \/ scan_import_list_delimiter(t, L0, st) \in
           {Refuse(L, st), Accept(L, "IMPORT_LIST_DELIMITER", st)}
      \/ /\ first # Nowhere /\ second # Nowhere
         /\ scan_import_list_delimiter(t, L0, st) =
              Accept(Mark(M), "IMPORT_LIST_DELIMITER", st)
  <2>1. CASE Eof(t, L.at)
    BY <2>1, Zenon DEF scan_import_list_delimiter, L
  <2>2. CASE ~Eof(t, L.at) /\ first = Nowhere
    BY <2>2, Zenon DEF scan_import_list_delimiter, L, first
  <2>3. CASE ~Eof(t, L.at) /\ first # Nowhere
    BY <2>3, Zenon DEF scan_import_list_delimiter, L, first, second, M
  <2> QED
    BY <2>1, <2>2, <2>3
<1> QED
  BY <1>4, <1>5, <1>6

(* While the parser recovers it finds no token of a literal.               *)
LEMMA RecoveryCalm ==
    ASSUME NEW t \in Seq(STRING), NEW p \in 1 .. End(t), NEW st
    PROVE  Calm(t, p, scan(t, p, st, Recovery))
<1> DEFINE V         == Recovery
           semicolon == SemicolonScan(t, p, st, V)
           dot       == DotScan(t, semicolon, V)
           keyword   == KeywordScan(t, dot, V)
<1>1. ~InClassHeader(V) /\ Tokens \subseteq V
  BY DEF InClassHeader, Recovery, Tokens
<1> HIDE DEF V
<1>2. Calm(t, p, semicolon)
  <2>1. Calm(t, p, scan_automatic_semicolon(t, Lexer(p), st, V))
    BY <1>1, SemicolonCalm
  <2>2. Calm(t, p, Refuse(Lexer(p), st))
    BY GentlyStarts, CalmIs
  <2> QED
    BY <2>1, <2>2, Zenon DEF SemicolonScan, Then
<1> HIDE DEF semicolon
<1>3. Calm(t, p, scan_safe_nav(t, semicolon.lexer, semicolon.stack))
  BY <1>2, SafeNavCalm DEF Calm
<1>4. Calm(t, p, dot)
  <2>1. Calm(t, p, scan_import_dot(t, semicolon.lexer, semicolon.stack))
    BY <1>2, DotCalm DEF Calm
  <2> QED
    BY <1>2, <2>1, Zenon DEF DotScan, Then
<1> HIDE DEF dot
<1>5. keyword = dot
  BY <1>1, Zenon DEF KeywordScan, Then
<1> HIDE DEF keyword
<1>6. Calm(t, p, AfterKeyword(t, keyword, V))
  <2>1. "IMPORT_LIST_DELIMITER" \in V
    BY <1>1 DEF Tokens
  <2>2. CASE keyword.token = NoToken
    <3>1. Calm(t, p, scan_import_list_delimiter(t, keyword.lexer, keyword.stack))
      BY <1>4, <1>5, ImportListCalm DEF Calm
    <3> QED
      BY <2>1, <2>2, <3>1, Zenon DEF AfterKeyword
  <2>3. CASE keyword.token # NoToken
    <3>1. ContentScan(t, keyword, V) = keyword
      BY <2>3, Zenon DEF ContentScan, Then
    <3>2. StartScan(t, keyword, V) = keyword
      BY <2>3, Zenon DEF StartScan, Then
    <3>3. CommentScan(t, keyword, V) = keyword
      BY <2>3, Zenon DEF CommentScan, Then
    <3>4. SafeNavScan(t, keyword, V) = keyword
      BY <2>3, Zenon DEF SafeNavScan, Then
    <3>5. AfterKeyword(t, keyword, V) = keyword
      BY <2>3, <3>1, <3>2, <3>3, <3>4, Zenon DEF AfterKeyword
    <3> QED
      BY <1>4, <1>5, <3>5
  <2> QED
    BY <2>2, <2>3
<1>7. Calm(t, p, AfterSemicolon(t, semicolon, V))
  BY <1>3, <1>6, Zenon DEF AfterSemicolon, keyword, dot
<1> QED
  BY <1>7 DEF scan, semicolon, V

-----------------------------------------------------------------------------
(* In a literal the content is all that is scanned for.                    *)
LEMMA ContentRefused ==
    ASSUME NEW t \in Seq(STRING), NEW p \in 1 .. End(t), NEW st, st # <<>>,
           scan_string_content(t, Lexer(p), st).token = NoToken
    PROVE  LET L == scan_string_content(t, Lexer(p), st).lexer
           IN  L.at \in 1 .. End(t) /\ Look(t, L.at) \notin Space \cup {"/"}
<1> DEFINE L      == Lexer(p)
           triple == IsTriple(st)
           q      == ContentEnd(t, L.at, triple)
           M      == [L EXCEPT !.at = q]
           quotes == FirstNot(t, q, {"dq"})
           Q      == [M EXCEPT !.at = quotes]
           A      == Advance(t, M, 1)
           r      == scan_string_content(t, L, st)
<1> SUFFICES r.lexer.at \in 1 .. End(t) /\ Look(t, r.lexer.at) \notin Space \cup {"/"}
  OBVIOUS
<1>0. r.token = NoToken
  OBVIOUS
<1>1. L.at = p /\ L.at \in 1 .. End(t)
  BY DEF Lexer
<1>2. q \in 1 .. End(t) /\ q \in Nat
  <2>1. q \in L.at .. End(t)
    BY <1>1, ContentEndIs
  <2> HIDE DEF q
  <2> QED
    BY <1>1, <2>1, TextLength
<1>3. M.at = q
  BY DEF Lexer
<1>4. \/ Look(t, q) = "nul" /\ r = Refuse(M, st)
      \/ Look(t, q) = "$" /\ Look(t, q + 1) \in Letters \cup {"{"} /\ r = Refuse(A, st)
      \/ r \in {Ends(Mark(Advance(t, M, 3)), st), Ends(Mark(Advance(t, M, 1)), st),
                Ends(Mark(Q), st),
                Accept(M, "STRING_CONTENT", st),
                Accept(Mark(A), "STRING_CONTENT", st),
                Accept(Mark(M), "STRING_CONTENT", st),
                Accept(Mark(Q), "STRING_CONTENT", st),
                Accept(Advance(t, Mark(M), 2), "STRING_CONTENT", st)}
  <2> HIDE DEF L
  <2> QED
    BY Zenon DEF scan_string_content
<1>5. /\ \A N : Accept(N, "STRING_CONTENT", st).token # NoToken
      /\ \A N : Ends(N, st).token # NoToken
  BY DEF Accept, Ends, Abort, NoToken
<1> HIDE DEF r, M, A, Q, q, quotes, L
<1>6. \/ Look(t, q) = "nul" /\ r = Refuse(M, st)
      \/ Look(t, q) = "$" /\ Look(t, q + 1) \in Letters \cup {"{"} /\ r = Refuse(A, st)
  BY <1>0, <1>4, <1>5
<1>7. CASE Look(t, q) = "nul" /\ r = Refuse(M, st)
  BY <1>2, <1>3, <1>7 DEF Refuse, Space
<1>8. CASE Look(t, q) = "$" /\ Look(t, q + 1) \in Letters \cup {"{"} /\ r = Refuse(A, st)
  <2>1. q + 1 <= End(t)
    BY <1>2, <1>8, LookIs
  <2>2. A.at = Past(t, q, 1)
    BY <1>1, <1>3 DEF Advance, A, M, L, Lexer
  <2>3. Past(t, q, 1) = q + 1
    BY <1>2, <2>1, PastIs
  <2>4. A.at \in 1 .. End(t) /\ Look(t, A.at) \notin Space \cup {"/"}
    <3>1. A.at = q + 1
      BY <2>2, <2>3
    <3>2. q + 1 \in 1 .. End(t)
      BY <1>2, <2>1, TextLength
    <3>3. Look(t, q + 1) \notin Space \cup {"/"}
      BY <1>8 DEF Space, Letters
    <3> QED
      BY <3>1, <3>2, <3>3
  <2> QED
    BY <1>8, <2>4 DEF Refuse
<1> QED
  BY <1>6, <1>7, <1>8

LEMMA InStringScan ==
    ASSUME NEW t \in Seq(STRING), NEW p \in 1 .. End(t), NEW st, st # <<>>
    PROVE  \/ scan(t, p, st, InString) = scan_string_content(t, Lexer(p), st)
           \/ scan(t, p, st, InString).token = NoToken
<1> DEFINE V == InString
           r == Refuse(Lexer(p), st)
           c == scan_string_content(t, Lexer(p), st)
           M == SkipSpace(t, c.lexer)
           s == Refuse(M, c.stack)
           m == scan_multiline_comment(t, M, c.stack)
<1>1. /\ ~InClassHeader(V)
      /\ V \cap {"AUTOMATIC_SEMICOLON", "IMPORT_DOT", "IMPORT_LIST_DELIMITER",
                 "SAFE_NAV", "STRING_START"} = {}
      /\ "STRING_CONTENT" \in V /\ "MULTILINE_COMMENT" \in V
  BY DEF InClassHeader, InString
<1>2. r.token = NoToken /\ r.lexer = Lexer(p) /\ r.stack = st
  BY DEF Refuse
<1> HIDE DEF V, r
<1>3. "AUTOMATIC_SEMICOLON" \notin V /\ "IMPORT_DOT" \notin V /\ "SAFE_NAV" \notin V
      /\ "IMPORT_LIST_DELIMITER" \notin V /\ "STRING_START" \notin V
  BY <1>1
<1>4. SemicolonScan(t, p, st, V) = r
  BY <1>3, Zenon DEF SemicolonScan, Then, r
<1>5. DotScan(t, r, V) = r
  BY <1>3, Zenon DEF DotScan, Then
<1>6. KeywordScan(t, r, V) = r
  BY <1>1, Zenon DEF KeywordScan, Then
<1>7. ContentScan(t, r, V) = c
  BY <1>1, <1>2, Zenon DEF ContentScan, Then
<1>8. {"AUTOMATIC_SEMICOLON", "SAFE_NAV"} \subseteq V => FALSE
  BY <1>3
<1>9. scan(t, p, st, V) =
        SafeNavScan(t, CommentScan(t, StartScan(t, c, V), V), V)
  <2>1. scan(t, p, st, V) = AfterKeyword(t, r, V)
    BY <1>4, <1>5, <1>6, <1>8, Zenon DEF scan, AfterSemicolon
  <2> QED
    BY <1>3, <1>7, <2>1, Zenon DEF AfterKeyword
<1> HIDE DEF c
<1>10. \A x : SafeNavScan(t, x, V) = x
  BY <1>3, Zenon DEF SafeNavScan, Then
<1>11. CASE c.token # NoToken
  <2>1. StartScan(t, c, V) = c
    BY <1>11, Zenon DEF StartScan, Then
  <2>2. CommentScan(t, c, V) = c
    BY <1>11, Zenon DEF CommentScan, Then
  <2> QED
    BY <1>9, <1>10, <2>1, <2>2 DEF V, c
<1>12. CASE c.token = NoToken
  <2>1. StartScan(t, c, V) = s
    BY <1>3, <1>12, Zenon DEF StartScan, Then
  <2>2. CommentScan(t, s, V) = m
    <3>1. s.token = NoToken /\ s.lexer = M /\ s.stack = c.stack
      BY DEF Refuse
    <3> HIDE DEF s, M
    <3> QED
      BY <1>1, <3>1, Zenon DEF CommentScan, Then
  <2>3. c.lexer.at \in 1 .. End(t) /\ Look(t, c.lexer.at) \notin Space \cup {"/"}
    BY <1>12, ContentRefused DEF c
  <2>4. M.at = c.lexer.at
    <3> DEFINE a == c.lexer.at
               n == FirstNot(t, a, Space)
    <3>1. M.at = n
      BY DEF SkipSpace, SkipTo
    <3>2. n \in a .. End(t) /\ \A i \in a .. n - 1 : t[i] \in Space
      BY <2>3, FirstNotIs
    <3>3. a \in Nat /\ Len(t) \in Nat /\ End(t) = Len(t) + 1
      BY <2>3, TextLength
    <3> HIDE DEF n, M, a
    <3>4. ASSUME n # a PROVE FALSE
      <4>1. a \in a .. n - 1 /\ a <= Len(t)
        BY <3>2, <3>3, <3>4
      <4>2. Look(t, a) = t[a]
        BY <3>3, <4>1 DEF Look, Eof
      <4> QED
        BY <2>3, <3>2, <4>1, <4>2 DEF a
    <3> QED
      BY <3>1, <3>4 DEF a
  <2> HIDE DEF M
  <2>5. m = Refuse(M, c.stack)
    BY <2>3, <2>4 DEF scan_multiline_comment
  <2> HIDE DEF m, s
  <2>6. scan(t, p, st, V) = m
    BY <1>9, <1>10, <2>1, <2>2
  <2> QED
    BY <2>5, <2>6 DEF Refuse, V
<1> QED
  BY <1>11, <1>12

(* A literal's content is read from `from` to q without its end.           *)
ReadTo(t, from, d, q) ==
    /\ \A e \in from .. q - 1 : e \notin ClosingQuote(t, from, d)
    /\ Look(t, q) = "nul" \/ d = "triple" \/ EvenRun(t, from, q)

(* What a scan finds at p in a literal of which the content is read to p.  *)
EndsContent(t, from, d, p, r) ==
    LET to == Extent(r).to
    IN  /\ r.token = "STRING_CONTENT" /\ Plain(t, p, to) => ReadTo(t, from, d, to)
        /\ r.token = "STRING_END" /\ Plain(t, p, to) =>
             /\ p \in ClosingQuote(t, from, d)
             /\ to = IF d = "triple" THEN FirstNot(t, p, {"dq"}) ELSE p + 1

LEMMA PlainNoDollar ==
    ASSUME NEW t, NEW p \in Nat, NEW q \in Nat, NEW s \in Nat, q <= s, Plain(t, p, s)
    PROVE  NoDollar(t, p, q)
  BY DEF Plain, NoDollar

LEMMA ReadOnTo ==
    ASSUME NEW t \in Seq(STRING), NEW from \in 1 .. End(t), NEW d \in Delimiters,
           NEW p \in from .. End(t), ReadTo(t, from, d, p),
           NoDollar(t, p, ContentEnd(t, p, d = "triple")), Look(t, p) # "nul"
    PROVE  ReadTo(t, from, d, ContentEnd(t, p, d = "triple"))
<1> DEFINE q == ContentEnd(t, p, d = "triple")
<1>1. Unclosed(t, from, d, p, q)
  BY ContentUnclosed DEF ReadTo
<1>2. p \in Nat /\ p \in 1 .. End(t) /\ from \in Nat
  BY TextLength
<1>3. q \in p .. End(t)
  BY <1>2, ContentEndIs
<1> HIDE DEF q
<1>4. \A e \in from .. q - 1 : e \in from .. p - 1 \/ e \in p .. q - 1
  BY <1>2, <1>3
<1>5. ReadTo(t, from, d, q)
  BY <1>1, <1>4 DEF ReadTo, Unclosed
<1> QED
  BY <1>5 DEF q

(* The results of scan_string_content, by where its loop returns.          *)
LEMMA ContentFinds ==
    ASSUME NEW t \in Seq(STRING), NEW p \in 1 .. End(t), NEW st, st # <<>>
    PROVE  LET triple == IsTriple(st)
               q == ContentEnd(t, p, triple)
               k == FirstNot(t, q, {"dq"})
               r == scan_string_content(t, Lexer(p), st)
               x == Extent(r).to
           IN  \/ r.token \notin {"STRING_CONTENT", "STRING_END"}
               \/ r.token = "STRING_CONTENT" /\ x = q /\ Look(t, q) # "nul"
               \/ r.token = "STRING_CONTENT" /\ Look(t, q) = "$" /\ x = q + 1
               \/ r.token = "STRING_CONTENT" /\ triple /\ x = k /\ k < q + 3
                  /\ Look(t, q) = "dq"
               \/ r.token = "STRING_END" /\ DollarEnds(t, q) /\ x >= q + 2
               \/ r.token = "STRING_END" /\ ~triple /\ q = p /\ Look(t, q) = "dq"
                  /\ x = q + 1
               \/ r.token = "STRING_END" /\ triple /\ q = p /\ Look(t, q) = "dq"
                  /\ x = k /\ k >= q + 3
<1> DEFINE L      == Lexer(p)
           triple == IsTriple(st)
           q      == ContentEnd(t, L.at, triple)
           M      == [L EXCEPT !.at = q]
           k      == FirstNot(t, q, {"dq"})
           Q      == [M EXCEPT !.at = k]
           A(n)   == Advance(t, M, n)
           B      == Advance(t, Mark(M), 2)
           r      == scan_string_content(t, L, st)
           x      == Extent(r).to
<1>0. Placed(t, p, L) /\ L.at = p /\ L.to = Nowhere /\ p \in Nat /\ p # Nowhere
  BY LexerPlaced, TextLength DEF Lexer, Nowhere
<1> SUFFICES \/ r.token \notin {"STRING_CONTENT", "STRING_END"}
             \/ r.token = "STRING_CONTENT" /\ x = q /\ Look(t, q) # "nul"
             \/ r.token = "STRING_CONTENT" /\ Look(t, q) = "$" /\ x = q + 1
             \/ r.token = "STRING_CONTENT" /\ triple /\ x = k /\ k < q + 3
                /\ Look(t, q) = "dq"
             \/ r.token = "STRING_END" /\ DollarEnds(t, q) /\ x >= q + 2
             \/ r.token = "STRING_END" /\ ~triple /\ q = p /\ Look(t, q) = "dq"
                /\ x = q + 1
             \/ r.token = "STRING_END" /\ triple /\ q = p /\ Look(t, q) = "dq"
                /\ x = k /\ k >= q + 3
  BY <1>0
<1>1. q \in p .. End(t) /\ ContentStops(t, q)
  BY <1>0, ContentEndIs
<1>2. \/ Look(t, q) = "nul" /\ r = Refuse(M, st)
      \/ Look(t, q) = "$" /\ q # L.at /\ r = Accept(M, "STRING_CONTENT", st)
      \/ Look(t, q) = "$" /\ q = L.at
         /\ r \in {Refuse(A(1), st), Accept(Mark(A(1)), "STRING_CONTENT", st)}
      \/ Look(t, q) = "bs" /\ r = Ends(Mark(A(3)), st)
      \/ Look(t, q) \notin {"nul", "$", "bs"} /\ ~triple /\ q # L.at
         /\ r = Accept(Mark(M), "STRING_CONTENT", st)
      \/ Look(t, q) = "dq" /\ ~triple /\ q = L.at /\ r = Ends(Mark(A(1)), st)
      \/ Look(t, q) \notin {"nul", "$", "bs"} /\ triple /\ k < q + 3
         /\ r = Accept(Mark(Q), "STRING_CONTENT", st)
      \/ Look(t, q) \notin {"nul", "$", "bs"} /\ triple /\ ~(k < q + 3) /\ q # L.at
         /\ r = Accept(B, "STRING_CONTENT", st)
      \/ Look(t, q) \notin {"nul", "$", "bs"} /\ triple /\ ~(k < q + 3) /\ q = L.at
         /\ r = Ends(Mark(Q), st)
  <2>1. Look(t, q) \in {"nul", "$", "dq", "bs"}
    BY <1>1 DEF ContentStops, DollarEnds
  <2> HIDE DEF L, triple, q, M, k, Q, A, B
  <2>2. CASE Look(t, q) = "nul"
    <3>1. r = Refuse(M, st)
      BY <2>2, Zenon DEF scan_string_content, L, triple, q, M
    <3> QED
      BY <2>2, <3>1
  <2>3. CASE Look(t, q) = "$"
    <3>1. q # L.at => r = Accept(M, "STRING_CONTENT", st)
      BY <2>3, Zenon DEF scan_string_content, triple, q, M
    <3>2. q = L.at => r \in {Refuse(A(1), st), Accept(Mark(A(1)), "STRING_CONTENT", st)}
      BY <2>3, Zenon DEF scan_string_content, triple, q, M, A
    <3> QED
      BY <2>3, <3>1, <3>2
  <2>4. CASE Look(t, q) = "bs"
    <3>1. r = Ends(Mark(A(3)), st)
      BY <2>4, Zenon DEF scan_string_content, triple, q, M, A
    <3> QED
      BY <2>4, <3>1
  <2>5. CASE Look(t, q) = "dq" /\ ~triple
    <3>1. q # L.at => r = Accept(Mark(M), "STRING_CONTENT", st)
      BY <2>5, Zenon DEF scan_string_content, triple, q, M
    <3>2. q = L.at => r = Ends(Mark(A(1)), st)
      BY <2>5, Zenon DEF scan_string_content, triple, q, M, A
    <3> QED
      BY <2>5, <3>1, <3>2
  <2>6. CASE Look(t, q) = "dq" /\ triple
    <3>1. k < q + 3 => r = Accept(Mark(Q), "STRING_CONTENT", st)
      BY <2>6, Zenon DEF scan_string_content, triple, q, M, k, Q
    <3>2. ~(k < q + 3) /\ q # L.at => r = Accept(B, "STRING_CONTENT", st)
      BY <2>6, Zenon DEF scan_string_content, triple, q, M, k, B
    <3>3. ~(k < q + 3) /\ q = L.at => r = Ends(Mark(Q), st)
      BY <2>6, Zenon DEF scan_string_content, triple, q, M, k, Q
    <3> QED
      BY <2>6, <3>1, <3>2, <3>3
  <2> QED
    BY <2>1, <2>2, <2>3, <2>4, <2>5, <2>6
<1>3. Placed(t, p, M) /\ M.at = q /\ M.to = Nowhere
  BY <1>0, <1>1, MovePlaced
<1>4. q \in Nat /\ q \in 1 .. End(t) /\ q # Nowhere /\ End(t) \in Nat
  BY <1>1, TextLength DEF Nowhere
<1> HIDE DEF M
<1>5. \A n \in Nat : Mark(A(n)).to = Past(t, q, n)
  BY <1>3, AdvancePlaced, MarkPlaced
<1>6. Placed(t, p, Mark(M)) /\ Mark(M).to = q /\ Mark(M).at = q
  BY <1>3, MarkPlaced
<1>7. B.to = q
  <2> DEFINE N == Mark(M)
  <2>1. Past(t, N.at, 2) \in N.at .. End(t)
    BY <1>4, <1>6, PastIs
  <2>2. B = [N EXCEPT !.at = Past(t, N.at, 2)]
    BY DEF Advance
  <2> HIDE DEF N, B
  <2> QED
    BY <1>6, <2>1, <2>2, MovePlaced DEF N
<1>8. Mark(Q).to = k /\ k \in q .. End(t)
  <2>1. k \in M.at .. End(t)
    BY <1>3, <1>4, FirstNotIs
  <2> HIDE DEF k
  <2>2. Placed(t, p, Q) /\ Q.at = k
    BY <1>3, <2>1, MovePlaced
  <2> HIDE DEF Q
  <2> QED
    BY <1>3, <2>1, <2>2, MarkPlaced
<1>9. /\ \A N, s : N.to = Nowhere => Extent(Accept(N, s, st)).to = N.at
      /\ \A N, s : N.to # Nowhere => Extent(Accept(N, s, st)).to = N.to
      /\ \A N : N.to # Nowhere => Extent(Ends(N, st)).to = N.to
      /\ \A N, s : Accept(N, s, st).token = s
      /\ \A N : Ends(N, st).token = "STRING_END"
  BY DEF Extent, Accept, Ends
<1>10. Look(t, q) # "nul" => Past(t, q, 1) = q + 1 /\ q + 1 # Nowhere
  <2> SUFFICES ASSUME Look(t, q) # "nul" PROVE Past(t, q, 1) = q + 1 /\ q + 1 # Nowhere
    OBVIOUS
  <2>1. q + 1 <= End(t)
    BY <1>4, LookIs
  <2> QED
    BY <1>4, <2>1, PastIs DEF Nowhere
<1>11. Look(t, q) = "bs" => DollarEnds(t, q) /\ Past(t, q, 3) >= q + 2 /\ Past(t, q, 3) # Nowhere
  <2> SUFFICES ASSUME Look(t, q) = "bs"
               PROVE  DollarEnds(t, q) /\ Past(t, q, 3) >= q + 2 /\ Past(t, q, 3) # Nowhere
    OBVIOUS
  <2>1. DollarEnds(t, q)
    BY <1>1 DEF ContentStops
  <2>2. q + 1 \in Nat /\ Look(t, q + 1) = "$"
    BY <1>4, <2>1 DEF DollarEnds
  <2>3. q + 1 <= Len(t)
    BY <2>2, LookIs
  <2> QED
    BY <1>4, <2>1, <2>3, TextLength DEF Past, Nowhere
<1>12. Look(t, q) \notin {"nul", "$", "bs"} => Look(t, q) = "dq"
  BY <1>1 DEF ContentStops, DollarEnds
<1>13. k \in Nat /\ k # Nowhere
  BY <1>4, <1>8 DEF Nowhere
<1>14. \A N : Refuse(N, st).token = NoToken
  BY DEF Refuse
<1> HIDE DEF r, k, Q, A, B, q, triple, L
<1>15. CASE Look(t, q) = "nul" /\ r = Refuse(M, st)
  BY <1>14, <1>15 DEF NoToken
<1>16. CASE Look(t, q) = "$" /\ q # L.at /\ r = Accept(M, "STRING_CONTENT", st)
  BY <1>3, <1>9, <1>16
<1>17. CASE /\ Look(t, q) = "$" /\ q = L.at
            /\ r \in {Refuse(A(1), st), Accept(Mark(A(1)), "STRING_CONTENT", st)}
  <2>1. Mark(A(1)).to = q + 1 /\ q + 1 # Nowhere
    BY <1>5, <1>10, <1>17
  <2> QED
    BY <1>9, <1>14, <1>17, <2>1 DEF NoToken
<1>18. CASE Look(t, q) = "bs" /\ r = Ends(Mark(A(3)), st)
  <2>1. Mark(A(3)).to = Past(t, q, 3)
    BY <1>5
  <2> QED
    BY <1>9, <1>11, <1>18, <2>1
<1>19. CASE /\ Look(t, q) \notin {"nul", "$", "bs"} /\ ~triple /\ q # L.at
            /\ r = Accept(Mark(M), "STRING_CONTENT", st)
  BY <1>4, <1>6, <1>9, <1>19
<1>20. CASE Look(t, q) = "dq" /\ ~triple /\ q = L.at /\ r = Ends(Mark(A(1)), st)
  <2>1. Mark(A(1)).to = q + 1 /\ q + 1 # Nowhere
    BY <1>5, <1>10, <1>20
  <2> QED
    BY <1>0, <1>9, <1>20, <2>1
<1>21. CASE /\ Look(t, q) \notin {"nul", "$", "bs"} /\ triple /\ k < q + 3
            /\ r = Accept(Mark(Q), "STRING_CONTENT", st)
  BY <1>8, <1>9, <1>12, <1>13, <1>21
<1>22. CASE /\ Look(t, q) \notin {"nul", "$", "bs"} /\ triple /\ ~(k < q + 3) /\ q # L.at
            /\ r = Accept(B, "STRING_CONTENT", st)
  BY <1>4, <1>7, <1>9, <1>22
<1>23. CASE /\ Look(t, q) \notin {"nul", "$", "bs"} /\ triple /\ ~(k < q + 3) /\ q = L.at
            /\ r = Ends(Mark(Q), st)
  <2>1. k >= q + 3
    BY <1>4, <1>13, <1>23
  <2>2. r.token = "STRING_END" /\ x = k
    BY <1>8, <1>9, <1>13, <1>23
  <2> QED
    BY <1>0, <1>12, <1>23, <2>1, <2>2
<1> QED
  BY <1>2, <1>15, <1>16, <1>17, <1>18, <1>19, <1>20, <1>21, <1>22, <1>23

(* A scan of the content reads on in it, or ends it at the closing quotes. *)
LEMMA ContentStopsAt ==
    ASSUME NEW t \in Seq(STRING), NEW p \in Nat, NEW triple, ContentStops(t, p)
    PROVE  ContentEnd(t, p, triple) = p
<1>1. PICK end : IsContentEnd(end, t, triple) /\ \A q : ContentEnd(t, q, triple) = end[q]
  BY ContentUnfolds
<1> QED
  BY <1>1 DEF IsContentEnd

LEMMA ContentEndsContent ==
    ASSUME NEW t \in Seq(STRING), NEW from \in 1 .. End(t),
           NEW st \in Seq(Delimiters), st # <<>>,
           NEW p \in from .. End(t), ReadTo(t, from, st[Len(st)], p)
    PROVE  EndsContent(t, from, st[Len(st)], p, scan_string_content(t, Lexer(p), st))
<1> DEFINE d == st[Len(st)]
           triple == d = "triple"
           q == ContentEnd(t, p, triple)
           k == FirstNot(t, q, {"dq"})
           r == scan_string_content(t, Lexer(p), st)
           x == Extent(r).to
<1>1. p \in 1 .. End(t) /\ p \in Nat /\ from \in Nat /\ Len(t) \in Nat /\ End(t) = Len(t) + 1
  BY TextLength
<1>2. \/ r.token \notin {"STRING_CONTENT", "STRING_END"}
      \/ r.token = "STRING_CONTENT" /\ x = q /\ Look(t, q) # "nul"
      \/ r.token = "STRING_CONTENT" /\ Look(t, q) = "$" /\ x = q + 1
      \/ r.token = "STRING_CONTENT" /\ triple /\ x = k /\ k < q + 3
         /\ Look(t, q) = "dq"
      \/ r.token = "STRING_END" /\ DollarEnds(t, q) /\ x >= q + 2
      \/ r.token = "STRING_END" /\ ~triple /\ q = p /\ Look(t, q) = "dq"
         /\ x = q + 1
      \/ r.token = "STRING_END" /\ triple /\ q = p /\ Look(t, q) = "dq"
         /\ x = k /\ k >= q + 3
  BY <1>1, ContentFinds DEF IsTriple
<1>0. d \in Delimiters /\ ReadTo(t, from, d, p)
  OBVIOUS
<1>3. q \in p .. End(t) /\ q \in Nat /\ q \in 1 .. End(t) /\ q \in from .. End(t)
  <2>1. q \in p .. End(t)
    BY <1>1, ContentEndIs
  <2> HIDE DEF q
  <2> QED
    BY <1>1, <2>1
<1>4. k \in q .. End(t) /\ k \in Nat /\ (Eof(t, k) \/ t[k] # "dq") /\ \A i \in q .. k - 1 : t[i] = "dq"
  <2> HIDE DEF q
  <2> QED
    BY <1>1, <1>3, FirstNotIs
<1>5. ASSUME NoDollar(t, p, q), Look(t, q) # "nul" PROVE ReadTo(t, from, d, q)
  <2>1. Look(t, p) # "nul"
    <3> SUFFICES ASSUME Look(t, p) = "nul" PROVE FALSE
      OBVIOUS
    <3>1. q = p
      BY <1>1, ContentStopsAt DEF ContentStops
    <3> HIDE DEF q
    <3> QED
      BY <1>5, <3>1
  <2> HIDE DEF d
  <2> QED
    BY <1>0, <1>5, <2>1, ReadOnTo DEF q
<1> SUFFICES EndsContent(t, from, d, p, r)
  OBVIOUS
<1> HIDE DEF r, k, q, d
<1>6. ASSUME r.token \in {"STRING_CONTENT", "STRING_END"}, Plain(t, p, x)
      PROVE  x \in Nat /\ q <= x /\ NoDollar(t, p, q) /\ Look(t, q) # "nul"
  <2>1. Extent(r).to \in Nat
    <3> DEFINE L == Lexer(p)
    <3>1. Placed(t, p, r.lexer)
      BY <1>1, LexerPlaced, ContentRight DEF Right, r
    <3> QED
      BY <1>1, <3>1, ExtentIs
  <2> HIDE DEF x
  <2>2. q <= x /\ Look(t, q) # "nul"
    <3>1. DollarEnds(t, q) => Look(t, q) = "bs"
      BY DEF DollarEnds
    <3>2. x = q \/ x = q + 1 \/ x = k \/ x >= q + 2
      BY <1>2, <1>6
    <3>3. q <= x
      BY <1>3, <1>4, <2>1, <3>2 DEF x
    <3>4. Look(t, q) # "nul"
      BY <1>2, <1>6, <3>1
    <3> QED
      BY <3>3, <3>4
  <2> HIDE DEF x
  <2> QED
    BY <1>1, <1>3, <1>6, <2>1, <2>2, PlainNoDollar DEF x
<1>7. ASSUME NEW i \in p .. x - 1, Look(t, i) = "$" PROVE ~Plain(t, p, x)
  <2>1. i \in Nat
    BY <1>1, <1>7
  <2>2. t[i] = "$"
    BY <1>7, <2>1, LookIs
  <2> QED
    BY <1>7, <2>2 DEF Plain
<1>8. ASSUME r.token = "STRING_CONTENT", Plain(t, p, x) PROVE ReadTo(t, from, d, x)
  <2>1. ReadTo(t, from, d, q) /\ x \in Nat /\ q <= x
    BY <1>5, <1>6, <1>8
  <2>2. CASE x = q
    BY <2>1, <2>2
  <2>3. CASE Look(t, q) = "$" /\ x = q + 1
    <3>1. q \in p .. x - 1
      BY <1>1, <1>3, <2>3
    <3> QED
      BY <1>7, <1>8, <2>3, <3>1
  <2>4. CASE triple /\ x = k /\ k < q + 3
    <3>1. ASSUME NEW e \in q .. k - 1, e \in ClosingQuote(t, from, d) PROVE FALSE
      <4>1. e + 2 <= Len(t) /\ t[e + 1] = "dq" /\ t[e + 2] = "dq"
        BY <1>1, <2>4, <3>1, ClosingIs
      <4>2. k = e + 1 \/ k = e + 2
        BY <1>3, <1>4, <2>4
      <4>3. ~Eof(t, k)
        BY <1>1, <1>3, <4>1, <4>2 DEF Eof
      <4> QED
        BY <1>4, <4>1, <4>2, <4>3
    <3>2. \A e \in from .. k - 1 : e \in from .. q - 1 \/ e \in q .. k - 1
      BY <1>1, <1>3, <1>4
    <3>3. ReadTo(t, from, d, k)
      BY <2>1, <2>4, <3>1, <3>2 DEF ReadTo
    <3> QED
      BY <2>4, <3>3
  <2> QED
    BY <1>2, <1>8, <2>2, <2>3, <2>4
<1>9. ASSUME r.token = "STRING_END", Plain(t, p, x)
      PROVE  /\ p \in ClosingQuote(t, from, d)
             /\ x = IF d = "triple" THEN FirstNot(t, p, {"dq"}) ELSE p + 1
  <2>0. x \in Nat
    BY <1>6, <1>9
  <2>1. CASE DollarEnds(t, q) /\ x >= q + 2
    <3> DEFINE i == q + 1
    <3>1. i \in p .. x - 1 /\ Look(t, i) = "$"
      BY <1>1, <1>3, <2>0, <2>1 DEF DollarEnds
    <3> HIDE DEF i, x
    <3> QED
      BY <1>7, <1>9, <3>1
  <2>2. CASE ~triple /\ q = p /\ Look(t, q) = "dq" /\ x = q + 1
    <3>1. p <= Len(t) /\ t[p] = "dq"
      BY <1>1, <2>2, LookIs
    <3>2. EvenRun(t, from, p)
      BY <1>0, <2>2 DEF ReadTo
    <3>3. p \in from .. Len(t)
      BY <1>1, <3>1
    <3> QED
      BY <2>2, <3>1, <3>2, <3>3, ClosingSingle
  <2>3. CASE triple /\ q = p /\ Look(t, q) = "dq" /\ x = k /\ k >= q + 3
    <3>1. p \in from .. Len(t) - 2
      BY <1>1, <1>4, <2>3
    <3>2. \A i \in 0 .. 2 : p + i \in q .. k - 1
      BY <1>1, <1>4, <2>3
    <3>3. \A i \in 0 .. 2 : t[p + i] = "dq"
      BY <1>4, <3>2
    <3>4. p \in ClosingQuote(t, from, "triple")
      BY <3>1, <3>3, ClosingTriple
    <3> QED
      BY <2>3, <3>4 DEF k
  <2> QED
    BY <1>2, <1>9, <2>1, <2>2, <2>3
<1> QED
  BY <1>8, <1>9 DEF EndsContent

-----------------------------------------------------------------------------
(* Of the literals that a version has open, the text behind the beginning  *)
(* is plain for the innermost only, where the version is in its content;   *)
(* and that content is read without its end.                               *)
BegunIs(t, h) ==
    \A m \in 1 .. Len(h.open) :
        /\ h.begun[m] <= h.at
        /\ Plain(t, h.begun[m], h.at) =>
             m = Len(h.open) /\ InLiteral(h) /\ ReadTo(t, h.begun[m], h.open[m], h.at)

(* The interpolations of a version are in different literals, all open.    *)
CodeIs(h) ==
    \A k \in 1 .. Len(h.code) :
        /\ h.code[k] <= Len(h.open)
        /\ \A l \in k + 1 .. Len(h.code) : h.code[k] < h.code[l]

LiteralsAre(t, h) == BegunIs(t, h) /\ CodeIs(h)

LEMMA HeadIs ==
    ASSUME NEW t \in Seq(STRING), NEW h \in Heads(t), Len(h.begun) = Len(h.open)
    PROVE  /\ h.at \in 1 .. End(t) /\ h.at \in Nat
           /\ h.open \in Seq(Delimiters) /\ h.begun \in Seq(1 .. End(t)) /\ h.code \in Seq(Nat)
           /\ Len(h.open) \in Nat /\ Len(h.code) \in Nat
           /\ \A m \in 1 .. Len(h.open) :
                h.begun[m] \in 1 .. End(t) /\ h.begun[m] \in Nat /\ h.open[m] \in Delimiters
           /\ \A k \in 1 .. Len(h.code) : h.code[k] \in Nat
<1>1. /\ h.at \in 1 .. End(t) /\ h.open \in Seq(Delimiters)
      /\ h.begun \in Seq(1 .. End(t)) /\ h.code \in Seq(Nat)
  BY DEF Heads
<1>2. End(t) \in Nat
  BY TextLength
<1>3. \A m \in 1 .. Len(h.begun) : h.begun[m] \in 1 .. End(t)
  <2> DEFINE N == 1 .. End(t)
             g == h.begun
  <2>1. g \in Seq(N)
    BY <1>1
  <2> HIDE DEF N, g
  <2>2. \A m \in 1 .. Len(g) : g[m] \in N
    BY <2>1
  <2> QED
    BY <2>2 DEF N, g
<1>4. \A m \in 1 .. Len(h.open) : h.open[m] \in Delimiters
  <2> HIDE DEF Delimiters
  <2> QED
    BY <1>1
<1>5. \A k \in 1 .. Len(h.code) : h.code[k] \in Nat
  BY <1>1
<1> QED
  BY <1>1, <1>2, <1>3, <1>4, <1>5

(* The version reads on in the literals it has open.                       *)
LEMMA LiteralsKept ==
    ASSUME NEW t \in Seq(STRING), NEW h \in Heads(t), Len(h.begun) = Len(h.open),
           LiteralsAre(t, h), NEW n \in Heads(t),
           n.open = h.open, n.begun = h.begun, n.code = h.code, h.at <= n.at,
           \A from : /\ InLiteral(h) /\ from \in 1 .. h.at
                     /\ ReadTo(t, from, h.open[Len(h.open)], h.at)
                     /\ Plain(t, h.at, n.at)
                     => ReadTo(t, from, h.open[Len(h.open)], n.at)
    PROVE  LiteralsAre(t, n)
<1>1. CodeIs(n)
  BY DEF LiteralsAre, CodeIs
<1>2. InLiteral(n) <=> InLiteral(h)
  BY DEF InLiteral
<1>3. ASSUME NEW m \in 1 .. Len(h.open)
      PROVE  /\ h.begun[m] <= n.at
             /\ Plain(t, h.begun[m], n.at) =>
                  m = Len(h.open) /\ InLiteral(h) /\ ReadTo(t, h.begun[m], h.open[m], n.at)
  <2> DEFINE from == h.begun[m]
             d == h.open[m]
  <2>1. /\ from \in 1 .. End(t) /\ from \in Nat /\ d \in Delimiters /\ h.at \in Nat
        /\ n.at \in Nat
    BY HeadIs, TextLength DEF Heads
  <2>2. /\ from <= h.at
        /\ Plain(t, from, h.at) =>
             m = Len(h.open) /\ InLiteral(h) /\ ReadTo(t, from, d, h.at)
    BY DEF LiteralsAre, BegunIs
  <2>0. m = Len(h.open) => d = h.open[Len(h.open)]
    OBVIOUS
  <2> HIDE DEF from, d
  <2>3. from <= n.at
    BY <2>1, <2>2
  <2>4. ASSUME Plain(t, from, n.at)
        PROVE  m = Len(h.open) /\ InLiteral(h) /\ ReadTo(t, from, d, n.at)
    <3>1. Plain(t, from, h.at) /\ Plain(t, h.at, n.at)
      BY <2>1, <2>2, <2>4, PlainPart
    <3>2. from \in 1 .. h.at
      BY <2>1, <2>2
    <3> QED
      BY <2>0, <2>1, <2>2, <3>1, <3>2
  <2> QED
    BY <2>3, <2>4 DEF from, d
<1>4. BegunIs(t, n)
  BY <1>2, <1>3 DEF BegunIs
<1> QED
  BY <1>1, <1>4 DEF LiteralsAre

(* It begins one, in code.                                                 *)
LEMMA LiteralBegins ==
    ASSUME NEW t \in Seq(STRING), NEW h \in Heads(t), Len(h.begun) = Len(h.open),
           LiteralsAre(t, h), ~InLiteral(h), NEW n \in Heads(t), NEW d \in Delimiters,
           n.open = Append(h.open, d), n.begun = Append(h.begun, n.at), n.code = h.code,
           h.at <= n.at
    PROVE  LiteralsAre(t, n)
<1>0. /\ h.open \in Seq(Delimiters) /\ h.begun \in Seq(1 .. End(t)) /\ Len(h.open) \in Nat
      /\ h.at \in Nat /\ n.at \in Nat /\ n.at \in 1 .. End(t) /\ h.code \in Seq(Nat)
      /\ Len(h.code) \in Nat
  BY HeadIs, TextLength DEF Heads
<1> DEFINE k == Len(h.open) + 1
<1>1. /\ Len(n.open) = k /\ k \in Nat /\ n.open[k] = d
      /\ \A m \in 1 .. Len(h.open) : n.open[m] = h.open[m]
  BY <1>0
<1>2. /\ n.begun[k] = n.at
      /\ \A m \in 1 .. Len(h.open) : n.begun[m] = h.begun[m]
  <2> DEFINE N == 1 .. End(t)
             g == h.begun
             a == n.at
  <2>1. g \in Seq(N) /\ a \in N /\ Len(g) = Len(h.open) /\ Len(h.open) \in Nat
    BY <1>0
  <2> HIDE DEF N, g, a
  <2>2. /\ Append(g, a)[Len(g) + 1] = a
        /\ \A m \in 1 .. Len(g) : Append(g, a)[m] = g[m]
    BY <2>1
  <2> QED
    BY <2>1, <2>2 DEF g, a
<1>3. CodeIs(n)
  <2>1. \A i \in 1 .. Len(h.code) : h.code[i] \in Nat /\ h.code[i] <= Len(h.open)
    BY HeadIs DEF LiteralsAre, CodeIs
  <2>2. \A i \in 1 .. Len(h.code) : h.code[i] <= k
    BY <1>0, <2>1
  <2> HIDE DEF k
  <2> QED
    BY <1>1, <2>2 DEF LiteralsAre, CodeIs
<1>4. InLiteral(n)
  <2>1. h.code # <<>> => Len(h.code) \in 1 .. Len(h.code)
    BY <1>0
  <2>2. h.code # <<>> => h.code[Len(h.code)] \in Nat /\ h.code[Len(h.code)] <= Len(h.open)
    BY <2>1, HeadIs DEF LiteralsAre, CodeIs
  <2>3. h.code # <<>> => h.code[Len(h.code)] < k
    BY <1>0, <2>2
  <2>4. n.open # <<>>
    <3> SUFFICES ASSUME n.open = <<>> PROVE FALSE
      OBVIOUS
    <3>1. Len(n.open) = 0
      OBVIOUS
    <3> QED
      BY <1>0, <1>1, <3>1
  <2> HIDE DEF k
  <2> QED
    BY <1>1, <2>3, <2>4 DEF InLiteral
<1>5. ASSUME NEW m \in 1 .. Len(h.open)
      PROVE  n.begun[m] <= n.at /\ ~Plain(t, n.begun[m], n.at)
  <2> DEFINE from == h.begun[m]
  <2>1. from \in Nat /\ from <= h.at /\ ~Plain(t, from, h.at)
    BY HeadIs DEF LiteralsAre, BegunIs
  <2>2. n.begun[m] = from
    BY <1>2
  <2> HIDE DEF from
  <2>3. from <= n.at /\ (Plain(t, from, n.at) => Plain(t, from, h.at))
    BY <1>0, <2>1, PlainPart
  <2> QED
    BY <2>1, <2>2, <2>3
<1>6. ReadTo(t, n.at, d, n.at)
  <2>1. EvenRun(t, n.at, n.at)
    BY <1>0, RunBegins
  <2> QED
    BY <1>0, <2>1 DEF ReadTo
<1>7. \A m \in 1 .. k : m \in 1 .. Len(h.open) \/ m = k
  BY <1>0
<1> HIDE DEF k
<1>8. BegunIs(t, n)
  BY <1>0, <1>1, <1>2, <1>4, <1>5, <1>6, <1>7 DEF BegunIs
<1> QED
  BY <1>3, <1>8 DEF LiteralsAre

(* It ends the innermost, in its content.                                  *)
LEMMA LiteralCloses ==
    ASSUME NEW t \in Seq(STRING), NEW h \in Heads(t), Len(h.begun) = Len(h.open),
           LiteralsAre(t, h), InLiteral(h), NEW n \in Heads(t),
           n.open = SubSeq(h.open, 1, Len(h.open) - 1),
           n.begun = SubSeq(h.begun, 1, Len(h.open) - 1), n.code = h.code,
           h.at <= n.at
    PROVE  LiteralsAre(t, n)
<1>0. /\ h.open \in Seq(Delimiters) /\ h.begun \in Seq(1 .. End(t)) /\ Len(h.open) \in Nat
      /\ h.at \in Nat /\ n.at \in Nat /\ h.code \in Seq(Nat) /\ Len(h.code) \in Nat
      /\ h.open # <<>>
  BY HeadIs, TextLength DEF Heads, InLiteral
<1> DEFINE k == Len(h.open) - 1
<1>1. k \in Nat /\ k \in 0 .. Len(h.open) /\ k < Len(h.open) /\ 1 .. k \subseteq 1 .. Len(h.open)
  BY <1>0
<1> HIDE DEF k
<1>2. Len(n.open) = k
  BY <1>0, <1>1 DEF k
<1>3. \A m \in 1 .. k : n.begun[m] = h.begun[m]
  <2> DEFINE N == 1 .. End(t)
             g == h.begun
  <2>1. g \in Seq(N) /\ k \in 0 .. Len(g)
    BY <1>0, <1>1
  <2>2. n.begun = SubSeq(g, 1, k)
    BY DEF k
  <2> HIDE DEF N, g
  <2>3. \A m \in 1 .. k : SubSeq(g, 1, k)[m] = g[m]
    BY <1>1, <2>1
  <2> QED
    BY <2>2, <2>3 DEF g
<1>4. CodeIs(n)
  <2> DEFINE c == h.code
             l == Len(c)
  <2>1. c # <<>> => l \in 1 .. l /\ c[l] < Len(h.open)
    BY <1>0 DEF InLiteral
  <2>2. \A i \in 1 .. l : c[i] \in Nat
    BY <1>0
  <2>3. \A i \in 1 .. l : \A j \in i + 1 .. l : c[i] < c[j]
    BY DEF LiteralsAre, CodeIs
  <2>4. ASSUME NEW i \in 1 .. l PROVE c[i] <= k
    <3>1. c # <<>>
      OBVIOUS
    <3>2. i = l \/ l \in i + 1 .. l
      BY <1>0
    <3>3. c[i] \in Nat /\ c[l] \in Nat /\ c[l] < Len(h.open)
      BY <2>1, <2>2, <3>1
    <3>4. c[i] < Len(h.open)
      <4> HIDE DEF c, l
      <4> QED
        BY <1>0, <2>3, <3>2, <3>3
    <3> QED
      BY <1>0, <3>3, <3>4 DEF k
  <2> QED
    BY <1>2, <2>3, <2>4 DEF CodeIs
<1>5. ASSUME NEW m \in 1 .. k
      PROVE  n.begun[m] <= n.at /\ ~Plain(t, n.begun[m], n.at)
  <2> DEFINE from == h.begun[m]
  <2>1. m \in 1 .. Len(h.open) /\ m # Len(h.open)
    BY <1>1
  <2>2. from \in Nat /\ from <= h.at /\ ~Plain(t, from, h.at)
    BY <2>1, HeadIs DEF LiteralsAre, BegunIs
  <2>3. n.begun[m] = from
    BY <1>3
  <2> HIDE DEF from
  <2>4. from <= n.at /\ (Plain(t, from, n.at) => Plain(t, from, h.at))
    BY <1>0, <2>2, PlainPart
  <2> QED
    BY <2>2, <2>3, <2>4
<1>6. BegunIs(t, n)
  BY <1>2, <1>5 DEF BegunIs
<1> QED
  BY <1>4, <1>6 DEF LiteralsAre

(* No content that a version is in is read on as plain text: the version   *)
(* is in code, or goes into it.                                            *)
LEMMA LiteralsInCode ==
    ASSUME NEW t \in Seq(STRING), NEW h \in Heads(t), Len(h.begun) = Len(h.open),
           LiteralsAre(t, h), NEW n \in Heads(t), n.open = h.open, n.begun = h.begun,
           CodeIs(n), h.at <= n.at,
           ~InLiteral(h) \/ (Look(t, h.at) = "$" /\ h.at < n.at)
    PROVE  LiteralsAre(t, n)
<1>0. h.at \in Nat /\ n.at \in Nat
  BY HeadIs, TextLength DEF Heads
<1>1. ASSUME NEW m \in 1 .. Len(h.open)
      PROVE  h.begun[m] <= n.at /\ ~Plain(t, h.begun[m], n.at)
  <2> DEFINE from == h.begun[m]
  <2>1. from \in Nat /\ from <= h.at /\ (~InLiteral(h) => ~Plain(t, from, h.at))
    BY HeadIs DEF LiteralsAre, BegunIs
  <2> HIDE DEF from
  <2>2. from <= n.at
    BY <1>0, <2>1
  <2>3. CASE ~InLiteral(h)
    BY <1>0, <2>1, <2>2, <2>3, PlainPart DEF from
  <2>4. CASE Look(t, h.at) = "$" /\ h.at < n.at
    <3>1. t[h.at] = "$" /\ h.at \in from .. n.at - 1
      BY <1>0, <2>1, <2>4, LookIs
    <3>2. ~Plain(t, from, n.at)
      BY <3>1 DEF Plain
    <3> QED
      BY <2>2, <3>2 DEF from
  <2> QED
    BY <2>3, <2>4
<1> QED
  BY <1>1 DEF LiteralsAre, BegunIs

LEMMA CodePushed ==
    ASSUME NEW h, NEW n, h.code \in Seq(Nat), Len(h.open) \in Nat, CodeIs(h), InLiteral(h),
           n.open = h.open, n.code = Append(h.code, Len(h.open))
    PROVE  CodeIs(n)
<1> DEFINE c == h.code
           a == Len(h.open)
           l == Len(c)
           d == n.code
<1>1. /\ c \in Seq(Nat) /\ a \in Nat /\ l \in Nat /\ Len(d) = l + 1 /\ d[l + 1] = a
      /\ \A i \in 1 .. l : d[i] = c[i] /\ c[i] \in Nat
  OBVIOUS
<1>2. \A i \in 1 .. l : c[i] <= a /\ \A j \in i + 1 .. l : c[i] < c[j]
  BY DEF CodeIs
<1>3. c # <<>> => c[l] < a
  BY DEF InLiteral
<1>4. \A i \in 1 .. l : c # <<>>
  OBVIOUS
<1> HIDE DEF c, a, l, d
<1>5. ASSUME NEW i \in 1 .. l PROVE c[i] < a
  <2>1. i = l \/ l \in i + 1 .. l
    BY <1>1
  <2>2. c[l] < a /\ c[l] \in Nat /\ c[i] \in Nat
    <3>1. l \in 1 .. l
      BY <1>1
    <3>2. c[l] \in Nat /\ c[i] \in Nat
      BY <1>1, <3>1
    <3> QED
      BY <1>3, <1>4, <3>2
  <2>3. CASE i = l
    BY <2>2, <2>3
  <2>4. CASE l \in i + 1 .. l
    <3>1. c[i] < c[l]
      BY <1>2, <2>4
    <3> QED
      BY <1>1, <2>2, <3>1
  <2> QED
    BY <2>1, <2>3, <2>4
<1>6. \A i \in 1 .. l + 1 : d[i] <= a
  BY <1>1, <1>2
<1>7. \A i \in 1 .. l + 1 : \A j \in i + 1 .. l + 1 : d[i] < d[j]
  <2> TAKE i \in 1 .. l + 1
  <2> TAKE j \in i + 1 .. l + 1
  <2>1. i \in 1 .. l /\ (j = l + 1 \/ j \in i + 1 .. l)
    BY <1>1
  <2>2. d[i] = c[i]
    BY <1>1, <2>1
  <2>3. CASE j = l + 1
    BY <1>1, <1>5, <2>1, <2>2, <2>3
  <2>4. CASE j \in i + 1 .. l
    <3>1. j \in 1 .. l
      BY <1>1, <2>1, <2>4
    <3> QED
      BY <1>1, <1>2, <2>1, <2>2, <2>4, <3>1
  <2> QED
    BY <2>1, <2>3, <2>4
<1> QED
  BY <1>1, <1>6, <1>7 DEF CodeIs, a, d

LEMMA CodePopped ==
    ASSUME NEW h, NEW n, h.code \in Seq(Nat), h.code # <<>>, CodeIs(h), n.open = h.open,
           n.code = SubSeq(h.code, 1, Len(h.code) - 1)
    PROVE  CodeIs(n)
<1> DEFINE c == h.code
           d == n.code
           l == Len(c) - 1
<1>1. /\ l \in Nat /\ Len(d) = l /\ \A i \in 1 .. l : d[i] = c[i]
      /\ 1 .. l \subseteq 1 .. Len(c)
      /\ \A i \in 1 .. l : i + 1 .. l \subseteq i + 1 .. Len(c)
      /\ \A i \in 1 .. l : \A j \in i + 1 .. l : j \in 1 .. l
  OBVIOUS
<1>2. \A i \in 1 .. Len(c) : c[i] <= Len(h.open) /\ \A j \in i + 1 .. Len(c) : c[i] < c[j]
  BY DEF CodeIs
<1> HIDE DEF c, d, l
<1>3. \A i \in 1 .. l : d[i] <= Len(h.open) /\ \A j \in i + 1 .. l : d[i] < d[j]
  BY <1>1, <1>2
<1> QED
  BY <1>1, <1>3 DEF CodeIs, d

LEMMA InternalLiterals ==
    ASSUME ParseInv, NEW v \in Versions, ~Eof(text, head[v].at),
           LiteralsAre(text, head[v]), InLiteral(head[v]) => Interpolation(head[v])
    PROVE  LiteralsAre(text, Internal(head[v]))
<1> DEFINE h == head[v]
           n == Internal(h)
           t == text
           p == h.at
<1>1. /\ t \in Seq(STRING) /\ h \in Heads(t) /\ Len(h.begun) = Len(h.open)
      /\ DOMAIN h = DOMAIN Start
  BY TextIs DEF ParseInv, StackInv
<1>2. n \in Heads(t) /\ n.open = h.open /\ n.begun = h.begun
  BY InternalMoves
<1>3. /\ p \in Nat /\ p \in 1 .. End(t) /\ p <= Len(t) /\ p + 1 \in 1 .. End(t)
      /\ h.code \in Seq(Nat) /\ Len(h.open) \in Nat
  BY <1>1, HeadIs, TextLength DEF Eof
<1>4. LiteralsAre(t, h) /\ CodeIs(h) /\ (InLiteral(h) => Look(t, p) = "$")
  BY DEF LiteralsAre, Interpolation
<1>5. p < FirstNot(t, p + 1, WordChar) /\ p <= FirstIn(t, p, LineEnd \cup {"nul"})
  <2>1. FirstNot(t, p + 1, WordChar) \in p + 1 .. End(t)
    BY <1>1, <1>3, FirstNotIs
  <2>2. FirstIn(t, p, LineEnd \cup {"nul"}) \in p .. End(t)
    BY <1>1, <1>3, FirstInIs
  <2> QED
    BY <1>1, <1>3, <2>1, <2>2, TextLength
<1>6. CASE InLiteral(h)
  <2>1. \/ Look(t, p + 1) = "{" /\ n.at = p + 2 /\ n.code = Append(h.code, Len(h.open))
        \/ n.at = FirstNot(t, p + 1, WordChar) /\ n.code = h.code
    BY <1>1, <1>6 DEF Internal, Start
  <2> HIDE DEF n, p, h, t
  <2>2. p < n.at
    <3>1. CASE n.at = p + 2
      BY <1>3, <3>1
    <3>2. CASE n.at = FirstNot(t, p + 1, WordChar)
      BY <1>5, <3>2
    <3> QED
      BY <2>1, <3>1, <3>2
  <2>3. CodeIs(n)
    <3>1. CASE n.code = h.code
      BY <1>2, <1>4, <3>1 DEF CodeIs
    <3>2. CASE n.code = Append(h.code, Len(h.open))
      BY <1>2, <1>3, <1>4, <1>6, <3>2, CodePushed
    <3> QED
      BY <2>1, <3>1, <3>2
  <2>4. h.at <= n.at
    BY <1>2, <1>3, <2>2, TextLength DEF p, Heads
  <2>5. LiteralsAre(t, n)
    BY <1>1, <1>2, <1>4, <1>6, <2>2, <2>3, <2>4, LiteralsInCode DEF p
  <2> QED
    BY <2>5 DEF n, t, h
<1>7. CASE ~InLiteral(h)
  <2>1. /\ n.at = p + 1 \/ n.at = FirstIn(t, p, LineEnd \cup {"nul"})
        /\ \/ n.code = h.code
           \/ h.code # <<>> /\ n.code = SubSeq(h.code, 1, Len(h.code) - 1)
    BY <1>1, <1>7 DEF Internal, Start
  <2> HIDE DEF n, p, h, t
  <2>2. p <= n.at
    BY <1>3, <1>5, <2>1
  <2>3. CodeIs(n)
    <3>1. CASE n.code = h.code
      BY <1>2, <1>4, <3>1 DEF CodeIs
    <3>2. CASE h.code # <<>> /\ n.code = SubSeq(h.code, 1, Len(h.code) - 1)
      BY <1>2, <1>3, <1>4, <3>2, CodePopped
    <3> QED
      BY <2>1, <3>1, <3>2
  <2>4. LiteralsAre(t, n)
    BY <1>1, <1>2, <1>4, <1>7, <2>2, <2>3, LiteralsInCode DEF p
  <2> QED
    BY <2>4 DEF n, t, h
<1> QED
  BY <1>6, <1>7

(* What was read gently has no end of a literal in it.                     *)
LEMMA GentleReadTo ==
    ASSUME NEW t \in Seq(STRING), NEW p \in 1 .. End(t), NEW q \in p .. End(t),
           Gentle(t, p, q), Plain(t, p, q),
           NEW from \in 1 .. p, NEW d \in Delimiters, ReadTo(t, from, d, p)
    PROVE  ReadTo(t, from, d, q)
<1>1. p \in Nat /\ q \in Nat /\ from \in Nat /\ p <= q /\ from <= p
  BY TextLength
<1>2. \A i \in p .. q - 1 : t[i] \notin {"bs", "dq"}
  BY DEF Gentle
<1>3. ASSUME NEW e \in from .. q - 1 PROVE e \notin ClosingQuote(t, from, d)
  <2>1. CASE e \in from .. p - 1
    BY <2>1 DEF ReadTo
  <2>2. CASE e \in p .. q - 1
    <3>1. t[e] # "dq"
      BY <1>2, <2>2
    <3> QED
      BY <1>1, <3>1, ClosingIs
  <2> QED
    BY <1>1, <2>1, <2>2
<1>4. CASE q = p
  BY <1>4
<1>5. CASE q # p
  <2>1. q - 1 \in p .. q - 1
    BY <1>1, <1>5
  <2>2. t[q - 1] # "bs"
    BY <1>2, <2>1
  <2>3. EvenRun(t, from, q)
    BY <1>1, <2>2, RunBegins
  <2> QED
    BY <1>3, <2>3 DEF ReadTo
<1> QED
  BY <1>4, <1>5

(* The rows of literals.                                                   *)
LEMMA LiteralRow ==
    ASSUME NEW V \in external_scanner_states, "STRING_CONTENT" \in V
    PROVE  V = Recovery \/ V = InString
<1>1. ASSUME NEW s, V = {"MULTILINE_COMMENT"} \cup s, "STRING_CONTENT" \notin s PROVE FALSE
  BY <1>1
<1> QED
  BY <1>1 DEF external_scanner_states

(* In another row no literal ends.                                         *)
Endless(r, st) == Keeps(r, st) \/ Starting(r, st) \/ Aborting(r, st)

LEMMA EndlessScan ==
    ASSUME NEW t, NEW p, NEW st, NEW V, "STRING_CONTENT" \notin V
    PROVE  Endless(scan(t, p, st, V), st)
<1> DEFINE semicolon == SemicolonScan(t, p, st, V)
           dot       == DotScan(t, semicolon, V)
           keyword   == KeywordScan(t, dot, V)
           start     == StartScan(t, keyword, V)
           comment   == CommentScan(t, start, V)
<1>0. \A r : Endless(r, st) /\ r.token = NoToken => r.stack = st
  BY DEF Endless, Keeps, Starting, Aborting, NoToken
<1>1. Keeps(semicolon, st)
  BY SemicolonKeeps, RefuseKeeps DEF SemicolonScan, Then
<1> HIDE DEF semicolon
<1>2. Keeps(dot, st)
  BY <1>1, ImportDotKeeps DEF DotScan, Then, Keeps
<1> HIDE DEF dot
<1>3. Keeps(keyword, st)
  BY <1>2, ConstructorKeeps, RefuseKeeps DEF KeywordScan, Then, Keeps
<1> HIDE DEF keyword
<1>4. ContentScan(t, keyword, V) = keyword
  BY Zenon DEF ContentScan, Then
<1>5. Endless(start, st)
  BY <1>3, StartKeepsOrPushes, RefuseKeeps DEF StartScan, Then, Keeps, Endless
<1> HIDE DEF start
<1>6. Endless(comment, st)
  <2>1. start.token = NoToken =>
          Keeps(scan_multiline_comment(t, start.lexer, start.stack), st)
    BY <1>0, <1>5, CommentKeeps
  <2> QED
    BY <1>5, <2>1, Zenon DEF CommentScan, Then, Endless
<1> HIDE DEF comment
<1>7. Endless(SafeNavScan(t, comment, V), st)
  <2>1. comment.token = NoToken =>
          Keeps(scan_safe_nav(t, comment.lexer, comment.stack), st)
    BY <1>0, <1>6, SafeNavKeeps
  <2> QED
    BY <1>6, <2>1, Zenon DEF SafeNavScan, Then, Endless
<1>8. Endless(scan_import_list_delimiter(t, keyword.lexer, keyword.stack), st)
  BY <1>3, ImportListKeeps DEF Keeps, Endless
<1>9. Endless(AfterKeyword(t, keyword, V), st)
  BY <1>4, <1>7, <1>8, Zenon DEF AfterKeyword, comment, start
<1>10. Endless(scan_safe_nav(t, semicolon.lexer, semicolon.stack), st)
  BY <1>1, SafeNavKeeps DEF Keeps, Endless
<1>11. Endless(AfterSemicolon(t, semicolon, V), st)
  BY <1>9, <1>10, Zenon DEF AfterSemicolon, dot, keyword
<1> QED
  BY <1>11 DEF scan, semicolon

LEMMA ContentToken ==
    ASSUME NEW t, NEW L, NEW st, st # <<>>
    PROVE  scan_string_content(t, L, st).token \in {NoToken, "STRING_CONTENT", "STRING_END"}
<1>1. \A M : /\ Refuse(M, st).token = NoToken
             /\ Accept(M, "STRING_CONTENT", st).token = "STRING_CONTENT"
             /\ Ends(M, st).token = "STRING_END"
  BY DEF Refuse, Accept, Ends
<1> DEFINE Is(r) == r.token \in {NoToken, "STRING_CONTENT", "STRING_END"}
<1>2. \A M : Is(Refuse(M, st)) /\ Is(Accept(M, "STRING_CONTENT", st)) /\ Is(Ends(M, st))
  BY <1>1
<1> HIDE DEF Is
<1>3. Is(scan_string_content(t, L, st))
  BY <1>2, Zenon DEF scan_string_content
<1> QED
  BY <1>3 DEF Is

(* The version a token leads to, by the token.                             *)
LEMMA ReachedToken ==
    ASSUME NEW h, NEW r, NEW w
    PROVE  LET n == Reached(h, r, w)
               x == Extent(r)
               k == Len(h.open) - 1
           IN  /\ n.at = x.to /\ n.code = h.code
               /\ r.token \notin {"STRING_START", "STRING_END"} =>
                    n.open = h.open /\ n.begun = h.begun
               /\ r.token = "STRING_START" =>
                    /\ n.open = Append(h.open, DelimiterOf(text, x))
                    /\ n.begun = Append(h.begun, n.at)
               /\ r.token = "STRING_END" /\ h.open # <<>> =>
                    n.open = SubSeq(h.open, 1, k) /\ n.begun = SubSeq(h.begun, 1, k)
<1> DEFINE x == Extent(r)
           k == Len(h.open) - 1
           n == Reached(h, r, w)
<1> SUFFICES /\ n.at = x.to /\ n.code = h.code
             /\ r.token \notin {"STRING_START", "STRING_END"} =>
                  n.open = h.open /\ n.begun = h.begun
             /\ r.token = "STRING_START" =>
                  /\ n.open = Append(h.open, DelimiterOf(text, x))
                  /\ n.begun = Append(h.begun, n.at)
             /\ r.token = "STRING_END" /\ h.open # <<>> =>
                  n.open = SubSeq(h.open, 1, k) /\ n.begun = SubSeq(h.begun, 1, k)
  OBVIOUS
<1>1. CASE r.token = "STRING_START"
  BY <1>1 DEF Reached
<1>2. CASE r.token = "STRING_END" /\ h.open # <<>>
  BY <1>2 DEF Reached
<1>3. CASE r.token # "STRING_START" /\ ~(r.token = "STRING_END" /\ h.open # <<>>)
  BY <1>3 DEF Reached
<1> QED
  BY <1>1, <1>2, <1>3

(* What is found in a literal and in code.                                 *)
LEMMA FoundLiterals ==
    ASSUME ParseInv, NEW v \in Versions, NEW V \in RowsOf(head[v])
    PROVE  LET h == head[v]
               r == Found(v, V)
           IN  /\ InLiteral(h) =>
                    \/ Calm(text, h.at, r)
                    \/ r.token = NoToken
                    \/ /\ V = InString
                       /\ r = scan_string_content(text, Lexer(h.at), h.open)
                       /\ r.token \in {"STRING_CONTENT", "STRING_END"}
               /\ ~InLiteral(h) => r.token # "STRING_END"
<1> DEFINE h == head[v]
           p == h.at
           st == h.open
           r == Found(v, V)
           c == scan_string_content(text, Lexer(p), st)
<1> SUFFICES /\ InLiteral(h) =>
                  \/ Calm(text, p, r)
                  \/ r.token = NoToken
                  \/ V = InString /\ r = c /\ r.token \in {"STRING_CONTENT", "STRING_END"}
             /\ ~InLiteral(h) => r.token # "STRING_END"
  OBVIOUS
<1>1. text \in Seq(STRING) /\ p \in 1 .. End(text)
  BY TextIs
<1>2. r = scan(text, p, st, V)
  BY LoadedFits DEF ParseInv, Found
<1>3. /\ V \in external_scanner_states
      /\ InLiteral(h) => "STRING_CONTENT" \in V
      /\ ~InLiteral(h) => V # InString
  BY ParseAssumption DEF RowsOf
<1>4. InLiteral(h) => st # <<>>
  BY DEF InLiteral
<1> HIDE DEF p, st, r, h
<1>5. V = Recovery => Calm(text, p, r)
  BY <1>1, <1>2, RecoveryCalm
<1>6. CASE InLiteral(h)
  <2>1. V = Recovery \/ V = InString
    BY <1>3, <1>6, LiteralRow
  <2>2. V = InString => r = c \/ r.token = NoToken
    <3> HIDE DEF c
    <3> QED
      BY <1>1, <1>2, <1>4, <1>6, InStringScan DEF c
  <2>3. c.token \in {NoToken, "STRING_CONTENT", "STRING_END"}
    BY <1>4, <1>6, ContentToken
  <2> HIDE DEF c
  <2> QED
    BY <1>5, <1>6, <2>1, <2>2, <2>3
<1>7. CASE ~InLiteral(h)
  <2>1. CASE "STRING_CONTENT" \in V
    <3>1. V = Recovery
      BY <1>3, <1>7, <2>1, LiteralRow
    <3> QED
      BY <1>5, <1>7, <3>1 DEF Calm, Literals
  <2>2. CASE "STRING_CONTENT" \notin V
    <3>1. Endless(r, st)
      BY <1>2, <2>2, EndlessScan
    <3> QED
      BY <1>7, <3>1 DEF Endless, Keeps, Starting, Aborting
  <2> QED
    BY <2>1, <2>2
<1> QED
  BY <1>6, <1>7

LEMMA CalmGently ==
    ASSUME NEW t \in Seq(STRING), NEW p \in 1 .. End(t), NEW r, GentlyBy(t, p, r.lexer)
    PROVE  Gentle(t, p, Extent(r).to)
  BY DEF GentlyBy, Extent

LEMMA ExtentBehind ==
    ASSUME NEW t \in Seq(STRING), NEW p \in 1 .. End(t), NEW r, Placed(t, p, r.lexer)
    PROVE  Extent(r).to \in p .. End(t)
<1>1. r.lexer.at \in p .. End(t) /\ r.lexer.to \in {Nowhere} \cup (p .. End(t))
  BY DEF Placed
<1> QED
  BY <1>1 DEF Extent

LEMMA ExternalLiterals ==
    ASSUME ParseInv, NEW v \in Versions, NEW V \in Rows, LexExternal(v, V),
           LiteralsAre(text, head[v])
    PROVE  LiteralsAre(text, Reached(head[v], Found(v, V), payload'))
<1> DEFINE h == head[v]
           p == h.at
           t == text
           r == Found(v, V)
           n == Reached(h, r, payload')
           x == Extent(r)
           last == h.open[Len(h.open)]
<1>1. /\ t \in Seq(STRING) /\ h \in Heads(t) /\ p \in 1 .. End(t)
      /\ Len(h.begun) = Len(h.open) /\ h.state = h.open /\ LiteralsAre(t, h)
  BY TextIs DEF ParseInv
<1>2. /\ V \in RowsOf(h) /\ r.token \notin {NoToken, "abort"}
      /\ head' = [head EXCEPT ![v] = n] /\ text' = text
  BY DEF LexExternal
<1>3. n \in Heads(t)
  <2>1. ParseInv'
    BY LexExternalParses
  <2>2. head' \in [Versions -> Heads(text')]
    BY <2>1 DEF ParseInv, TypeOK, Heads
  <2>3. head'[v] = n
    <3> HIDE DEF n
    <3> QED
      BY <1>2 DEF ParseInv, TypeOK
  <2> HIDE DEF n
  <2> QED
    BY <1>2, <2>2, <2>3
<1>4. /\ n.at = x.to /\ n.code = h.code
      /\ r.token \notin {"STRING_START", "STRING_END"} =>
           n.open = h.open /\ n.begun = h.begun
      /\ r.token = "STRING_START" =>
           /\ n.open = Append(h.open, DelimiterOf(t, x))
           /\ n.begun = Append(h.begun, n.at)
      /\ r.token = "STRING_END" /\ h.open # <<>> =>
           /\ n.open = SubSeq(h.open, 1, Len(h.open) - 1)
           /\ n.begun = SubSeq(h.begun, 1, Len(h.open) - 1)
  <2> HIDE DEF r, h
  <2> QED
    BY ReachedToken
<1>5. x.to \in p .. End(t)
  <2>1. Placed(t, p, r.lexer)
    BY FoundSound DEF Sound
  <2> HIDE DEF r
  <2> QED
    BY <1>1, <2>1, ExtentBehind
<1>6. p <= n.at
  BY <1>1, <1>4, <1>5, TextLength
<1>7. /\ InLiteral(h) =>
           \/ Calm(t, p, r)
           \/ /\ r = scan_string_content(t, Lexer(p), h.open)
              /\ r.token \in {"STRING_CONTENT", "STRING_END"}
      /\ ~InLiteral(h) => r.token # "STRING_END"
  BY <1>2, FoundLiterals
<1>8. InLiteral(h) => h.open \in Seq(Delimiters) /\ h.open # <<>> /\ last \in Delimiters
  <2>1. h.open \in Seq(Delimiters)
    BY <1>1 DEF Heads
  <2> DEFINE o == h.open
  <2>2. o # <<>> => o[Len(o)] \in Delimiters
    <3> HIDE DEF o, Delimiters
    <3>1. o \in Seq(Delimiters)
      BY <2>1 DEF o
    <3> QED
      BY <3>1
  <2> QED
    BY <2>1, <2>2 DEF InLiteral
<1> HIDE DEF h, p, t, r, n, x, last
<1>9. CASE InLiteral(h) /\ Calm(t, p, r)
  <2>1. r.token \notin Literals /\ Gentle(t, p, x.to)
    BY <1>1, <1>9, CalmGently DEF Calm, x
  <2>2. n.open = h.open /\ n.begun = h.begun /\ n.code = h.code /\ n.at = x.to
    BY <1>4, <2>1 DEF Literals
  <2>3. ASSUME NEW from \in 1 .. p, ReadTo(t, from, last, p), Plain(t, p, x.to)
        PROVE  ReadTo(t, from, last, x.to)
    BY <1>1, <1>5, <1>8, <1>9, <2>1, <2>3, GentleReadTo
  <2>4. LiteralsAre(t, n)
    BY <1>1, <1>3, <1>6, <2>2, <2>3, LiteralsKept DEF p, last
  <2> QED
    BY <2>4 DEF t, n, h, r
<1>10. CASE /\ InLiteral(h) /\ r.token = "STRING_CONTENT"
            /\ r = scan_string_content(t, Lexer(p), h.open)
  <2>2. n.open = h.open /\ n.begun = h.begun /\ n.code = h.code /\ n.at = x.to
    BY <1>4, <1>10
  <2>3. ASSUME NEW from \in 1 .. p, ReadTo(t, from, last, p), Plain(t, p, x.to)
        PROVE  ReadTo(t, from, last, x.to)
    <3>1. from \in 1 .. End(t) /\ p \in from .. End(t)
      BY <1>1, TextLength
    <3>2. EndsContent(t, from, last, p, r)
      BY <1>1, <1>8, <1>10, <2>3, <3>1, ContentEndsContent DEF last
    <3> QED
      BY <1>10, <2>3, <3>2 DEF EndsContent, x
  <2>4. LiteralsAre(t, n)
    BY <1>1, <1>3, <1>6, <2>2, <2>3, LiteralsKept DEF p, last
  <2> QED
    BY <2>4 DEF t, n, h, r
<1>11. CASE InLiteral(h) /\ r.token = "STRING_END"
  <2>1. LiteralsAre(t, n)
    BY <1>1, <1>3, <1>4, <1>6, <1>8, <1>11, LiteralCloses DEF p
  <2> QED
    BY <2>1 DEF t, n, h, r
<1>12. CASE ~InLiteral(h) /\ r.token = "STRING_START"
  <2>1. DelimiterOf(t, x) \in Delimiters
    BY DEF DelimiterOf, Delimiters
  <2>2. LiteralsAre(t, n)
    BY <1>1, <1>3, <1>4, <1>6, <1>12, <2>1, LiteralBegins DEF p
  <2> QED
    BY <2>2 DEF t, n, h, r
<1>13. CASE ~InLiteral(h) /\ r.token # "STRING_START"
  <2>1. r.token \notin {"STRING_START", "STRING_END"}
    BY <1>7, <1>13
  <2>2. n.open = h.open /\ n.begun = h.begun /\ n.code = h.code
    BY <1>4, <2>1
  <2>3. LiteralsAre(t, n)
    BY <1>1, <1>3, <1>6, <1>13, <2>2, LiteralsKept DEF p
  <2> QED
    BY <2>3 DEF t, n, h, r
<1> QED
  BY <1>7, <1>9, <1>10, <1>11, <1>12, <1>13

(* What LiteralEnds asks of one scan.                                      *)
LiteralEndsAt(v, r) ==
    LET x    == Extent(r)
        n    == Len(head[v].open)
        from == head[v].begun[n]
        ends == ClosingQuote(text, from, head[v].open[n])
        q    == CHOOSE e \in ends : \A f \in ends : e <= f
    IN  IF r.token = "STRING_END"
          THEN /\ ends # {}
               /\ x.to = IF head[v].open[n] = "triple"
                           THEN FirstNot(text, q, {"dq"}) ELSE q + 1
          ELSE ends = {} \/ x.to <= q

LEMMA ContentsEnd ==
    ASSUME ParseInv, NEW v \in Versions, NEW V \in RowsOf(head[v]),
           LiteralsAre(text, head[v]), InLiteral(head[v]),
           Found(v, V).token \in {"STRING_CONTENT", "STRING_END"},
           Plain(text, head[v].begun[Len(head[v].open)], Extent(Found(v, V)).to)
    PROVE  LiteralEndsAt(v, Found(v, V))
<1> DEFINE h    == head[v]
           t    == text
           p    == h.at
           r    == Found(v, V)
           to   == Extent(r).to
           n    == Len(h.open)
           from == h.begun[n]
           d    == h.open[n]
           ends == ClosingQuote(t, from, d)
           Least(e) == e \in ends /\ \A f \in ends : e <= f
           q    == CHOOSE e \in ends : \A f \in ends : e <= f
<1> SUFFICES IF r.token = "STRING_END"
               THEN ends # {} /\ to = IF d = "triple" THEN FirstNot(t, q, {"dq"}) ELSE q + 1
               ELSE ends = {} \/ to <= q
  BY DEF LiteralEndsAt
<1>1. /\ t \in Seq(STRING) /\ h \in Heads(t) /\ p \in 1 .. End(t)
      /\ Len(h.begun) = Len(h.open)
  BY TextIs DEF ParseInv
<1>2. h.open \in Seq(Delimiters) /\ h.open # <<>> /\ n \in 1 .. Len(h.open) /\ n \in Nat
  <2>1. h.open \in Seq(Delimiters) /\ h.open # <<>>
    BY <1>1 DEF Heads, InLiteral
  <2> HIDE DEF h, Delimiters
  <2> QED
    BY <2>1
<1>3. from \in 1 .. End(t) /\ from \in Nat /\ p \in Nat /\ End(t) \in Nat
  <2> HIDE DEF n, h
  <2> QED
    BY <1>1, <1>2, HeadIs, TextLength
<1>4. to \in p .. End(t) /\ to \in Nat
  <2>1. Placed(t, p, r.lexer)
    BY FoundSound DEF Sound
  <2> HIDE DEF r, p, h
  <2> QED
    BY <1>1, <1>3, <2>1, ExtentBehind
<1>5. r = scan_string_content(t, Lexer(p), h.open)
  <2>1. r.token \notin {NoToken} /\ r.token \in Literals
    BY DEF NoToken, Literals
  <2> QED
    BY <2>1, FoundLiterals DEF Calm
<1>6. /\ from <= p
      /\ Plain(t, from, p) => ReadTo(t, from, d, p)
  BY <1>2 DEF LiteralsAre, BegunIs
<1>7. Plain(t, from, to) /\ r.token \in {"STRING_CONTENT", "STRING_END"}
  OBVIOUS
<1> HIDE DEF h, t, p, r, to, n, from
<1>8. Plain(t, from, p) /\ Plain(t, p, to)
  BY <1>3, <1>4, <1>6, <1>7, PlainPart
<1>9. EndsContent(t, from, d, p, r)
  <2>1. p \in from .. End(t)
    BY <1>1, <1>3, <1>6
  <2> QED
    BY <1>1, <1>2, <1>3, <1>5, <1>6, <1>8, <2>1, ContentEndsContent DEF n
<1> HIDE DEF d
<1>10. \A e \in ends : e \in Nat /\ from <= e
  <2> TAKE e \in ends
  <2>1. e \in from .. Len(t)
    BY <1>1, <1>3, ClosingIs
  <2> QED
    BY <1>3, <2>1
<1>11. \A e \in ends : p <= e
  <2> TAKE e \in ends
  <2>1. e \notin from .. p - 1
    BY <1>6, <1>8 DEF ReadTo
  <2> QED
    BY <1>3, <1>10, <2>1
<1>12. CASE r.token = "STRING_END"
  <2>1. p \in ends /\ to = IF d = "triple" THEN FirstNot(t, p, {"dq"}) ELSE p + 1
    BY <1>8, <1>9, <1>12 DEF EndsContent, to
  <2>2. q = p
    <3>1. Least(p)
      BY <1>11, <2>1
    <3>2. \A e : Least(e) => e = p
      <4> SUFFICES ASSUME NEW e, Least(e) PROVE e = p
        OBVIOUS
      <4>1. e <= p /\ p <= e /\ e \in Nat
        BY <1>10, <1>11, <2>1
      <4> HIDE DEF ends
      <4> QED
        BY <1>3, <4>1
    <3>3. Least(q)
      <4> HIDE DEF ends
      <4> QED
        BY <3>1
    <3> QED
      BY <3>2, <3>3
  <2> HIDE DEF q, ends
  <2> QED
    BY <1>12, <2>1, <2>2
<1>13. CASE r.token = "STRING_CONTENT"
  <2>1. ReadTo(t, from, d, to)
    BY <1>8, <1>9, <1>13 DEF EndsContent, to
  <2>2. \A e \in ends : to <= e
    <3> TAKE e \in ends
    <3>1. e \notin from .. to - 1
      BY <2>1 DEF ReadTo
    <3> QED
      BY <1>3, <1>4, <1>10, <3>1
  <2>3. CASE ends # {}
    <3>1. ends \subseteq Nat
      BY <1>10
    <3> HIDE DEF ends
    <3>2. \E e : Least(e)
      BY <2>3, <3>1, LeastElement
    <3>3. q \in ends
      BY <3>2
    <3> HIDE DEF q
    <3> QED
      BY <1>13, <2>2, <3>3
  <2> QED
    BY <1>13, <2>3
<1> QED
  BY <1>7, <1>12, <1>13

LiteralInv == ParseInv /\ \A v \in Versions : LiteralsAre(text, head[v])

LEMMA StartLiterals ==
    ASSUME NEW t
    PROVE  LiteralsAre(t, Start)
  BY DEF Start, LiteralsAre, BegunIs, CodeIs

(* A version moves to another place.                                       *)
LEMMA LiteralsMove ==
    ASSUME LiteralInv, ParseInv', NEW v \in Versions, NEW n, LiteralsAre(text, n),
           head' = [head EXCEPT ![v] = n], text' = text
    PROVE  LiteralInv'
<1>1. \A w \in Versions : head'[w] = IF w = v THEN n ELSE head[w]
  BY DEF LiteralInv, ParseInv, TypeOK
<1>2. \A w \in Versions : LiteralsAre(text, head'[w])
  BY <1>1 DEF LiteralInv
<1> QED
  BY <1>2 DEF LiteralInv

(* The invariant holds in every state.                                     *)
THEOREM LiteralInvariant == Spec => []LiteralInv
<1>1. Init => LiteralInv
  <2> SUFFICES ASSUME Init PROVE LiteralInv
    OBVIOUS
  <2>1. ParseInv /\ \A v \in Versions : head[v] = Start
    BY InitiallyParses DEF Init
  <2> QED
    BY <2>1, StartLiterals DEF LiteralInv
<1>2. LiteralInv /\ [Next]_vars /\ ParseInv' => LiteralInv'
  <2> SUFFICES ASSUME LiteralInv, [Next]_vars, ParseInv' PROVE LiteralInv'
    OBVIOUS
  <2>0. ParseInv /\ \A v \in Versions : LiteralsAre(text, head[v])
    BY DEF LiteralInv
  <2>1. ASSUME NEW v \in Versions, NEW V \in Rows, LexExternal(v, V) PROVE LiteralInv'
    <3> DEFINE n == Reached(head[v], Found(v, V), payload')
    <3>1. LiteralsAre(text, n)
      BY <2>0, <2>1, ExternalLiterals
    <3>2. head' = [head EXCEPT ![v] = n] /\ text' = text
      BY <2>1 DEF LexExternal
    <3> HIDE DEF n
    <3> QED
      BY <3>1, <3>2, LiteralsMove
  <2>2. ASSUME NEW v \in Versions, NEW V \in Rows, LexAborts(v, V) PROVE LiteralInv'
    <3>1. text' = text /\ head' = head
      BY <2>2 DEF LexAborts
    <3> QED
      BY <2>0, <3>1 DEF LiteralInv
  <2>3. ASSUME NEW v \in Versions, NEW V \in Rows, LexInternal(v, V) PROVE LiteralInv'
    <3> DEFINE n == Internal(head[v])
    <3>1. /\ ~Eof(text, head[v].at) /\ (InLiteral(head[v]) => Interpolation(head[v]))
          /\ head' = [head EXCEPT ![v] = n] /\ text' = text
      BY <2>3 DEF LexInternal
    <3>2. LiteralsAre(text, n)
      BY <2>0, <3>1, InternalLiterals
    <3> HIDE DEF n
    <3> QED
      BY <3>1, <3>2, LiteralsMove
  <2>4. ASSUME NEW v \in Versions, NEW w \in Versions, Fork(v, w) PROVE LiteralInv'
    <3>1. head' = [head EXCEPT ![w] = head[v]] /\ text' = text
      BY <2>4 DEF Fork
    <3> QED
      BY <2>0, <3>1, LiteralsMove
  <2>5. ASSUME NEW v \in Versions, GiveUp(v) PROVE LiteralInv'
    <3>1. head' = [head EXCEPT ![v] = Start] /\ text' = text
      BY <2>5 DEF GiveUp
    <3> QED
      BY <3>1, StartLiterals, LiteralsMove
  <2>6. CASE UNCHANGED vars
    <3>1. text' = text /\ head' = head
      BY <2>6 DEF vars
    <3> QED
      BY <2>0, <3>1 DEF LiteralInv
  <2> QED
    BY <2>1, <2>2, <2>3, <2>4, <2>5, <2>6 DEF Next
<1> QED
  BY <1>1, <1>2, ParseInvariant, PTL DEF Spec

(* For every text, every row asked for and every interleaving of versions: *)
(* a literal without a dollar sign, and without what could begin a comment *)
(* on a line of its own, ends at its first closing quotes and with all of  *)
(* them, in one piece or read as content with calls for other tokens, of   *)
(* recovery too, in between.  (scan_string_content)                        *)
THEOREM LiteralsEnd == Spec => []LiteralEnds
<1>1. LiteralInv => LiteralEnds
  <2> SUFFICES ASSUME LiteralInv
               PROVE  \A v \in alive : \A V \in RowsOf(head[v]) : \A r \in {Found(v, V)} :
                        ~aborted /\ InLiteral(head[v])
                          /\ r.token \in {"STRING_CONTENT", "STRING_END"}
                          /\ Plain(text, head[v].begun[Len(head[v].open)], Extent(r).to)
                        => LiteralEndsAt(v, r)
    BY DEF LiteralEnds, LiteralEndsAt
  <2> TAKE v \in alive
  <2> TAKE V \in RowsOf(head[v])
  <2> TAKE r \in {Found(v, V)}
  <2> HAVE ~aborted /\ InLiteral(head[v])
             /\ r.token \in {"STRING_CONTENT", "STRING_END"}
             /\ Plain(text, head[v].begun[Len(head[v].open)], Extent(r).to)
  <2>1. v \in Versions /\ ParseInv /\ \A w \in Versions : LiteralsAre(text, head[w])
    BY DEF LiteralInv, ParseInv, StackInv
  <2>2. r = Found(v, V)
    OBVIOUS
  <2> QED
    BY <2>1, <2>2, ContentsEnd
<1> QED
  BY <1>1, LiteralInvariant, PTL

-----------------------------------------------------------------------------
(* What a scan finds depends on the text from where it starts, not on what *)
(* stands before.  From the second symbol on u is what t is D symbols      *)
(* later.                                                                  *)
Twins(t, u, D) ==
    /\ t \in Seq(STRING) /\ u \in Seq(STRING) /\ D \in Nat
    /\ Len(u) >= 1 /\ Len(t) = Len(u) + D
    /\ \A i \in 2 .. Len(u) : t[i + D] = u[i]

LEMMA TwinTexts ==
    ASSUME NEW t, NEW u, NEW D, Twins(t, u, D)
    PROVE  /\ t \in Seq(STRING) /\ u \in Seq(STRING) /\ D \in Nat
           /\ End(u) \in Nat /\ 2 <= End(u) /\ End(t) = End(u) + D /\ End(t) \in Nat
           /\ Len(u) \in Nat /\ End(u) = Len(u) + 1
           /\ \A q \in 2 .. End(u) : q \in Nat /\ q \in 1 .. End(u) /\ q + D \in 1 .. End(t)
  BY TextLength DEF Twins, End

LEMMA TwinLook ==
    ASSUME NEW t, NEW u, NEW D, Twins(t, u, D), NEW q \in Nat, 2 <= q
    PROVE  /\ Eof(t, q + D) <=> Eof(u, q)
           /\ Look(t, q + D) = Look(u, q)
           /\ q <= Len(u) => t[q + D] = u[q]
<1>1. Len(u) \in Nat /\ D \in Nat /\ Len(t) = Len(u) + D
  BY TextLength DEF Twins
<1>2. q <= Len(u) => t[q + D] = u[q]
  BY <1>1 DEF Twins
<1> QED
  BY <1>1, <1>2 DEF Look, Eof

LEMMA TwinPast ==
    ASSUME NEW t, NEW u, NEW D, Twins(t, u, D), NEW q \in 2 .. End(u), NEW k \in Nat
    PROVE  /\ Past(t, q + D, k) = Past(u, q, k) + D
           /\ Past(u, q, k) \in q .. End(u) /\ Past(u, q, k) \in 2 .. End(u)
  BY TwinTexts DEF Past

LEMMA FirstNotUnique ==
    ASSUME NEW t \in Seq(STRING), NEW p \in 1 .. End(t), NEW S,
           NEW q \in p .. End(t), Eof(t, q) \/ t[q] \notin S,
           \A r \in p .. q - 1 : t[r] \in S
    PROVE  FirstNot(t, p, S) = q
<1> DEFINE f == FirstNot(t, p, S)
<1>1. f \in p .. End(t) /\ (Eof(t, f) \/ t[f] \notin S) /\ \A r \in p .. f - 1 : t[r] \in S
  BY FirstNotIs
<1>2. Len(t) \in Nat /\ End(t) = Len(t) + 1
  BY TextLength
<1> HIDE DEF f
<1>3. p \in Nat /\ q \in Nat /\ f \in Nat /\ p <= q /\ p <= f /\ q <= End(t) /\ f <= End(t)
  BY <1>1, <1>2
<1>4. ~(f < q)
  <2> SUFFICES ASSUME f < q PROVE FALSE
    OBVIOUS
  <2>1. f \in p .. q - 1 /\ ~Eof(t, f)
    BY <1>2, <1>3 DEF Eof
  <2> QED
    BY <1>1, <2>1
<1>5. ~(q < f)
  <2> SUFFICES ASSUME q < f PROVE FALSE
    OBVIOUS
  <2>1. q \in p .. f - 1 /\ ~Eof(t, q)
    BY <1>2, <1>3 DEF Eof
  <2> QED
    BY <1>1, <2>1
<1>6. f = q
  BY <1>3, <1>4, <1>5
<1> QED
  BY <1>6 DEF f

LEMMA TwinFirst ==
    ASSUME NEW t, NEW u, NEW D, Twins(t, u, D), NEW q \in 2 .. End(u), NEW S
    PROVE  /\ FirstNot(t, q + D, S) = FirstNot(u, q, S) + D
           /\ FirstNot(u, q, S) \in q .. End(u) /\ FirstNot(u, q, S) \in 2 .. End(u)
<1> DEFINE f == FirstNot(u, q, S)
<1>1. /\ t \in Seq(STRING) /\ u \in Seq(STRING) /\ D \in Nat
      /\ End(u) \in Nat /\ End(t) = End(u) + D /\ Len(u) \in Nat /\ End(u) = Len(u) + 1
      /\ q \in Nat /\ q \in 1 .. End(u) /\ q + D \in 1 .. End(t) /\ 2 <= q
  BY TwinTexts
<1>2. f \in q .. End(u) /\ (Eof(u, f) \/ u[f] \notin S) /\ \A r \in q .. f - 1 : u[r] \in S
  BY <1>1, FirstNotIs
<1> HIDE DEF f
<1>3. f \in Nat /\ 2 <= f /\ f <= Len(u) + 1 /\ f \in 2 .. End(u)
  BY <1>1, <1>2
<1>4. f + D \in q + D .. End(t)
  BY <1>1, <1>2, <1>3
<1>5. Eof(t, f + D) \/ t[f + D] \notin S
  <2>1. CASE Eof(u, f)
    BY <1>3, <2>1, TwinLook
  <2>2. CASE ~Eof(u, f)
    <3>1. f <= Len(u)
      BY <1>1, <1>3, <2>2 DEF Eof
    <3> QED
      BY <1>2, <1>3, <2>2, <3>1, TwinLook
  <2> QED
    BY <2>1, <2>2
<1>6. \A r \in q + D .. (f + D) - 1 : t[r] \in S
  <2> TAKE r \in q + D .. (f + D) - 1
  <2>1. r - D \in q .. f - 1 /\ r - D \in Nat /\ 2 <= r - D /\ r - D <= Len(u)
        /\ (r - D) + D = r
    BY <1>1, <1>3
  <2>2. t[(r - D) + D] = u[r - D]
    BY <2>1, TwinLook
  <2> QED
    BY <1>2, <2>1, <2>2
<1>7. FirstNot(t, q + D, S) = f + D
  <2> DEFINE a == q + D
             b == f + D
  <2>1. a \in 1 .. End(t) /\ b \in a .. End(t)
    BY <1>1, <1>4
  <2>2. Eof(t, b) \/ t[b] \notin S
    BY <1>5
  <2>3. \A r \in a .. b - 1 : t[r] \in S
    BY <1>6
  <2> HIDE DEF a, b
  <2>4. FirstNot(t, a, S) = b
    BY <1>1, <2>1, <2>2, <2>3, FirstNotUnique
  <2> QED
    BY <2>4 DEF a, b
<1> QED
  BY <1>2, <1>3, <1>7 DEF f

LEMMA TwinWord ==
    ASSUME NEW t, NEW u, NEW D, Twins(t, u, D), NEW q \in 2 .. End(u),
           NEW letter, NEW rest
    PROVE  /\ IsWord(t, q + D, letter, rest) <=> IsWord(u, q, letter, rest)
           /\ Keyword(t, q + D, rest) = Keyword(u, q, rest) + D
           /\ Keyword(u, q, rest) \in 2 .. End(u)
           /\ NotEqual(t, q + D) <=> NotEqual(u, q)
           /\ \A S : Continues(t, q + D, S) <=> Continues(u, q, S)
<1>1. q \in Nat /\ 2 <= q /\ D \in Nat
  BY TwinTexts
<1>2. /\ Look(t, q + D) = Look(u, q) /\ Look(t, q + D + 1) = Look(u, q + 1)
      /\ Look(t, q + D + 2) = Look(u, q + 2)
  <2>1. /\ q + 1 \in Nat /\ 2 <= q + 1 /\ q + 1 + D = q + D + 1
        /\ q + 2 \in Nat /\ 2 <= q + 2 /\ q + 2 + D = q + D + 2
    BY <1>1
  <2>2. Look(t, q + 1 + D) = Look(u, q + 1) /\ Look(t, q + 2 + D) = Look(u, q + 2)
    BY <2>1, TwinLook
  <2> QED
    BY <1>1, <2>1, <2>2, TwinLook
<1>3. \A l, r : IsWord(t, q + D, l, r) <=> IsWord(u, q, l, r)
  BY <1>2 DEF IsWord
<1>4. NotEqual(t, q + D) <=> NotEqual(u, q)
  BY <1>2 DEF NotEqual
<1>5. \A S : Continues(t, q + D, S) <=> Continues(u, q, S)
  BY <1>2, <1>3 DEF Continues
<1>6. /\ Keyword(t, q + D, rest) = Keyword(u, q, rest) + D
      /\ Keyword(u, q, rest) \in 2 .. End(u)
  <2> DEFINE k == IF Look(u, q + 1) = rest THEN 2 ELSE 1
  <2>1. Keyword(t, q + D, rest) = Past(t, q + D, k) /\ Keyword(u, q, rest) = Past(u, q, k)
    BY <1>2 DEF Keyword
  <2>2. k \in Nat
    OBVIOUS
  <2> HIDE DEF k
  <2> QED
    BY <2>1, <2>2, TwinPast
<1> QED
  BY <1>3, <1>4, <1>5, <1>6

LEMMA TwinContent ==
    ASSUME NEW t, NEW u, NEW D, Twins(t, u, D), NEW triple, NEW p \in 2 .. End(u)
    PROVE  /\ ContentEnd(t, p + D, triple) = ContentEnd(u, p, triple) + D
           /\ ContentEnd(u, p, triple) \in p .. End(u)
           /\ ContentEnd(u, p, triple) \in 2 .. End(u)
<1>0. /\ t \in Seq(STRING) /\ u \in Seq(STRING) /\ D \in Nat
      /\ End(u) \in Nat /\ End(t) = End(u) + D /\ Len(u) \in Nat /\ End(u) = Len(u) + 1
  BY TwinTexts
<1>1. PICK f : IsContentEnd(f, t, triple) /\ \A q : ContentEnd(t, q, triple) = f[q]
  BY <1>0, ContentUnfolds
<1>2. PICK g : IsContentEnd(g, u, triple) /\ \A q : ContentEnd(u, q, triple) = g[q]
  BY <1>0, ContentUnfolds
<1>3. \A q \in Nat : f[q] = IF ContentStops(t, q) THEN q ELSE f[NextContent(t, q, triple)]
  BY <1>1 DEF IsContentEnd
<1>4. \A q \in Nat : g[q] = IF ContentStops(u, q) THEN q ELSE g[NextContent(u, q, triple)]
  BY <1>2 DEF IsContentEnd
<1> DEFINE A == 2 .. End(u)
           rank == Room(u)
           T == {q \in A : f[q + D] = g[q] + D}
<1>5. \A d \in A : rank[d] \in Nat /\ d \in Nat
  BY <1>0, RoomIs
<1>6. ASSUME NEW d \in A, \A e \in A : rank[e] < rank[d] => e \in T
      PROVE  d \in T
  <2>0. d \in Nat /\ d + D \in Nat /\ 2 <= d
    BY <1>0
  <2>1. /\ Look(t, d + D) = Look(u, d) /\ Look(t, d + D + 1) = Look(u, d + 1)
        /\ Look(t, d + D + 2) = Look(u, d + 2)
    <3>1. /\ d + 1 \in Nat /\ 2 <= d + 1 /\ d + 1 + D = d + D + 1
          /\ d + 2 \in Nat /\ 2 <= d + 2 /\ d + 2 + D = d + D + 2
      BY <1>0, <2>0
    <3>2. Look(t, d + 1 + D) = Look(u, d + 1) /\ Look(t, d + 2 + D) = Look(u, d + 2)
      BY <3>1, TwinLook
    <3> QED
      BY <2>0, <3>1, <3>2, TwinLook
  <2>2. ContentStops(t, d + D) <=> ContentStops(u, d)
    BY <2>1 DEF ContentStops, DollarEnds
  <2>3. CASE ContentStops(u, d)
    BY <1>3, <1>4, <2>0, <2>2, <2>3
  <2>4. CASE ~ContentStops(u, d)
    <3> DEFINE m == NextContent(u, d, triple)
    <3>1. d <= Len(u)
      BY <1>0, <2>0, <2>4 DEF ContentStops, Look, Eof
    <3>2. m \in d + 1 .. End(u)
      BY <1>0, <2>0, <3>1, NextContentMoves
    <3>3. NextContent(t, d + D, triple) = m + D
      <4> DEFINE k == IF Look(u, d) # "bs" THEN 1
                      ELSE IF Look(u, d + 1) = "$" THEN 3
                      ELSE IF triple /\ Look(u, d + 1) = "dq" THEN 1 ELSE 2
      <4>1. /\ NextContent(t, d + D, triple) = Past(t, d + D, k)
            /\ m = Past(u, d, k)
        BY <2>1 DEF NextContent
      <4>2. k \in Nat
        OBVIOUS
      <4> HIDE DEF k, m
      <4> QED
        BY <4>1, <4>2, TwinPast
    <3> HIDE DEF m
    <3>4. m \in A /\ m \in Nat /\ d < m
      BY <1>0, <2>0, <3>2
    <3>5. m \in T
      BY <1>0, <1>6, <2>0, <3>1, <3>4, RoomIs
    <3>6. f[d + D] = f[m + D] /\ g[d] = g[m]
      BY <1>3, <1>4, <2>0, <2>2, <2>4, <3>3 DEF m
    <3> QED
      BY <3>5, <3>6
  <2> QED
    BY <2>3, <2>4
<1>7. \A d \in A : d \in T
  <2> HIDE DEF A, rank, T
  <2> QED
    BY <1>5, <1>6, RankInduction
<1>8. f[p + D] = g[p] + D
  BY <1>7
<1>9. ContentEnd(u, p, triple) \in p .. End(u)
  BY <1>0, ContentEndIs
<1> QED
  BY <1>0, <1>1, <1>2, <1>8, <1>9

LEMMA TwinReadOn ==
    ASSUME NEW t, NEW u, NEW D, Twins(t, u, D), NEW c \in Readings, NEW d \in Readings,
           2 <= c.at, c.at <= Len(u),
           d.at = c.at + D, d.after = c.after, d.depth = c.depth
    PROVE  /\ ReadOn(t, d).at = ReadOn(u, c).at + D
           /\ ReadOn(t, d).after = ReadOn(u, c).after
           /\ ReadOn(t, d).depth = ReadOn(u, c).depth
<1>1. c.at \in Nat /\ c.depth \in Nat /\ D \in Nat
  BY TwinTexts DEF Readings
<1>2. t[d.at] = u[c.at]
  <2> DEFINE q == c.at
  <2>1. q \in Nat /\ 2 <= q /\ q <= Len(u) /\ d.at = q + D
    BY <1>1
  <2> HIDE DEF q
  <2>2. t[q + D] = u[q]
    BY <2>1, TwinLook
  <2> QED
    BY <2>1, <2>2 DEF q
<1>3. Look(t, d.at + 1) = Look(u, c.at + 1)
  <2>1. c.at + 1 \in Nat /\ 2 <= c.at + 1 /\ d.at + 1 = c.at + 1 + D
    BY <1>1
  <2> QED
    BY <2>1, TwinLook
<1>4. CASE u[c.at] = "*"
  BY <1>1, <1>2, <1>4 DEF ReadOn, Reading
<1>5. CASE u[c.at] = "/" /\ c.after = "*"
  BY <1>1, <1>2, <1>5 DEF ReadOn, Reading
<1>6. CASE u[c.at] = "/" /\ c.after # "*" /\ Look(u, c.at + 1) = "*"
  BY <1>1, <1>2, <1>3, <1>6 DEF ReadOn, Reading
<1>7. CASE ~(u[c.at] = "*" \/ (u[c.at] = "/" /\ c.after = "*")
               \/ (u[c.at] = "/" /\ c.after # "*" /\ Look(u, c.at + 1) = "*"))
  BY <1>1, <1>2, <1>3, <1>7 DEF ReadOn, Reading
<1> QED
  BY <1>4, <1>5, <1>6, <1>7

LEMMA TwinComment ==
    ASSUME NEW t, NEW u, NEW D, Twins(t, u, D), NEW nulStops \in BOOLEAN, NEW p \in 2 .. End(u)
    PROVE  /\ ReadComment(t, p + D, nulStops).at = ReadComment(u, p, nulStops).at + D
           /\ ReadComment(t, p + D, nulStops).depth = ReadComment(u, p, nulStops).depth
           /\ ReadComment(u, p, nulStops).at \in 2 .. End(u)
<1>0. /\ t \in Seq(STRING) /\ u \in Seq(STRING) /\ D \in Nat
      /\ End(u) \in Nat /\ End(t) = End(u) + D /\ Len(u) \in Nat /\ End(u) = Len(u) + 1
  BY TwinTexts
<1>1. PICK f : /\ IsRead(f, t, nulStops)
               /\ \A q : ReadComment(t, q, nulStops) = f[Reading(q, "other", 1)]
  BY <1>0, ReadUnfolds
<1>2. PICK g : /\ IsRead(g, u, nulStops)
               /\ \A q : ReadComment(u, q, nulStops) = g[Reading(q, "other", 1)]
  BY <1>0, ReadUnfolds
<1> DEFINE A == {c \in Readings : c.at \in 2 .. End(u)}
           rank == RoomOf(u)
           Same(d, c) == d.at = c.at + D /\ d.after = c.after /\ d.depth = c.depth
           T == {c \in A : \A d \in Readings : Same(d, c) => Same(f[d], g[c])}
<1>3. \A c \in A : rank[c] \in Nat /\ c \in Readings /\ c.at \in Nat /\ 2 <= c.at
                   /\ c.at <= End(u)
  BY <1>0, RoomOfIs
<1>4. ASSUME NEW c \in A, \A e \in A : rank[e] < rank[c] => e \in T
      PROVE  c \in T
  <2> SUFFICES ASSUME NEW d \in Readings, Same(d, c) PROVE Same(f[d], g[c])
    OBVIOUS
  <2>1. c \in Readings /\ c.at \in Nat /\ 2 <= c.at /\ c.at <= End(u)
    BY <1>3
  <2>2. ReadStops(t, d, nulStops) <=> ReadStops(u, c, nulStops)
    <3>1. Eof(t, d.at) <=> Eof(u, c.at)
      BY <2>1, TwinLook
    <3>2. ~Eof(u, c.at) => t[d.at] = u[c.at]
      <4> SUFFICES ASSUME ~Eof(u, c.at) PROVE t[d.at] = u[c.at]
        OBVIOUS
      <4> DEFINE q == c.at
      <4>1. q \in Nat /\ 2 <= q /\ q <= Len(u) /\ d.at = q + D
        BY <1>0, <2>1 DEF Eof
      <4> HIDE DEF q
      <4>2. t[q + D] = u[q]
        BY <4>1, TwinLook
      <4> QED
        BY <4>1, <4>2 DEF q
    <3> QED
      BY <3>1, <3>2 DEF ReadStops
  <2>3. CASE ReadStops(u, c, nulStops)
    <3>1. f[d] = d /\ g[c] = c
      BY <1>1, <1>2, <2>1, <2>2, <2>3 DEF IsRead
    <3> QED
      BY <3>1
  <2>4. CASE ~ReadStops(u, c, nulStops)
    <3> DEFINE e == ReadOn(u, c)
               k == ReadOn(t, d)
    <3>1. f[d] = f[k] /\ g[c] = g[e]
      BY <1>1, <1>2, <2>1, <2>2, <2>4 DEF IsRead
    <3>2. c.at <= Len(u) /\ e \in Readings /\ e.at \in c.at + 1 .. End(u) /\ rank[e] < rank[c]
      BY <1>0, <2>1, <2>4, ReadGoesOn
    <3>3. k \in Readings
      BY <1>0, <2>2, <2>4, ReadGoesOn
    <3>4. Same(k, e)
      BY <2>1, <3>2, TwinReadOn
    <3> HIDE DEF e, k, rank
    <3>5. e \in A
      BY <1>0, <2>1, <3>2
    <3>6. e \in T
      BY <1>4, <3>2, <3>5
    <3>7. Same(f[k], g[e])
      BY <3>3, <3>4, <3>6
    <3> QED
      BY <3>1, <3>7
  <2> QED
    BY <2>3, <2>4
<1>5. \A c \in A : c \in T
  <2> HIDE DEF A, rank, T
  <2> QED
    BY <1>3, <1>4, RankInduction
<1> DEFINE c == Reading(p, "other", 1)
           d == Reading(p + D, "other", 1)
<1>6. c \in A /\ d \in Readings /\ Same(d, c)
  BY <1>0 DEF Reading, Readings
<1> HIDE DEF c, d
<1>7. Same(f[d], g[c])
  <2>1. c \in T
    BY <1>5, <1>6
  <2>2. \A e \in Readings : Same(e, c) => Same(f[e], g[c])
    <3> HIDE DEF A, Same
    <3> QED
      BY <2>1
  <2> QED
    BY <1>6, <2>2
<1>8. ReadComment(t, p + D, nulStops) = f[d] /\ ReadComment(u, p, nulStops) = g[c]
  BY <1>1, <1>2 DEF c, d
<1>9. ReadComment(u, p, nulStops).at \in p .. End(u)
  <2>1. p \in Nat /\ p <= End(u)
    BY <1>0
  <2> QED
    BY <1>0, <2>1, ReadCommentIs
<1> QED
  BY <1>0, <1>7, <1>8, <1>9

(* Lexers at the same symbol, and what two scans find there.               *)
TwinLexers(L, M, u, D) ==
    /\ {"at", "from", "to"} \subseteq DOMAIN L /\ {"at", "from", "to"} \subseteq DOMAIN M
    /\ M.at \in 2 .. End(u) /\ L.at = M.at + D

Alike(r, s, u, D) ==
    /\ r.token = s.token /\ r.stack = s.stack
    /\ r.token = NoToken => TwinLexers(r.lexer, s.lexer, u, D)

LEMMA TwinsMove ==
    ASSUME NEW L, NEW M, NEW u, NEW D, TwinLexers(L, M, u, D), NEW q \in 2 .. End(u)
    PROVE  /\ TwinLexers([L EXCEPT !.at = q + D], [M EXCEPT !.at = q], u, D)
           /\ TwinLexers(SkipTo(L, q + D), SkipTo(M, q), u, D)
           /\ TwinLexers(Mark(L), Mark(M), u, D)
<1>1. TwinLexers([L EXCEPT !.at = q + D], [M EXCEPT !.at = q], u, D)
  BY DEF TwinLexers
<1>2. TwinLexers(Mark(L), Mark(M), u, D)
  BY DEF TwinLexers, Mark
<1>3. ASSUME NEW N, {"at", "from", "to"} \subseteq DOMAIN N, NEW p
      PROVE  SkipTo(N, p).at = p /\ {"at", "from", "to"} \subseteq DOMAIN SkipTo(N, p)
  BY <1>3 DEF SkipTo
<1>4. TwinLexers(SkipTo(L, q + D), SkipTo(M, q), u, D)
  <2>1. /\ {"at", "from", "to"} \subseteq DOMAIN L /\ {"at", "from", "to"} \subseteq DOMAIN M
        /\ M.at \in 2 .. End(u) /\ L.at = M.at + D
    BY DEF TwinLexers
  <2>2. /\ SkipTo(L, q + D).at = q + D /\ SkipTo(M, q).at = q
        /\ {"at", "from", "to"} \subseteq DOMAIN SkipTo(L, q + D)
        /\ {"at", "from", "to"} \subseteq DOMAIN SkipTo(M, q)
    BY <1>3, <2>1
  <2> QED
    BY <2>2 DEF TwinLexers
<1> QED
  BY <1>1, <1>2, <1>4

LEMMA TwinsAdvance ==
    ASSUME NEW t, NEW u, NEW D, Twins(t, u, D), NEW L, NEW M, TwinLexers(L, M, u, D),
           NEW k \in Nat
    PROVE  TwinLexers(Advance(t, L, k), Advance(u, M, k), u, D)
<1> DEFINE q == Past(u, M.at, k)
<1>1. q \in 2 .. End(u) /\ Past(t, L.at, k) = q + D
  BY TwinPast DEF TwinLexers
<1> HIDE DEF q
<1>2. /\ Advance(t, L, k) = [L EXCEPT !.at = q + D]
      /\ Advance(u, M, k) = [M EXCEPT !.at = q]
  BY <1>1 DEF Advance, q
<1> QED
  BY <1>1, <1>2, TwinsMove

LEMMA TwinsSkip ==
    ASSUME NEW t, NEW u, NEW D, Twins(t, u, D), NEW L, NEW M, TwinLexers(L, M, u, D)
    PROVE  TwinLexers(SkipSpace(t, L), SkipSpace(u, M), u, D)
<1> DEFINE q == FirstNot(u, M.at, Space)
<1>1. q \in 2 .. End(u) /\ FirstNot(t, L.at, Space) = q + D
  BY TwinFirst DEF TwinLexers
<1> HIDE DEF q
<1>2. /\ SkipSpace(t, L) = SkipTo(L, q + D)
      /\ SkipSpace(u, M) = SkipTo(M, q)
  BY <1>1 DEF SkipSpace, q
<1>3. TwinLexers(SkipTo(L, q + D), SkipTo(M, q), u, D)
  BY <1>1, TwinsMove
<1> QED
  BY <1>2, <1>3

LEMMA TwinsLook ==
    ASSUME NEW t, NEW u, NEW D, Twins(t, u, D), NEW L, NEW M, TwinLexers(L, M, u, D)
    PROVE  /\ M.at \in Nat /\ 2 <= M.at /\ M.at \in 2 .. End(u) /\ L.at = M.at + D
           /\ Eof(t, L.at) <=> Eof(u, M.at)
           /\ Look(t, L.at) = Look(u, M.at)
           /\ Look(t, L.at + 1) = Look(u, M.at + 1)
           /\ Look(t, L.at + 2) = Look(u, M.at + 2)
<1>1. M.at \in 2 .. End(u) /\ L.at = M.at + D /\ End(u) \in Nat /\ D \in Nat
  BY TwinTexts DEF TwinLexers
<1> DEFINE q == M.at
<1>2. /\ q \in Nat /\ 2 <= q
      /\ q + 1 \in Nat /\ 2 <= q + 1 /\ q + 1 + D = L.at + 1
      /\ q + 2 \in Nat /\ 2 <= q + 2 /\ q + 2 + D = L.at + 2
  BY <1>1
<1> HIDE DEF q
<1>3. /\ Look(t, q + 1 + D) = Look(u, q + 1) /\ Look(t, q + 2 + D) = Look(u, q + 2)
      /\ Look(t, q + D) = Look(u, q) /\ (Eof(t, q + D) <=> Eof(u, q))
  BY <1>2, TwinLook
<1> QED
  BY <1>1, <1>2, <1>3 DEF q

LEMMA RefusedAlike ==
    ASSUME NEW L, NEW M, NEW u, NEW D, TwinLexers(L, M, u, D), NEW st
    PROVE  Alike(Refuse(L, st), Refuse(M, st), u, D)
  BY DEF Alike, Refuse

LEMMA AcceptedAlike ==
    ASSUME NEW L, NEW M, NEW u, NEW D, NEW sym \in Tokens, NEW st
    PROVE  Alike(Accept(L, sym, st), Accept(M, sym, st), u, D)
  BY DEF Alike, Accept, NoToken, Tokens

LEMMA StartsAlike ==
    ASSUME NEW L, NEW M, NEW u, NEW D, NEW st, NEW d
    PROVE  Alike(Starts(L, st, d), Starts(M, st, d), u, D)
  BY DEF Alike, Starts, Abort, Accept, NoToken

LEMMA EndsAlike ==
    ASSUME NEW L, NEW M, NEW u, NEW D, NEW st
    PROVE  Alike(Ends(L, st), Ends(M, st), u, D)
  BY DEF Alike, Ends, Abort, Accept, NoToken

LEMMA TwinStart ==
    ASSUME NEW t, NEW u, NEW D, Twins(t, u, D), NEW L, NEW M, TwinLexers(L, M, u, D),
           NEW st
    PROVE  Alike(scan_string_start(t, L, st), scan_string_start(u, M, st), u, D)
<1>1. /\ Look(t, L.at) = Look(u, M.at) /\ Look(t, L.at + 1) = Look(u, M.at + 1)
      /\ Look(t, L.at + 2) = Look(u, M.at + 2)
  BY TwinsLook
<1>2. Alike(Refuse(L, st), Refuse(M, st), u, D)
  BY RefusedAlike
<1>3. \A N, O, d : Alike(Starts(N, st, d), Starts(O, st, d), u, D)
  BY StartsAlike
<1> QED
  BY <1>1, <1>2, <1>3, Zenon DEF scan_string_start

LEMMA TwinContentScan ==
    ASSUME NEW t, NEW u, NEW D, Twins(t, u, D), NEW L, NEW M, TwinLexers(L, M, u, D),
           NEW st
    PROVE  Alike(scan_string_content(t, L, st), scan_string_content(u, M, st), u, D)
<1> DEFINE triple == IsTriple(st)
           q  == ContentEnd(t, L.at, triple)
           p  == ContentEnd(u, M.at, triple)
           k  == FirstNot(t, q, {"dq"})
           j  == FirstNot(u, p, {"dq"})
           Lq == [L EXCEPT !.at = q]
           Mp == [M EXCEPT !.at = p]
           r  == scan_string_content(t, L, st)
           s  == scan_string_content(u, M, st)
<1>0. D \in Nat /\ End(u) \in Nat /\ M.at \in 2 .. End(u) /\ L.at = M.at + D
  BY TwinTexts, TwinsLook
<1>1. q = p + D /\ p \in 2 .. End(u)
  BY <1>0, TwinContent
<1>2. k = j + D /\ j \in 2 .. End(u)
  <2> HIDE DEF q, p
  <2> QED
    BY <1>1, TwinFirst
<1>3. TwinLexers(Lq, Mp, u, D)
  <2> HIDE DEF q, p
  <2> QED
    BY <1>1, TwinsMove
<1>4. /\ Look(t, q) = Look(u, p) /\ Look(t, q + 1) = Look(u, p + 1)
      /\ q # L.at <=> p # M.at
      /\ k < q + 3 <=> j < p + 3
  <2> HIDE DEF q, p, k, j
  <2>1. /\ p \in Nat /\ 2 <= p /\ p + 1 \in Nat /\ 2 <= p + 1 /\ p + 1 + D = q + 1
        /\ j \in Nat
    BY <1>0, <1>1, <1>2
  <2>2. Look(t, p + D) = Look(u, p) /\ Look(t, p + 1 + D) = Look(u, p + 1)
    BY <2>1, TwinLook
  <2> QED
    BY <1>0, <1>1, <1>2, <2>1, <2>2
<1>5. \A N, O : /\ Alike(Accept(N, "STRING_CONTENT", st), Accept(O, "STRING_CONTENT", st), u, D)
                /\ Alike(Ends(N, st), Ends(O, st), u, D)
  BY AcceptedAlike, EndsAlike DEF Tokens
<1>6. /\ Alike(Refuse(L, st), Refuse(M, st), u, D)
      /\ Alike(Refuse(Lq, st), Refuse(Mp, st), u, D)
      /\ Alike(Refuse(Advance(t, Lq, 1), st), Refuse(Advance(u, Mp, 1), st), u, D)
  <2> HIDE DEF Lq, Mp
  <2>1. TwinLexers(Advance(t, Lq, 1), Advance(u, Mp, 1), u, D)
    BY <1>3, TwinsAdvance
  <2> QED
    BY <1>3, <2>1, RefusedAlike
<1> SUFFICES Alike(r, s, u, D)
  OBVIOUS
<1>7. CASE st = <<>>
  <2>1. r = Refuse(L, st) /\ s = Refuse(M, st)
    BY <1>7 DEF scan_string_content
  <2> QED
    BY <1>6, <2>1
<1>8. CASE st # <<>>
  <2> DEFINE c == Look(u, p)
  <2>1. CASE c = "nul"
    <3>1. r = Refuse(Lq, st) /\ s = Refuse(Mp, st)
      BY <1>4, <1>8, <2>1 DEF scan_string_content
    <3> QED
      BY <1>6, <3>1
  <2>2. CASE c = "$" /\ p # M.at
    <3>1. r = Accept(Lq, "STRING_CONTENT", st) /\ s = Accept(Mp, "STRING_CONTENT", st)
      BY <1>4, <1>8, <2>2 DEF scan_string_content
    <3> QED
      BY <1>5, <3>1
  <2>3. CASE c = "$" /\ p = M.at
    <3>1. /\ r = IF Look(u, p + 1) \in Letters \cup {"{"}
                   THEN Refuse(Advance(t, Lq, 1), st)
                   ELSE Accept(Mark(Advance(t, Lq, 1)), "STRING_CONTENT", st)
          /\ s = IF Look(u, p + 1) \in Letters \cup {"{"}
                   THEN Refuse(Advance(u, Mp, 1), st)
                   ELSE Accept(Mark(Advance(u, Mp, 1)), "STRING_CONTENT", st)
      BY <1>4, <1>8, <2>3 DEF scan_string_content
    <3> HIDE DEF r, s, Lq, Mp
    <3> QED
      BY <1>5, <1>6, <3>1, Zenon
  <2>4. CASE c = "bs"
    <3>1. r = Ends(Mark(Advance(t, Lq, 3)), st) /\ s = Ends(Mark(Advance(u, Mp, 3)), st)
      BY <1>4, <1>8, <2>4 DEF scan_string_content
    <3> QED
      BY <1>5, <3>1
  <2>5. CASE c = "dq" /\ ~triple
    <3>1. /\ r = IF p # M.at THEN Accept(Mark(Lq), "STRING_CONTENT", st)
                             ELSE Ends(Mark(Advance(t, Lq, 1)), st)
          /\ s = IF p # M.at THEN Accept(Mark(Mp), "STRING_CONTENT", st)
                             ELSE Ends(Mark(Advance(u, Mp, 1)), st)
      BY <1>4, <1>8, <2>5 DEF scan_string_content
    <3> HIDE DEF r, s, Lq, Mp
    <3> QED
      BY <1>5, <3>1, Zenon
  <2>6. CASE ~(c \in {"nul", "$", "bs"} \/ (c = "dq" /\ ~triple))
    <3>1. /\ r = IF j < p + 3
                   THEN Accept(Mark([Lq EXCEPT !.at = k]), "STRING_CONTENT", st)
                 ELSE IF p # M.at
                   THEN Accept(Advance(t, Mark(Lq), 2), "STRING_CONTENT", st)
                 ELSE Ends(Mark([Lq EXCEPT !.at = k]), st)
          /\ s = IF j < p + 3
                   THEN Accept(Mark([Mp EXCEPT !.at = j]), "STRING_CONTENT", st)
                 ELSE IF p # M.at
                   THEN Accept(Advance(u, Mark(Mp), 2), "STRING_CONTENT", st)
                 ELSE Ends(Mark([Mp EXCEPT !.at = j]), st)
      BY <1>4, <1>8, <2>6, Zenon DEF scan_string_content
    <3> HIDE DEF r, s, Lq, Mp, j, k, p, q
    <3> QED
      BY <1>5, <3>1, Zenon
  <2> QED
    BY <2>1, <2>2, <2>3, <2>4, <2>5, <2>6
<1> QED
  BY <1>7, <1>8

LEMMA TwinCommentScan ==
    ASSUME NEW t, NEW u, NEW D, Twins(t, u, D), NEW L, NEW M, TwinLexers(L, M, u, D),
           NEW st
    PROVE  Alike(scan_multiline_comment(t, L, st), scan_multiline_comment(u, M, st), u, D)
<1> DEFINE q == L.at + 2
           p == M.at + 2
           b == ReadComment(t, q, TRUE)
           c == ReadComment(u, p, TRUE)
           Lb == [L EXCEPT !.at = b.at]
           Mc == [M EXCEPT !.at = c.at]
           r == scan_multiline_comment(t, L, st)
           s == scan_multiline_comment(u, M, st)
<1> SUFFICES Alike(r, s, u, D)
  OBVIOUS
<1>1. /\ Look(t, L.at) = Look(u, M.at) /\ Look(t, L.at + 1) = Look(u, M.at + 1)
      /\ M.at \in Nat /\ 2 <= M.at /\ L.at = M.at + D /\ D \in Nat
  BY TwinsLook, TwinTexts
<1>2. CASE Look(u, M.at) # "/"
  <2>1. r = Refuse(L, st) /\ s = Refuse(M, st)
    BY <1>1, <1>2 DEF scan_multiline_comment
  <2> QED
    BY <2>1, RefusedAlike
<1>3. CASE Look(u, M.at) = "/" /\ Look(u, M.at + 1) # "*"
  <2>1. r = Refuse(Advance(t, L, 1), st) /\ s = Refuse(Advance(u, M, 1), st)
    BY <1>1, <1>3 DEF scan_multiline_comment
  <2>2. TwinLexers(Advance(t, L, 1), Advance(u, M, 1), u, D)
    BY TwinsAdvance
  <2> HIDE DEF r, s
  <2> QED
    BY <2>1, <2>2, RefusedAlike
<1>4. CASE Look(u, M.at) = "/" /\ Look(u, M.at + 1) = "*"
  <2>1. p \in 2 .. End(u) /\ q = p + D
    <3> DEFINE m == M.at + 1
    <3>1. m \in Nat /\ Look(u, m) # "nul"
      BY <1>1, <1>4
    <3> HIDE DEF m
    <3>2. m + 1 <= End(u) /\ End(u) \in Nat
      BY <3>1, LookIs, TwinTexts
    <3> QED
      BY <1>1, <3>2 DEF m
  <2> HIDE DEF p, q
  <2>2. b.at = c.at + D /\ b.depth = c.depth /\ c.at \in 2 .. End(u)
    <3>1. /\ ReadComment(t, p + D, TRUE).at = ReadComment(u, p, TRUE).at + D
          /\ ReadComment(t, p + D, TRUE).depth = ReadComment(u, p, TRUE).depth
          /\ ReadComment(u, p, TRUE).at \in 2 .. End(u)
      <4> HIDE DEF b, c
      <4>1. p \in 2 .. End(u) /\ TRUE \in BOOLEAN
        BY <2>1
      <4> QED
        BY <4>1, TwinComment
    <3> QED
      BY <2>1, <3>1
  <2>3. /\ r = IF b.depth = 0 \/ Eof(t, b.at) THEN Accept(Mark(Lb), "MULTILINE_COMMENT", st)
                                              ELSE Refuse(Lb, st)
        /\ s = IF c.depth = 0 \/ Eof(u, c.at) THEN Accept(Mark(Mc), "MULTILINE_COMMENT", st)
                                              ELSE Refuse(Mc, st)
    BY <1>1, <1>4 DEF scan_multiline_comment, p, q
  <2> HIDE DEF r, s, b, c
  <2>4. Eof(t, b.at) <=> Eof(u, c.at)
    <3>1. c.at \in Nat /\ 2 <= c.at
      BY <2>2, TwinTexts
    <3> QED
      BY <2>2, <3>1, TwinLook
  <2>5. TwinLexers(Lb, Mc, u, D)
    BY <2>2, TwinsMove
  <2> HIDE DEF Lb, Mc
  <2>6. Alike(Refuse(Lb, st), Refuse(Mc, st), u, D)
    BY <2>5, RefusedAlike
  <2>7. Alike(Accept(Mark(Lb), "MULTILINE_COMMENT", st), Accept(Mark(Mc), "MULTILINE_COMMENT", st), u, D)
    BY AcceptedAlike DEF Tokens
  <2> QED
    BY <2>2, <2>3, <2>4, <2>6, <2>7, Zenon
<1> QED
  BY <1>2, <1>3, <1>4

LEMMA TwinSafeNav ==
    ASSUME NEW t, NEW u, NEW D, Twins(t, u, D), NEW L0, NEW M0, TwinLexers(L0, M0, u, D),
           NEW st
    PROVE  Alike(scan_safe_nav(t, L0, st), scan_safe_nav(u, M0, st), u, D)
<1> DEFINE L == SkipSpace(t, Mark(L0))
           M == SkipSpace(u, Mark(M0))
           N == SkipSpace(t, Advance(t, L, 1))
           O == SkipSpace(u, Advance(u, M, 1))
           r == scan_safe_nav(t, L0, st)
           s == scan_safe_nav(u, M0, st)
<1> SUFFICES Alike(r, s, u, D)
  OBVIOUS
<1>1. TwinLexers(L, M, u, D)
  <2>1. TwinLexers(Mark(L0), Mark(M0), u, D)
    <3>1. M0.at \in 2 .. End(u)
      BY TwinsLook
    <3> QED
      BY <3>1, TwinsMove
  <2> QED
    BY <2>1, TwinsSkip
<1>2. TwinLexers(N, O, u, D)
  <2> HIDE DEF L, M
  <2>1. TwinLexers(Advance(t, L, 1), Advance(u, M, 1), u, D)
    BY <1>1, TwinsAdvance
  <2> QED
    BY <2>1, TwinsSkip
<1>3. Look(t, L.at) = Look(u, M.at) /\ Look(t, N.at) = Look(u, O.at)
  <2> HIDE DEF L, M, N, O
  <2> QED
    BY <1>1, <1>2, TwinsLook
<1>4. /\ Alike(Refuse(L, st), Refuse(M, st), u, D)
      /\ Alike(Refuse(N, st), Refuse(O, st), u, D)
      /\ Alike(Accept(Mark(Advance(t, N, 1)), "SAFE_NAV", st),
               Accept(Mark(Advance(u, O, 1)), "SAFE_NAV", st), u, D)
  <2> HIDE DEF L, M, N, O
  <2> QED
    BY <1>1, <1>2, RefusedAlike, AcceptedAlike DEF Tokens
<1>5. CASE Look(u, M.at) # "?"
  <2>1. r = Refuse(L, st) /\ s = Refuse(M, st)
    BY <1>3, <1>5, Zenon DEF scan_safe_nav
  <2> QED
    BY <1>4, <2>1
<1>6. CASE Look(u, M.at) = "?" /\ Look(u, O.at) # "."
  <2>1. r = Refuse(N, st) /\ s = Refuse(O, st)
    BY <1>3, <1>6 DEF scan_safe_nav
  <2> QED
    BY <1>4, <2>1
<1>7. CASE Look(u, M.at) = "?" /\ Look(u, O.at) = "."
  <2>1. /\ r = Accept(Mark(Advance(t, N, 1)), "SAFE_NAV", st)
        /\ s = Accept(Mark(Advance(u, O, 1)), "SAFE_NAV", st)
    BY <1>3, <1>7 DEF scan_safe_nav
  <2> QED
    BY <1>4, <2>1
<1> QED
  BY <1>5, <1>6, <1>7

LEMMA TwinLineSep ==
    ASSUME NEW t, NEW u, NEW D, Twins(t, u, D), NEW p \in 2 .. End(u)
    PROVE  \/ scan_line_sep(t, p + D) = Nowhere /\ scan_line_sep(u, p) = Nowhere
           \/ /\ scan_line_sep(t, p + D) = scan_line_sep(u, p) + D
              /\ scan_line_sep(u, p) \in 2 .. End(u)
              /\ scan_line_sep(t, p + D) # Nowhere
              /\ scan_line_sep(u, p) # Nowhere
<1> DEFINE q == FirstNot(u, p, {"sp"})
           r == FirstNot(u, q + 1, {"sp"})
           x == scan_line_sep(t, p + D)
           y == scan_line_sep(u, p)
<1> SUFFICES \/ x = Nowhere /\ y = Nowhere
             \/ x = y + D /\ y \in 2 .. End(u) /\ x # Nowhere /\ y # Nowhere
  OBVIOUS
<1>0. u \in Seq(STRING) /\ D \in Nat /\ End(u) \in Nat
  BY TwinTexts
<1>1. FirstNot(t, p + D, {"sp"}) = q + D /\ q \in 2 .. End(u)
  BY TwinFirst
<1> HIDE DEF q
<1>2. q \in Nat /\ 2 <= q /\ Look(t, q + D) = Look(u, q)
  BY <1>0, <1>1, TwinLook
<1>3. CASE Look(u, q) = "lf"
  <2>1. q + 1 <= End(u)
    BY <1>0, <1>2, <1>3, LookIs
  <2>2. x = q + D + 1 /\ y = q + 1
    BY <1>1, <1>2, <1>3, Zenon DEF scan_line_sep, q
  <2> HIDE DEF x, y
  <2> QED
    BY <1>0, <1>2, <2>1, <2>2 DEF Nowhere
<1>4. CASE Look(u, q) = "cr"
  <2> DEFINE m == q + 1
             n == FirstNot(t, q + D + 1, {"sp"})
  <2>1. m \in 2 .. End(u) /\ q + D + 1 = m + D
    BY <1>0, <1>2, <1>4, LookIs
  <2>2. n = r + D /\ r \in 2 .. End(u)
    <3>1. r = FirstNot(u, m, {"sp"}) /\ n = FirstNot(t, m + D, {"sp"})
      BY <2>1
    <3> HIDE DEF m, n, r
    <3> QED
      BY <2>1, <3>1, TwinFirst
  <2>3. /\ x = IF Look(t, n) = "lf" THEN n + 1 ELSE n
        /\ y = IF Look(u, r) = "lf" THEN r + 1 ELSE r
    <3>1. x = IF Look(t, n) = "lf" THEN n + 1 ELSE n
      BY <1>1, <1>2, <1>4, Zenon DEF scan_line_sep
    <3>2. y = IF Look(u, r) = "lf" THEN r + 1 ELSE r
      BY <1>4, Zenon DEF scan_line_sep, q
    <3> QED
      BY <3>1, <3>2
  <2> HIDE DEF x, y, r, m, n
  <2>4. r \in Nat /\ 2 <= r /\ Look(t, n) = Look(u, r)
    BY <1>0, <2>2, TwinLook
  <2>5. Look(u, r) = "lf" => r + 1 <= End(u)
    BY <1>0, <2>4, LookIs
  <2> QED
    BY <1>0, <2>2, <2>3, <2>4, <2>5 DEF Nowhere
<1>5. CASE Look(u, q) \notin {"lf", "cr"}
  <2>1. x = Nowhere /\ y = Nowhere
    BY <1>1, <1>2, <1>5 DEF scan_line_sep, q
  <2> QED
    BY <2>1
<1> QED
  BY <1>3, <1>4, <1>5

LEMMA TwinImportList ==
    ASSUME NEW t, NEW u, NEW D, Twins(t, u, D), NEW L0, NEW M0, TwinLexers(L0, M0, u, D),
           NEW st
    PROVE  Alike(scan_import_list_delimiter(t, L0, st),
                 scan_import_list_delimiter(u, M0, st), u, D)
<1> DEFINE L == Mark(L0)
           M == Mark(M0)
           f == scan_line_sep(t, L.at)
           g == scan_line_sep(u, M.at)
           k == scan_line_sep(t, f)
           j == scan_line_sep(u, g)
           Is(N) == Accept(N, "IMPORT_LIST_DELIMITER", st)
           r == scan_import_list_delimiter(t, L0, st)
           s == scan_import_list_delimiter(u, M0, st)
<1> SUFFICES Alike(r, s, u, D)
  OBVIOUS
<1>1. TwinLexers(L, M, u, D)
  <2>1. M0.at \in 2 .. End(u)
    BY TwinsLook
  <2> QED
    BY <2>1, TwinsMove
<1> HIDE DEF L, M
<1>2. (Eof(t, L.at) <=> Eof(u, M.at)) /\ M.at \in 2 .. End(u) /\ L.at = M.at + D
  BY <1>1, TwinsLook
<1>3. \/ f = Nowhere /\ g = Nowhere
      \/ f = g + D /\ g \in 2 .. End(u) /\ f # Nowhere /\ g # Nowhere
  BY <1>2, TwinLineSep
<1>4. \A N, O : Alike(Is(N), Is(O), u, D)
  BY AcceptedAlike DEF Tokens
<1>5. Alike(Refuse(L, st), Refuse(M, st), u, D)
  BY <1>1, RefusedAlike
<1>6. CASE Eof(u, M.at)
  <2>1. r = Is(L) /\ s = Is(M)
    BY <1>2, <1>6 DEF scan_import_list_delimiter, L, M
  <2> HIDE DEF Is
  <2> QED
    BY <1>4, <2>1
<1>7. CASE ~Eof(u, M.at) /\ g = Nowhere
  <2>1. r = Refuse(L, st) /\ s = Refuse(M, st)
    BY <1>2, <1>3, <1>7 DEF scan_import_list_delimiter, L, M
  <2> QED
    BY <1>5, <2>1
<1>8. CASE ~Eof(u, M.at) /\ g # Nowhere
  <2>0. f = g + D /\ g \in 2 .. End(u) /\ f # Nowhere
    BY <1>3, <1>8
  <2> DEFINE w == IsWord(t, FirstNot(t, f, {"sp"}), "i", "mport")
             z == IsWord(u, FirstNot(u, g, {"sp"}), "i", "mport")
  <2>1. /\ r = IF k # Nowhere THEN Is(Mark([L EXCEPT !.at = k]))
               ELSE IF w THEN Refuse(L, st) ELSE Is(L)
        /\ s = IF j # Nowhere THEN Is(Mark([M EXCEPT !.at = j]))
               ELSE IF z THEN Refuse(M, st) ELSE Is(M)
    <3>1. r = IF k # Nowhere THEN Is(Mark([L EXCEPT !.at = k]))
              ELSE IF w THEN Refuse(L, st) ELSE Is(L)
      BY <1>2, <1>8, <2>0, Zenon DEF scan_import_list_delimiter, L
    <3>2. s = IF j # Nowhere THEN Is(Mark([M EXCEPT !.at = j]))
              ELSE IF z THEN Refuse(M, st) ELSE Is(M)
      BY <1>8, Zenon DEF scan_import_list_delimiter, M
    <3> QED
      BY <3>1, <3>2
  <2> HIDE DEF r, s, f, g
  <2>2. k # Nowhere <=> j # Nowhere
    BY <2>0, TwinLineSep
  <2>3. w <=> z
    <3> DEFINE h == FirstNot(u, g, {"sp"})
    <3>1. FirstNot(t, f, {"sp"}) = h + D /\ h \in 2 .. End(u)
      BY <2>0, TwinFirst
    <3> HIDE DEF h
    <3>2. IsWord(t, h + D, "i", "mport") <=> IsWord(u, h, "i", "mport")
      BY <3>1, TwinWord
    <3> QED
      BY <3>1, <3>2 DEF h
  <2> HIDE DEF w, z, k, j, Is
  <2> QED
    BY <1>4, <1>5, <2>1, <2>2, <2>3, Zenon
<1> QED
  BY <1>6, <1>7, <1>8

LEMMA TwinDot ==
    ASSUME NEW t, NEW u, NEW D, Twins(t, u, D), NEW L0, NEW M0, TwinLexers(L0, M0, u, D),
           NEW st
    PROVE  Alike(scan_import_dot(t, L0, st), scan_import_dot(u, M0, st), u, D)
<1> DEFINE L == Mark(L0)
           M == Mark(M0)
           N == SkipSpace(t, Advance(t, L, 1))
           O == SkipSpace(u, Advance(u, M, 1))
           lineT == \E q \in L.at .. N.at - 1 : t[q] \in LineEnd
           lineU == \E q \in M.at .. O.at - 1 : u[q] \in LineEnd
           wordT == lineT /\ Look(t, N.at) = "i"
           wordU == lineU /\ Look(u, O.at) = "i"
           P == IF wordT THEN SkipTo(N, Keyword(t, N.at, "mport")) ELSE N
           Q == IF wordU THEN SkipTo(O, Keyword(u, O.at, "mport")) ELSE O
           r == scan_import_dot(t, L0, st)
           s == scan_import_dot(u, M0, st)
<1> SUFFICES Alike(r, s, u, D)
  OBVIOUS
<1>0. Look(t, L0.at) = Look(u, M0.at) /\ M0.at \in 2 .. End(u)
  BY TwinsLook
<1>1. TwinLexers(L, M, u, D)
  BY <1>0, TwinsMove
<1>2. TwinLexers(N, O, u, D)
  <2> HIDE DEF L, M
  <2>1. TwinLexers(Advance(t, L, 1), Advance(u, M, 1), u, D)
    BY <1>1, TwinsAdvance
  <2> QED
    BY <2>1, TwinsSkip
<1> HIDE DEF L, M, N, O
<1>3. /\ Look(t, N.at) = Look(u, O.at) /\ L.at = M.at + D /\ N.at = O.at + D
      /\ M.at \in 2 .. End(u) /\ O.at \in 2 .. End(u)
  BY <1>1, <1>2, TwinsLook
<1>4. lineT <=> lineU
  <2>0. D \in Nat /\ End(u) \in Nat /\ Len(u) \in Nat /\ End(u) = Len(u) + 1
    BY TwinTexts
  <2>1. ASSUME NEW q \in M.at .. O.at - 1 PROVE t[q + D] = u[q] /\ q + D \in L.at .. N.at - 1
    <3>1. q \in Nat /\ 2 <= q /\ q <= Len(u) /\ q + D \in L.at .. N.at - 1
      BY <1>3, <2>0
    <3> QED
      BY <3>1, TwinLook
  <2>2. ASSUME NEW q \in L.at .. N.at - 1 PROVE q - D \in M.at .. O.at - 1 /\ (q - D) + D = q
    BY <1>3, <2>0
  <2>3. lineU => lineT
    BY <2>1
  <2>4. lineT => lineU
    <3> SUFFICES ASSUME NEW q \in L.at .. N.at - 1, t[q] \in LineEnd PROVE lineU
      OBVIOUS
    <3>1. q - D \in M.at .. O.at - 1 /\ t[q] = u[q - D]
      BY <2>1, <2>2
    <3> QED
      BY <3>1
  <2> QED
    BY <2>3, <2>4
<1>5. IsWord(t, N.at, "i", "mport") <=> IsWord(u, O.at, "i", "mport")
  <2> DEFINE p == O.at
  <2>1. p \in 2 .. End(u) /\ N.at = p + D
    BY <1>3
  <2> HIDE DEF p
  <2>2. IsWord(t, p + D, "i", "mport") <=> IsWord(u, p, "i", "mport")
    BY <2>1, TwinWord
  <2> QED
    BY <2>1, <2>2 DEF p
<1> HIDE DEF lineT, lineU
<1>6. CASE Look(u, M0.at) # "."
  <2>1. r = Refuse(L0, st) /\ s = Refuse(M0, st)
    BY <1>0, <1>6, Zenon DEF scan_import_dot
  <2> QED
    BY <2>1, RefusedAlike
<1>7. CASE Look(u, M0.at) = "."
  <2>1. r = IF wordT /\ IsWord(t, N.at, "i", "mport")
              THEN Accept(P, "AUTOMATIC_SEMICOLON", st)
              ELSE Accept(Mark(P), "IMPORT_DOT", st)
    BY <1>0, <1>7, Zenon DEF scan_import_dot, L, N, lineT
  <2>2. s = IF wordU /\ IsWord(u, O.at, "i", "mport")
              THEN Accept(Q, "AUTOMATIC_SEMICOLON", st)
              ELSE Accept(Mark(Q), "IMPORT_DOT", st)
    BY <1>0, <1>7, Zenon DEF scan_import_dot, M, O, lineU
  <2>3. wordT <=> wordU
    BY <1>3, <1>4
  <2> HIDE DEF r, s, P, Q, wordT, wordU
  <2>4. /\ Alike(Accept(P, "AUTOMATIC_SEMICOLON", st), Accept(Q, "AUTOMATIC_SEMICOLON", st), u, D)
        /\ Alike(Accept(Mark(P), "IMPORT_DOT", st), Accept(Mark(Q), "IMPORT_DOT", st), u, D)
    BY AcceptedAlike DEF Tokens
  <2> QED
    BY <1>5, <2>1, <2>2, <2>3, <2>4, Zenon
<1> QED
  BY <1>6, <1>7

LEMMA ThenAlike ==
    ASSUME NEW r, NEW s, NEW u, NEW D, Alike(r, s, u, D), NEW valid, NEW a, NEW b,
           r.token = NoToken => Alike(a, b, u, D)
    PROVE  Alike(Then(r, valid, a), Then(s, valid, b), u, D)
<1>1. r.token = s.token
  BY DEF Alike
<1> QED
  BY <1>1, Zenon DEF Then

(* The scans behind the first.                                             *)
LEMMA TwinScans ==
    ASSUME NEW t, NEW u, NEW D, Twins(t, u, D), NEW V, ~InClassHeader(V),
           NEW r, NEW s, Alike(r, s, u, D)
    PROVE  Alike(AfterSemicolon(t, r, V), AfterSemicolon(u, s, V), u, D)
<1> DEFINE Twin(a, b) == Alike(a, b, u, D)
           Refused(a, b) == a.token = NoToken =>
                              a.stack = b.stack /\ TwinLexers(a.lexer, b.lexer, u, D)
<1>0. \A a, b : Twin(a, b) => a.token = b.token /\ Refused(a, b)
  BY DEF Alike
<1>1. ASSUME NEW a, NEW b, Twin(a, b) PROVE Twin(DotScan(t, a, V), DotScan(u, b, V))
  <2>1. a.token = NoToken => Twin(scan_import_dot(t, a.lexer, a.stack),
                                  scan_import_dot(u, b.lexer, b.stack))
    BY <1>0, <1>1, TwinDot
  <2> QED
    BY <1>1, <2>1, ThenAlike DEF DotScan
<1>2. \A a, b : Twin(a, b) => Twin(KeywordScan(t, a, V), KeywordScan(u, b, V))
  BY DEF KeywordScan, Then
<1>3. ASSUME NEW a, NEW b, Twin(a, b) PROVE Twin(ContentScan(t, a, V), ContentScan(u, b, V))
  <2>1. a.token = NoToken => Twin(scan_string_content(t, a.lexer, a.stack),
                                  scan_string_content(u, b.lexer, b.stack))
    BY <1>0, <1>3, TwinContentScan
  <2> QED
    BY <1>3, <2>1, ThenAlike DEF ContentScan
<1>4. ASSUME NEW a, NEW b, Twin(a, b) PROVE Twin(StartScan(t, a, V), StartScan(u, b, V))
  <2> DEFINE M == SkipSpace(t, a.lexer)
             N == SkipSpace(u, b.lexer)
             c == IF "STRING_START" \in V THEN scan_string_start(t, M, a.stack)
                                          ELSE Refuse(M, a.stack)
             d == IF "STRING_START" \in V THEN scan_string_start(u, N, b.stack)
                                          ELSE Refuse(N, b.stack)
  <2>1. ASSUME a.token = NoToken PROVE Twin(c, d)
    <3>1. TwinLexers(a.lexer, b.lexer, u, D) /\ a.stack = b.stack
      BY <1>0, <1>4, <2>1
    <3>2. TwinLexers(M, N, u, D)
      BY <3>1, TwinsSkip
    <3> HIDE DEF M, N
    <3>3. /\ Twin(scan_string_start(t, M, a.stack), scan_string_start(u, N, b.stack))
          /\ Twin(Refuse(M, a.stack), Refuse(N, b.stack))
      BY <3>1, <3>2, TwinStart, RefusedAlike
    <3> QED
      BY <3>3, Zenon
  <2>2. StartScan(t, a, V) = Then(a, TRUE, c) /\ StartScan(u, b, V) = Then(b, TRUE, d)
    BY Zenon DEF StartScan
  <2> HIDE DEF c, d
  <2> QED
    BY <1>4, <2>1, <2>2, ThenAlike
<1>5. ASSUME NEW a, NEW b, Twin(a, b) PROVE Twin(CommentScan(t, a, V), CommentScan(u, b, V))
  <2>1. a.token = NoToken => Twin(scan_multiline_comment(t, a.lexer, a.stack),
                                  scan_multiline_comment(u, b.lexer, b.stack))
    BY <1>0, <1>5, TwinCommentScan
  <2> QED
    BY <1>5, <2>1, ThenAlike DEF CommentScan
<1>6. ASSUME NEW a, NEW b, Twin(a, b) PROVE Twin(SafeNavScan(t, a, V), SafeNavScan(u, b, V))
  <2>1. a.token = NoToken => Twin(scan_safe_nav(t, a.lexer, a.stack),
                                  scan_safe_nav(u, b.lexer, b.stack))
    BY <1>0, <1>6, TwinSafeNav
  <2> QED
    BY <1>6, <2>1, ThenAlike DEF SafeNavScan
<1>7. ASSUME NEW a, NEW b, Twin(a, b) PROVE Twin(AfterKeyword(t, a, V), AfterKeyword(u, b, V))
  <2>1. a.token = NoToken => Twin(scan_import_list_delimiter(t, a.lexer, a.stack),
                                  scan_import_list_delimiter(u, b.lexer, b.stack))
    BY <1>0, <1>7, TwinImportList
  <2>2. a.token = b.token
    BY <1>0, <1>7
  <2>3. Twin(SafeNavScan(t, CommentScan(t, StartScan(t, ContentScan(t, a, V), V), V), V),
             SafeNavScan(u, CommentScan(u, StartScan(u, ContentScan(u, b, V), V), V), V))
    <3> HIDE DEF Twin
    <3> QED
      BY <1>3, <1>4, <1>5, <1>6, <1>7
  <2> HIDE DEF Twin
  <2> QED
    BY <2>1, <2>2, <2>3, Zenon DEF AfterKeyword
<1>8. r.token = s.token /\ (r.token = NoToken => Look(t, r.lexer.at) = Look(u, s.lexer.at))
  BY TwinsLook DEF Alike
<1>9. r.token = NoToken => Twin(scan_safe_nav(t, r.lexer, r.stack),
                                scan_safe_nav(u, s.lexer, s.stack))
  BY <1>0, TwinSafeNav
<1>10. Twin(AfterKeyword(t, KeywordScan(t, DotScan(t, r, V), V), V),
            AfterKeyword(u, KeywordScan(u, DotScan(u, s, V), V), V))
  <2>1. Twin(r, s)
    OBVIOUS
  <2> HIDE DEF Twin
  <2> QED
    BY <1>1, <1>2, <1>7, <2>1
<1> SUFFICES Twin(AfterSemicolon(t, r, V), AfterSemicolon(u, s, V))
  OBVIOUS
<1> HIDE DEF Twin
<1> QED
  BY <1>8, <1>9, <1>10, Zenon DEF AfterSemicolon

(* What goes on with a statement, and what does not.                       *)
LEMMA LexerAt ==
    ASSUME NEW L, {"at", "from", "to"} \subseteq DOMAIN L, NEW q, NEW t, NEW k
    PROVE  /\ SkipTo(L, q).at = q
           /\ {"at", "from", "to"} \subseteq DOMAIN SkipTo(L, q)
           /\ Advance(t, L, k).at = Past(t, L.at, k)
           /\ {"at", "from", "to"} \subseteq DOMAIN Advance(t, L, k)
  BY DEF SkipTo, Advance

GoesOnWith(t, p) ==
    \/ Look(t, p) \in Continuation \cup {"/"}
    \/ NotEqual(t, p)
    \/ Continues(t, p, DOMAIN Rest)

LEMMA LineEndIs ==
    ASSUME NEW t, NEW L, NEW st, NEW V, ~InClassHeader(V),
           Look(t, L.at) = "/" => Look(t, L.at + 1) \notin {"/", "*"}
    PROVE  LET p == L.at
               r == AfterLineEnd(t, L, st, V)
           IN  /\ Look(t, p) \in Continuation => r = Refuse(SkipTo(L, p), st)
               /\ Look(t, p) = "/" => r = Refuse(Advance(t, L, 1), st)
               /\ NotEqual(t, p) => r = Refuse(SkipTo(L, p + 1), st)
               /\ Continues(t, p, DOMAIN Rest) => r = Refuse(SkipTo(L, p + 2), st)
               /\ ~GoesOnWith(t, p) => r.token = "AUTOMATIC_SEMICOLON" /\ r.stack = st
<1> DEFINE p == L.at
           c == Look(t, p)
           r == AfterLineEnd(t, L, st, V)
<1> SUFFICES /\ c \in Continuation => r = Refuse(SkipTo(L, p), st)
             /\ c = "/" => r = Refuse(Advance(t, L, 1), st)
             /\ NotEqual(t, p) => r = Refuse(SkipTo(L, p + 1), st)
             /\ Continues(t, p, DOMAIN Rest) => r = Refuse(SkipTo(L, p + 2), st)
             /\ ~GoesOnWith(t, p) => r.token = "AUTOMATIC_SEMICOLON" /\ r.stack = st
  OBVIOUS
<1>1. /\ "/" \notin Continuation /\ "!" \notin Continuation /\ ";" \notin Continuation
      /\ \A x \in DOMAIN Rest : x \notin Continuation \cup {"/", "!", ";"}
  BY DEF Continuation, Rest
<1>2. CASE c \in Continuation
  <2>1. c # "/" /\ ~NotEqual(t, p) /\ ~Continues(t, p, DOMAIN Rest) /\ GoesOnWith(t, p)
    BY <1>1, <1>2 DEF NotEqual, Continues, GoesOnWith
  <2>2. r = Refuse(SkipTo(L, p), st)
    BY <1>1, <1>2, <2>1 DEF AfterLineEnd
  <2> QED
    BY <2>1, <2>2
<1>3. CASE c = "/"
  <2>1. c \notin Continuation /\ ~NotEqual(t, p) /\ ~Continues(t, p, DOMAIN Rest)
        /\ GoesOnWith(t, p)
    BY <1>1, <1>3 DEF NotEqual, Continues, GoesOnWith
  <2>2. r = Refuse(Advance(t, L, 1), st)
    BY <1>3, <2>1 DEF AfterLineEnd
  <2> QED
    BY <2>1, <2>2
<1>4. CASE NotEqual(t, p)
  <2>1. c = "!" /\ c \notin Continuation /\ ~Continues(t, p, DOMAIN Rest) /\ GoesOnWith(t, p)
    BY <1>1, <1>4 DEF NotEqual, Continues, GoesOnWith
  <2>2. r = Refuse(SkipTo(L, p + 1), st)
    BY <1>4, <2>1 DEF AfterLineEnd
  <2> QED
    BY <2>1, <2>2
<1>5. CASE Continues(t, p, DOMAIN Rest)
  <2>1. c \notin Continuation \cup {"/", "!", ";"} /\ ~NotEqual(t, p) /\ GoesOnWith(t, p)
    BY <1>1, <1>5 DEF NotEqual, Continues, GoesOnWith
  <2>2. r = Refuse(SkipTo(L, p + 2), st)
    BY <1>5, <2>1 DEF AfterLineEnd
  <2> QED
    BY <2>1, <2>2
<1>6. CASE ~GoesOnWith(t, p)
  <2>1. c \notin Continuation /\ c # "/" /\ ~NotEqual(t, p) /\ ~Continues(t, p, DOMAIN Rest)
    BY <1>6 DEF GoesOnWith
  <2>2. \/ r = Accept(Mark(Advance(t, L, 1)), "AUTOMATIC_SEMICOLON", st)
        \/ r = Accept(L, "AUTOMATIC_SEMICOLON", st)
    BY <2>1 DEF AfterLineEnd
  <2>3. r.token = "AUTOMATIC_SEMICOLON" /\ r.stack = st
    BY <2>2 DEF Accept
  <2> QED
    BY <1>6, <2>1, <2>3
<1> QED
  BY <1>2, <1>3, <1>4, <1>5, <1>6

LEMMA LineCommentIs ==
    ASSUME NEW t, NEW L, NEW st
    PROVE  LET n == PastComments(t, L.at)
               r == AfterLineComment(t, L, st)
           IN  /\ Look(t, n) \in Continuation => r = Refuse(SkipTo(L, Past(t, n, 0)), st)
               /\ Look(t, n) = "/" => r = Refuse(SkipTo(L, Past(t, n, 1)), st)
               /\ NotEqual(t, n) => r = Refuse(SkipTo(L, Past(t, n, 1)), st)
               /\ Continues(t, n, DOMAIN Rest) => r = Refuse(SkipTo(L, Past(t, n, 2)), st)
               /\ ~GoesOnWith(t, n) => r.token = "AUTOMATIC_SEMICOLON" /\ r.stack = st
<1> DEFINE n == PastComments(t, L.at)
           c == Look(t, n)
           r == AfterLineComment(t, L, st)
<1> SUFFICES /\ c \in Continuation => r = Refuse(SkipTo(L, Past(t, n, 0)), st)
             /\ c = "/" => r = Refuse(SkipTo(L, Past(t, n, 1)), st)
             /\ NotEqual(t, n) => r = Refuse(SkipTo(L, Past(t, n, 1)), st)
             /\ Continues(t, n, DOMAIN Rest) => r = Refuse(SkipTo(L, Past(t, n, 2)), st)
             /\ ~GoesOnWith(t, n) => r.token = "AUTOMATIC_SEMICOLON" /\ r.stack = st
  OBVIOUS
<1>1. /\ "/" \notin Continuation /\ "!" \notin Continuation
      /\ \A x \in DOMAIN Rest : x \notin Continuation \cup {"/", "!"}
  BY DEF Continuation, Rest
<1>2. CASE c \in Continuation
  <2>1. c # "/" /\ ~NotEqual(t, n) /\ ~Continues(t, n, DOMAIN Rest) /\ GoesOnWith(t, n)
    BY <1>1, <1>2 DEF NotEqual, Continues, GoesOnWith
  <2>2. r = Refuse(SkipTo(L, Past(t, n, 0)), st)
    BY <1>2, <2>1 DEF AfterLineComment
  <2> QED
    BY <2>1, <2>2
<1>3. CASE c = "/"
  <2>1. c \notin Continuation /\ ~NotEqual(t, n) /\ ~Continues(t, n, DOMAIN Rest)
        /\ GoesOnWith(t, n)
    BY <1>1, <1>3 DEF NotEqual, Continues, GoesOnWith
  <2>2. r = Refuse(SkipTo(L, Past(t, n, 1)), st)
    BY <1>3, <2>1 DEF AfterLineComment
  <2> QED
    BY <2>1, <2>2
<1>4. CASE NotEqual(t, n)
  <2>1. c = "!" /\ c \notin Continuation /\ ~Continues(t, n, DOMAIN Rest) /\ GoesOnWith(t, n)
    BY <1>1, <1>4 DEF NotEqual, Continues, GoesOnWith
  <2>2. r = Refuse(SkipTo(L, Past(t, n, 1)), st)
    BY <1>4, <2>1 DEF AfterLineComment
  <2> QED
    BY <2>1, <2>2
<1>5. CASE Continues(t, n, DOMAIN Rest)
  <2>1. c \notin Continuation \cup {"/", "!"} /\ ~NotEqual(t, n) /\ GoesOnWith(t, n)
    BY <1>1, <1>5 DEF NotEqual, Continues, GoesOnWith
  <2>2. r = Refuse(SkipTo(L, Past(t, n, 2)), st)
    BY <1>5, <2>1 DEF AfterLineComment
  <2> QED
    BY <2>1, <2>2
<1>6. CASE ~GoesOnWith(t, n)
  <2>1. c \notin Continuation /\ c # "/" /\ ~NotEqual(t, n) /\ ~Continues(t, n, DOMAIN Rest)
    BY <1>6 DEF GoesOnWith
  <2>2. r = Accept(L, "AUTOMATIC_SEMICOLON", st)
    BY <2>1 DEF AfterLineComment
  <2> QED
    BY <1>6, <2>1, <2>2 DEF Accept
<1> QED
  BY <1>2, <1>3, <1>4, <1>5, <1>6

LEMMA TwinGoesOn ==
    ASSUME NEW t, NEW u, NEW D, Twins(t, u, D), NEW q \in 2 .. End(u)
    PROVE  /\ Look(t, q + D) = Look(u, q) /\ Look(t, q + D + 1) = Look(u, q + 1)
           /\ NotEqual(t, q + D) <=> NotEqual(u, q)
           /\ \A S : Continues(t, q + D, S) <=> Continues(u, q, S)
           /\ GoesOnWith(t, q + D) <=> GoesOnWith(u, q)
           /\ NotEqual(u, q) => q + 1 \in 2 .. End(u)
           /\ Continues(u, q, DOMAIN Rest) => q + 2 \in 2 .. End(u)
<1>1. /\ q \in Nat /\ 2 <= q /\ D \in Nat /\ q <= End(u)
      /\ Len(u) \in Nat /\ End(u) = Len(u) + 1
  BY TwinTexts
<1>2. Look(t, q + D) = Look(u, q)
  BY <1>1, TwinLook
<1>3. Look(t, q + D + 1) = Look(u, q + 1)
  <2>1. q + 1 \in Nat /\ 2 <= q + 1 /\ q + 1 + D = q + D + 1
    BY <1>1
  <2> QED
    BY <2>1, TwinLook
<1>4. /\ NotEqual(t, q + D) <=> NotEqual(u, q)
      /\ \A S : Continues(t, q + D, S) <=> Continues(u, q, S)
  BY TwinWord
<1>5. GoesOnWith(t, q + D) <=> GoesOnWith(u, q)
  <2> DEFINE a == q + D
  <2>1. Look(t, a) = Look(u, q) /\ (NotEqual(t, a) <=> NotEqual(u, q))
        /\ \A S : Continues(t, a, S) <=> Continues(u, q, S)
    BY <1>2, <1>4
  <2> HIDE DEF a
  <2>2. GoesOnWith(t, a) <=> GoesOnWith(u, q)
    BY <2>1 DEF GoesOnWith
  <2> QED
    BY <2>2 DEF a
<1>6. NotEqual(u, q) => q + 1 \in 2 .. End(u)
  <2> SUFFICES ASSUME NotEqual(u, q) PROVE q + 1 \in 2 .. End(u)
    OBVIOUS
  <2>1. Look(u, q) # "nul"
    BY DEF NotEqual
  <2>2. q <= Len(u)
    BY <1>1, <2>1 DEF Look, Eof
  <2> QED
    BY <1>1, <2>2
<1>7. Continues(u, q, DOMAIN Rest) => q + 2 \in 2 .. End(u)
  <2> SUFFICES ASSUME Continues(u, q, DOMAIN Rest) PROVE q + 2 \in 2 .. End(u)
    OBVIOUS
  <2>1. Look(u, q) \in DOMAIN Rest /\ Look(u, q + 1) = Rest[Look(u, q)]
    BY DEF Continues, IsWord
  <2>2. \A x \in DOMAIN Rest : Rest[x] # "nul"
    BY DEF Rest
  <2>3. Look(u, q + 1) # "nul"
    BY <2>1, <2>2
  <2>4. q + 1 <= Len(u)
    BY <1>1, <2>3 DEF Look, Eof
  <2> QED
    BY <1>1, <2>4
<1> QED
  BY <1>2, <1>3, <1>4, <1>5, <1>6, <1>7

LEMMA EndedAlike ==
    ASSUME NEW r, NEW s, NEW u, NEW D, NEW st,
           r.token = "AUTOMATIC_SEMICOLON", r.stack = st,
           s.token = "AUTOMATIC_SEMICOLON", s.stack = st
    PROVE  Alike(r, s, u, D)
  BY DEF Alike, NoToken

(* The same symbol behind a line end, and behind the comments there.       *)
LEMMA TwinLineEnd ==
    ASSUME NEW t, NEW u, NEW D, Twins(t, u, D), NEW V, ~InClassHeader(V), NEW st,
           NEW L, NEW K, TwinLexers(L, K, u, D),
           Look(u, K.at) = "/" => Look(u, K.at + 1) \notin {"/", "*"}
    PROVE  Alike(AfterLineEnd(t, L, st, V), AfterLineEnd(u, K, st, V), u, D)
<1> DEFINE q == K.at
           a == q + D
           r == AfterLineEnd(t, L, st, V)
           s == AfterLineEnd(u, K, st, V)
<1>1. q \in 2 .. End(u) /\ L.at = a
  BY DEF TwinLexers
<1>0. {"at", "from", "to"} \subseteq DOMAIN L /\ {"at", "from", "to"} \subseteq DOMAIN K
  BY DEF TwinLexers
<1> SUFFICES Alike(r, s, u, D)
  OBVIOUS
<1>2. /\ Look(t, a) = Look(u, q) /\ Look(t, a + 1) = Look(u, q + 1)
      /\ NotEqual(t, a) <=> NotEqual(u, q)
      /\ Continues(t, a, DOMAIN Rest) <=> Continues(u, q, DOMAIN Rest)
      /\ GoesOnWith(t, a) <=> GoesOnWith(u, q)
      /\ NotEqual(u, q) => q + 1 \in 2 .. End(u)
      /\ Continues(u, q, DOMAIN Rest) => q + 2 \in 2 .. End(u)
  BY <1>1, TwinGoesOn
<1>3. /\ Look(t, a) \in Continuation => r = Refuse(SkipTo(L, a), st)
      /\ Look(t, a) = "/" => r = Refuse(Advance(t, L, 1), st)
      /\ NotEqual(t, a) => r = Refuse(SkipTo(L, a + 1), st)
      /\ Continues(t, a, DOMAIN Rest) => r = Refuse(SkipTo(L, a + 2), st)
      /\ ~GoesOnWith(t, a) => r.token = "AUTOMATIC_SEMICOLON" /\ r.stack = st
  <2>1. Look(t, L.at) = "/" => Look(t, L.at + 1) \notin {"/", "*"}
    BY <1>1, <1>2
  <2> HIDE DEF a, q
  <2> QED
    BY <1>0, <1>1, <2>1, LineEndIs
<1>4. /\ Look(u, q) \in Continuation => s = Refuse(SkipTo(K, q), st)
      /\ Look(u, q) = "/" => s = Refuse(Advance(u, K, 1), st)
      /\ NotEqual(u, q) => s = Refuse(SkipTo(K, q + 1), st)
      /\ Continues(u, q, DOMAIN Rest) => s = Refuse(SkipTo(K, q + 2), st)
      /\ ~GoesOnWith(u, q) => s.token = "AUTOMATIC_SEMICOLON" /\ s.stack = st
  BY <1>0, LineEndIs
<1>5. D \in Nat /\ q \in Nat
  BY <1>1, TwinTexts
<1>6. \A x \in 2 .. End(u) : Alike(Refuse(SkipTo(L, x + D), st), Refuse(SkipTo(K, x), st), u, D)
  BY TwinsMove, RefusedAlike
<1> HIDE DEF r, s
<1>7. CASE Look(u, q) \in Continuation
  BY <1>1, <1>2, <1>3, <1>4, <1>6, <1>7
<1>8. CASE Look(u, q) = "/"
  <2>1. Alike(Refuse(Advance(t, L, 1), st), Refuse(Advance(u, K, 1), st), u, D)
    BY TwinsAdvance, RefusedAlike
  <2>2. r = Refuse(Advance(t, L, 1), st) /\ s = Refuse(Advance(u, K, 1), st)
    <3> HIDE DEF a, q
    <3> QED
      BY <1>2, <1>3, <1>4, <1>8
  <2> QED
    BY <2>1, <2>2
<1>9. CASE NotEqual(u, q)
  <2>1. r = Refuse(SkipTo(L, a + 1), st) /\ s = Refuse(SkipTo(K, q + 1), st)
        /\ q + 1 \in 2 .. End(u)
    <3> HIDE DEF a, q
    <3> QED
      BY <1>2, <1>3, <1>4, <1>9
  <2>2. a + 1 = (q + 1) + D
    BY <1>5
  <2> QED
    BY <1>6, <2>1, <2>2
<1>10. CASE Continues(u, q, DOMAIN Rest)
  <2>1. r = Refuse(SkipTo(L, a + 2), st) /\ s = Refuse(SkipTo(K, q + 2), st)
        /\ q + 2 \in 2 .. End(u)
    <3> HIDE DEF a, q
    <3> QED
      BY <1>2, <1>3, <1>4, <1>10
  <2>2. a + 2 = (q + 2) + D
    BY <1>5
  <2> QED
    BY <1>6, <2>1, <2>2
<1>11. CASE ~GoesOnWith(u, q)
  <2>1. r.token = "AUTOMATIC_SEMICOLON" /\ r.stack = st
        /\ s.token = "AUTOMATIC_SEMICOLON" /\ s.stack = st
    <3> HIDE DEF a, q
    <3> QED
      BY <1>2, <1>3, <1>4, <1>11
  <2> QED
    BY <2>1, EndedAlike
<1> QED
  BY <1>7, <1>8, <1>9, <1>10, <1>11, Zenon DEF GoesOnWith

LEMMA TwinBehindComments ==
    ASSUME NEW t, NEW u, NEW D, Twins(t, u, D), NEW V, ~InClassHeader(V), NEW st,
           NEW L, {"at", "from", "to"} \subseteq DOMAIN L,
           NEW K, {"at", "from", "to"} \subseteq DOMAIN K,
           K.at \in 2 .. End(u), PastComments(t, L.at) = K.at + D,
           Look(u, K.at) = "/" => Look(u, K.at + 1) \notin {"/", "*"}
    PROVE  Alike(AfterLineComment(t, L, st), AfterLineEnd(u, K, st, V), u, D)
<1> DEFINE q == K.at
           a == q + D
           r == AfterLineComment(t, L, st)
           s == AfterLineEnd(u, K, st, V)
<1>1. q \in 2 .. End(u) /\ PastComments(t, L.at) = a
  OBVIOUS
<1> SUFFICES Alike(r, s, u, D)
  OBVIOUS
<1>2. /\ Look(t, a) = Look(u, q)
      /\ NotEqual(t, a) <=> NotEqual(u, q)
      /\ Continues(t, a, DOMAIN Rest) <=> Continues(u, q, DOMAIN Rest)
      /\ GoesOnWith(t, a) <=> GoesOnWith(u, q)
      /\ NotEqual(u, q) => q + 1 \in 2 .. End(u)
      /\ Continues(u, q, DOMAIN Rest) => q + 2 \in 2 .. End(u)
  BY <1>1, TwinGoesOn
<1>3. /\ Look(t, a) \in Continuation => r = Refuse(SkipTo(L, Past(t, a, 0)), st)
      /\ Look(t, a) = "/" => r = Refuse(SkipTo(L, Past(t, a, 1)), st)
      /\ NotEqual(t, a) => r = Refuse(SkipTo(L, Past(t, a, 1)), st)
      /\ Continues(t, a, DOMAIN Rest) => r = Refuse(SkipTo(L, Past(t, a, 2)), st)
      /\ ~GoesOnWith(t, a) => r.token = "AUTOMATIC_SEMICOLON" /\ r.stack = st
  <2> DEFINE n == PastComments(t, L.at)
  <2>1. /\ Look(t, n) \in Continuation => r = Refuse(SkipTo(L, Past(t, n, 0)), st)
        /\ Look(t, n) = "/" => r = Refuse(SkipTo(L, Past(t, n, 1)), st)
        /\ NotEqual(t, n) => r = Refuse(SkipTo(L, Past(t, n, 1)), st)
        /\ Continues(t, n, DOMAIN Rest) => r = Refuse(SkipTo(L, Past(t, n, 2)), st)
        /\ ~GoesOnWith(t, n) => r.token = "AUTOMATIC_SEMICOLON" /\ r.stack = st
    BY LineCommentIs
  <2>2. n = a
    BY <1>1
  <2> HIDE DEF n, a, r
  <2> QED
    BY <2>1, <2>2
<1>4. /\ Look(u, q) \in Continuation => s = Refuse(SkipTo(K, q), st)
      /\ Look(u, q) = "/" => s = Refuse(Advance(u, K, 1), st)
      /\ NotEqual(u, q) => s = Refuse(SkipTo(K, q + 1), st)
      /\ Continues(u, q, DOMAIN Rest) => s = Refuse(SkipTo(K, q + 2), st)
      /\ ~GoesOnWith(u, q) => s.token = "AUTOMATIC_SEMICOLON" /\ s.stack = st
  BY LineEndIs
<1>5. D \in Nat /\ q \in Nat /\ End(u) \in Nat /\ Len(u) \in Nat
  BY <1>1, TwinTexts
<1>6. ASSUME NEW k \in Nat
      PROVE  Alike(Refuse(SkipTo(L, Past(t, a, k)), st), Refuse(SkipTo(K, Past(u, q, k)), st), u, D)
  <2> DEFINE x == Past(u, q, k)
  <2>1. Past(t, a, k) = x + D /\ x \in 2 .. End(u)
    BY <1>1, TwinPast
  <2> HIDE DEF x, a, q
  <2>2. TwinLexers(SkipTo(L, x + D), SkipTo(K, x), u, D)
    <3>1. /\ SkipTo(L, x + D).at = x + D
          /\ {"at", "from", "to"} \subseteq DOMAIN SkipTo(L, x + D)
          /\ SkipTo(K, x).at = x
          /\ {"at", "from", "to"} \subseteq DOMAIN SkipTo(K, x)
      BY LexerAt
    <3> QED
      BY <2>1, <3>1 DEF TwinLexers
  <2> QED
    BY <2>1, <2>2, RefusedAlike DEF x
<1>7. \A k \in Nat : q + k \in 2 .. End(u) => Past(u, q, k) = q + k
  BY <1>5 DEF Past
<1> HIDE DEF r, s
<1>8. CASE Look(u, q) \in Continuation
  <2>1. r = Refuse(SkipTo(L, Past(t, a, 0)), st) /\ s = Refuse(SkipTo(K, q), st)
    <3> HIDE DEF a, q
    <3> QED
      BY <1>2, <1>3, <1>4, <1>8
  <2>2. Past(u, q, 0) = q
    BY <1>1, <1>5 DEF Past
  <2>3. Alike(Refuse(SkipTo(L, Past(t, a, 0)), st), Refuse(SkipTo(K, Past(u, q, 0)), st), u, D)
    BY <1>6
  <2> HIDE DEF a, q
  <2> QED
    BY <2>1, <2>2, <2>3
<1>9. CASE Look(u, q) = "/"
  <2>1. r = Refuse(SkipTo(L, Past(t, a, 1)), st) /\ s = Refuse(Advance(u, K, 1), st)
    <3> HIDE DEF a, q
    <3> QED
      BY <1>2, <1>3, <1>4, <1>9
  <2> DEFINE x == Past(u, q, 1)
             M == SkipTo(L, x + D)
             N == Advance(u, K, 1)
  <2>2. Past(t, a, 1) = x + D /\ x \in 2 .. End(u)
    BY <1>1, TwinPast
  <2>3. /\ M.at = x + D /\ {"at", "from", "to"} \subseteq DOMAIN M
        /\ N.at = x /\ {"at", "from", "to"} \subseteq DOMAIN N
    <3> HIDE DEF x
    <3>1. /\ SkipTo(L, x + D).at = x + D
          /\ {"at", "from", "to"} \subseteq DOMAIN SkipTo(L, x + D)
      BY LexerAt
    <3>2. /\ Advance(u, K, 1).at = Past(u, K.at, 1)
          /\ {"at", "from", "to"} \subseteq DOMAIN Advance(u, K, 1)
      BY LexerAt
    <3> QED
      BY <3>1, <3>2 DEF x
  <2> HIDE DEF x, M, N
  <2>4. TwinLexers(M, N, u, D)
    BY <2>2, <2>3 DEF TwinLexers
  <2>5. Alike(Refuse(M, st), Refuse(N, st), u, D)
    BY <2>4, RefusedAlike
  <2> QED
    BY <2>1, <2>2, <2>5 DEF M, N
<1>10. CASE NotEqual(u, q)
  <2>1. /\ r = Refuse(SkipTo(L, Past(t, a, 1)), st) /\ s = Refuse(SkipTo(K, q + 1), st)
        /\ q + 1 \in 2 .. End(u)
    <3> HIDE DEF a, q
    <3> QED
      BY <1>2, <1>3, <1>4, <1>10
  <2>2. Past(u, q, 1) = q + 1
    BY <1>7, <2>1
  <2>3. Alike(Refuse(SkipTo(L, Past(t, a, 1)), st), Refuse(SkipTo(K, Past(u, q, 1)), st), u, D)
    BY <1>6
  <2> HIDE DEF a, q
  <2> QED
    BY <2>1, <2>2, <2>3
<1>11. CASE Continues(u, q, DOMAIN Rest)
  <2>1. /\ r = Refuse(SkipTo(L, Past(t, a, 2)), st) /\ s = Refuse(SkipTo(K, q + 2), st)
        /\ q + 2 \in 2 .. End(u)
    <3> HIDE DEF a, q
    <3> QED
      BY <1>2, <1>3, <1>4, <1>11
  <2>2. Past(u, q, 2) = q + 2
    BY <1>7, <2>1
  <2>3. Alike(Refuse(SkipTo(L, Past(t, a, 2)), st), Refuse(SkipTo(K, Past(u, q, 2)), st), u, D)
    BY <1>6
  <2> HIDE DEF a, q
  <2> QED
    BY <2>1, <2>2, <2>3
<1>12. CASE ~GoesOnWith(u, q)
  <2>1. r.token = "AUTOMATIC_SEMICOLON" /\ r.stack = st
        /\ s.token = "AUTOMATIC_SEMICOLON" /\ s.stack = st
    <3> HIDE DEF a, q
    <3> QED
      BY <1>2, <1>3, <1>4, <1>12
  <2> QED
    BY <2>1, EndedAlike
<1> QED
  BY <1>8, <1>9, <1>10, <1>11, <1>12, Zenon DEF GoesOnWith

(* The next symbol, and the way to it through line comments.               *)
LEMMA NextSymbolIs ==
    ASSUME NEW t \in Seq(STRING), NEW p \in 1 .. End(t)
    PROVE  /\ NextSymbol(t, p) \in p .. End(t)
           /\ Eof(t, NextSymbol(t, p)) \/ ~Blank(t, p, NextSymbol(t, p))
           /\ \A i \in p .. NextSymbol(t, p) - 1 : Blank(t, p, i)
<1> DEFINE C == {q \in p .. End(t) : Eof(t, q) \/ ~Blank(t, p, q)}
<1>0. Len(t) \in Nat /\ End(t) = Len(t) + 1
  BY TextLength
<1>1. C \in SUBSET Nat /\ End(t) \in C
  BY <1>0 DEF Eof
<1>2. PICK q \in C : \A y \in C : q <= y
  BY <1>1, LeastElement
<1>3. \A r \in p .. q - 1 : Blank(t, p, r)
  <2> TAKE r \in p .. q - 1
  <2>1. r \notin C /\ r \in p .. End(t)
    BY <1>0, <1>2
  <2> QED
    BY <2>1
<1>4. \E n \in p .. End(t) : /\ Eof(t, n) \/ ~Blank(t, p, n)
                             /\ \A i \in p .. n - 1 : Blank(t, p, i)
  BY <1>2, <1>3
<1> QED
  BY <1>4, Zenon DEF NextSymbol

LEMMA NextSymbolUnique ==
    ASSUME NEW t \in Seq(STRING), NEW p \in 1 .. End(t), NEW x \in p .. End(t),
           \A i \in p .. x - 1 : Blank(t, p, i)
    PROVE  /\ x <= NextSymbol(t, p)
           /\ Eof(t, x) \/ ~Blank(t, p, x) => NextSymbol(t, p) = x
<1> DEFINE n == NextSymbol(t, p)
<1>1. /\ n \in p .. End(t) /\ (Eof(t, n) \/ ~Blank(t, p, n))
      /\ \A i \in p .. n - 1 : Blank(t, p, i)
  BY NextSymbolIs
<1>2. Len(t) \in Nat /\ End(t) = Len(t) + 1
  BY TextLength
<1> HIDE DEF n
<1>3. p \in Nat /\ n \in Nat /\ x \in Nat /\ p <= x /\ p <= n /\ x <= End(t) /\ n <= End(t)
  BY <1>1, <1>2
<1>4. ~(n < x)
  <2> SUFFICES ASSUME n < x PROVE FALSE
    OBVIOUS
  <2>1. n \in p .. x - 1 /\ ~Eof(t, n)
    BY <1>2, <1>3 DEF Eof
  <2> QED
    BY <1>1, <2>1
<1>5. Eof(t, x) \/ ~Blank(t, p, x) => ~(x < n)
  <2> SUFFICES ASSUME Eof(t, x) \/ ~Blank(t, p, x), x < n PROVE FALSE
    OBVIOUS
  <2>1. x \in p .. n - 1 /\ ~Eof(t, x)
    BY <1>2, <1>3 DEF Eof
  <2> QED
    BY <1>1, <2>1
<1>6. x <= n /\ (Eof(t, x) \/ ~Blank(t, p, x) => n = x)
  BY <1>3, <1>4, <1>5
<1> QED
  BY <1>6 DEF n

LineComment(t, j) == t[j] = "/" /\ Look(t, j + 1) = "/"

(* A position where no line comment is open.                               *)
Boundary(t, p, x) ==
    /\ x \in p .. End(t)
    /\ Eof(t, x) \/ t[x] \notin Space
    /\ \A i \in p .. x - 1 : Blank(t, p, i)
    /\ \A j \in p .. x - 1 : LineComment(t, j) => \E k \in j .. x - 1 : t[k] \in LineEnd

LEMMA BoundaryIs ==
    ASSUME NEW t \in Seq(STRING), NEW p \in 1 .. End(t), NEW x, Boundary(t, p, x),
           Eof(t, x) \/ ~LineComment(t, x)
    PROVE  NextSymbol(t, p) = x
<1>1. Eof(t, x) \/ ~Blank(t, p, x)
  <2> SUFFICES ASSUME ~Eof(t, x), Blank(t, p, x) PROVE FALSE
    OBVIOUS
  <2>1. t[x] \notin Space /\ ~LineComment(t, x) /\ x \in p .. End(t)
    BY DEF Boundary
  <2>2. PICK j \in p .. x : LineComment(t, j) /\ \A k \in j .. x : t[k] \notin LineEnd
    BY <2>1 DEF Blank, LineComment
  <2>3. x \in Nat /\ p \in Nat /\ j \in Nat /\ j <= x
    BY <2>1, TextLength
  <2>4. CASE j = x
    BY <2>1, <2>2, <2>4
  <2>5. CASE j # x
    <3>1. j \in p .. x - 1
      BY <2>3, <2>5
    <3>2. PICK k \in j .. x - 1 : t[k] \in LineEnd
      BY <2>2, <3>1 DEF Boundary
    <3>3. k \in j .. x
      BY <2>3, <3>2
    <3> QED
      BY <2>2, <3>2, <3>3
  <2> QED
    BY <2>4, <2>5
<1> QED
  BY <1>1, NextSymbolUnique DEF Boundary

LEMMA BoundaryMoves ==
    ASSUME NEW t \in Seq(STRING), NEW p \in 1 .. End(t), NEW x, Boundary(t, p, x),
           ~Eof(t, x), LineComment(t, x),
           \A i \in p .. NextSymbol(t, p) - 1 : t[i] # "nul"
    PROVE  LET e == FirstIn(t, x + 2, {"lf", "cr", "nul"})
               y == FirstNot(t, e, Space)
           IN  /\ y \in x + 1 .. End(t)
               /\ ~Eof(t, e) => Boundary(t, p, y)
               /\ Eof(t, e) => y = e /\ NextSymbol(t, p) = e
<1> DEFINE e == FirstIn(t, x + 2, {"lf", "cr", "nul"})
           y == FirstNot(t, e, Space)
<1>0. Len(t) \in Nat /\ End(t) = Len(t) + 1 /\ End(t) \in Nat /\ p \in Nat
  BY TextLength
<1>1. x \in p .. End(t) /\ x \in Nat /\ p <= x /\ t[x] \notin Space
  BY <1>0 DEF Boundary
<1>2. x + 1 <= Len(t) /\ x + 2 \in 1 .. End(t)
  <2>1. Look(t, x + 1) # "nul"
    BY DEF LineComment
  <2>2. ~(x + 1 > Len(t))
    BY <2>1 DEF Look, Eof
  <2> QED
    BY <1>0, <1>1, <2>2
<1>3. t[x + 1] = "/" /\ t[x] = "/"
  BY <1>0, <1>1, <1>2 DEF LineComment, Look, Eof
<1>4. /\ e \in x + 2 .. End(t) /\ (Eof(t, e) \/ t[e] \in {"lf", "cr", "nul"})
      /\ \A r \in x + 2 .. e - 1 : t[r] \notin {"lf", "cr", "nul"}
  BY <1>2, FirstInIs
<1> SUFFICES /\ y \in x + 1 .. End(t)
             /\ ~Eof(t, e) => Boundary(t, p, y)
             /\ Eof(t, e) => y = e /\ NextSymbol(t, p) = e
  OBVIOUS
<1> HIDE DEF e
<1>5. e \in Nat /\ x + 2 <= e /\ e <= End(t) /\ e \in 1 .. End(t) /\ e \in p .. End(t)
  BY <1>0, <1>1, <1>4
<1>6. \A r \in x .. e - 1 : t[r] \notin LineEnd
  <2> TAKE r \in x .. e - 1
  <2>1. r = x \/ r = x + 1 \/ r \in x + 2 .. e - 1
    BY <1>1, <1>5
  <2> QED
    BY <1>3, <1>4, <2>1 DEF LineEnd
<1>7. \A i \in p .. e - 1 : Blank(t, p, i)
  <2> TAKE i \in p .. e - 1
  <2>1. CASE i < x
    <3>1. i \in p .. x - 1
      BY <1>1, <1>5, <2>1
    <3> QED
      BY <3>1 DEF Boundary
  <2>2. CASE ~(i < x)
    <3>1. x \in p .. i /\ \A k \in x .. i : t[k] \notin LineEnd
      BY <1>1, <1>5, <1>6, <2>2
    <3> QED
      BY <3>1 DEF Blank, LineComment
  <2> QED
    BY <2>1, <2>2
<1>8. /\ y \in e .. End(t) /\ (Eof(t, y) \/ t[y] \notin Space)
      /\ \A r \in e .. y - 1 : t[r] \in Space
  BY <1>5, FirstNotIs
<1> HIDE DEF y
<1>9. y \in Nat /\ e <= y /\ y <= End(t) /\ y \in x + 1 .. End(t) /\ y \in p .. End(t)
  BY <1>0, <1>1, <1>5, <1>8
<1>10. ASSUME Eof(t, e) PROVE y = e /\ NextSymbol(t, p) = e
  <2>1. y = e
    BY <1>0, <1>5, <1>9, <1>10 DEF Eof
  <2> QED
    BY <1>5, <1>7, <1>10, <2>1, NextSymbolUnique
<1>11. ASSUME ~Eof(t, e) PROVE Boundary(t, p, y)
  <2>1. t[e] # "nul"
    <3> SUFFICES ASSUME t[e] = "nul" PROVE FALSE
      OBVIOUS
    <3>1. \A k \in x .. e : t[k] \notin LineEnd
      <4> TAKE k \in x .. e
      <4>1. k = e \/ k \in x .. e - 1
        BY <1>1, <1>5
      <4> QED
        BY <1>6, <4>1 DEF LineEnd
    <3>2. Blank(t, p, e)
      <4>1. x \in p .. e
        BY <1>1, <1>5
      <4> QED
        BY <3>1, <4>1 DEF Blank, LineComment
    <3>3. e + 1 \in p .. End(t) /\ \A i \in p .. (e + 1) - 1 : Blank(t, p, i)
      <4>1. \A i \in p .. (e + 1) - 1 : i = e \/ i \in p .. e - 1
        BY <1>0, <1>5
      <4>2. e + 1 \in p .. End(t)
        BY <1>0, <1>5, <1>11 DEF Eof
      <4> QED
        BY <1>7, <3>2, <4>1, <4>2
    <3>4. e + 1 <= NextSymbol(t, p)
      <4> DEFINE z == e + 1
      <4>1. z \in p .. End(t) /\ \A i \in p .. z - 1 : Blank(t, p, i)
        BY <3>3
      <4> HIDE DEF z
      <4>2. z <= NextSymbol(t, p)
        BY <4>1, NextSymbolUnique
      <4> QED
        BY <4>2 DEF z
    <3>5. NextSymbol(t, p) \in p .. End(t)
      BY NextSymbolIs
    <3>6. e \in p .. NextSymbol(t, p) - 1
      BY <1>0, <1>5, <3>4, <3>5
    <3> QED
      BY <3>6
  <2>2. t[e] \in LineEnd /\ t[e] \in Space
    BY <1>4, <1>11, <2>1 DEF LineEnd, Space
  <2>3. e < y
    <3>1. e # y
      BY <1>8, <1>11, <2>2
    <3> QED
      BY <1>5, <1>9, <3>1
  <2>4. \A i \in p .. y - 1 : Blank(t, p, i)
    <3> TAKE i \in p .. y - 1
    <3>1. i \in p .. e - 1 \/ i \in e .. y - 1
      BY <1>0, <1>5, <1>9
    <3> QED
      BY <1>7, <1>8, <3>1 DEF Blank
  <2>5. ASSUME NEW j \in p .. y - 1, LineComment(t, j)
        PROVE  \E k \in j .. y - 1 : t[k] \in LineEnd
    <3>1. CASE j < x
      <4>1. j \in p .. x - 1
        BY <1>0, <1>1, <3>1
      <4>2. PICK k \in j .. x - 1 : t[k] \in LineEnd
        BY <2>5, <4>1 DEF Boundary
      <4>3. k \in j .. y - 1
        BY <1>0, <1>1, <1>9, <4>2
      <4> QED
        BY <4>2, <4>3
    <3>2. CASE ~(j < x) /\ j <= e
      <4>1. e \in j .. y - 1
        BY <1>0, <1>5, <1>9, <2>3, <3>2
      <4> QED
        BY <2>2, <4>1
    <3>3. CASE e < j
      <4>1. j \in e .. y - 1
        BY <1>0, <1>5, <1>9, <3>3
      <4>2. t[j] \in Space
        BY <1>8, <4>1
      <4> QED
        BY <2>5, <4>2 DEF LineComment, Space
    <3> QED
      BY <1>0, <1>1, <1>5, <3>1, <3>2, <3>3
  <2> QED
    BY <1>8, <1>9, <2>4, <2>5 DEF Boundary
<1> QED
  BY <1>9, <1>10, <1>11

(* The reading behind a line comment gets to the next symbol.              *)
LEMMA CommentsLeadOn ==
    ASSUME NEW t \in Seq(STRING), NEW p \in 1 .. End(t),
           LET n == NextSymbol(t, p)
           IN  /\ Look(t, n) = "/" => Look(t, n + 1) # "*"
               /\ \A i \in p .. n - 1 : t[i] # "nul",
           NEW x0, Boundary(t, p, x0)
    PROVE  PastComments(t, x0) = NextSymbol(t, p)
<1> DEFINE n == NextSymbol(t, p)
           A == {x \in Nat : Boundary(t, p, x)}
           rank == Room(t)
           T == {x \in A : PastComments(t, x) = n}
<1>1. PICK f : IsPast(f, t) /\ \A q : PastComments(t, q) = f[q]
  BY PastUnfolds
<1>2. \A q \in Nat : f[q] = IF Look(t, q) = "/" /\ Look(t, q + 1) \in {"/", "*"}
                              THEN f[FirstNot(t, BehindComment(t, q), Space)] ELSE q
  BY <1>1 DEF IsPast
<1>3. Len(t) \in Nat /\ End(t) = Len(t) + 1 /\ End(t) \in Nat /\ p \in Nat
  BY TextLength
<1>4. \A x \in A : rank[x] \in Nat
  BY <1>3, RoomIs
<1>5. ASSUME NEW x \in A, \A y \in A : rank[y] < rank[x] => y \in T
      PROVE  x \in T
  <2>0. x \in Nat /\ Boundary(t, p, x)
    OBVIOUS
  <2>1. CASE Eof(t, x) \/ ~LineComment(t, x)
    <3>1. n = x
      BY <2>0, <2>1, BoundaryIs
    <3>2. ~(Look(t, x) = "/" /\ Look(t, x + 1) \in {"/", "*"})
      <4>1. Look(t, x) = "/" => ~Eof(t, x) /\ t[x] = "/"
        BY DEF Look
      <4>2. Look(t, x) = "/" => Look(t, x + 1) # "*"
        BY <3>1
      <4> QED
        BY <2>1, <4>1, <4>2 DEF LineComment
    <3>3. f[x] = x
      BY <1>2, <2>0, <3>2
    <3> QED
      BY <1>1, <3>1, <3>3
  <2>2. CASE ~Eof(t, x) /\ LineComment(t, x)
    <3> DEFINE e == FirstIn(t, x + 2, {"lf", "cr", "nul"})
               y == FirstNot(t, e, Space)
    <3>1. /\ y \in x + 1 .. End(t)
          /\ ~Eof(t, e) => Boundary(t, p, y)
          /\ Eof(t, e) => y = e /\ n = e
      BY <2>0, <2>2, BoundaryMoves
    <3>2. f[x] = f[y]
      <4>1. Look(t, x) = "/" /\ Look(t, x + 1) = "/"
        BY <2>2 DEF LineComment, Look
      <4>2. BehindComment(t, x) = e
        BY <4>1 DEF BehindComment
      <4> HIDE DEF e
      <4> QED
        BY <1>2, <2>0, <4>1, <4>2
    <3> HIDE DEF e, y, n, rank
    <3>3. x <= Len(t) /\ y \in Nat /\ x < y
      BY <1>3, <2>0, <2>2, <3>1 DEF Eof
    <3>4. CASE Eof(t, e)
      <4>1. Look(t, y) = "nul"
        BY <3>1, <3>4 DEF Look
      <4>2. f[y] = y
        BY <1>2, <3>3, <4>1
      <4> QED
        BY <1>1, <3>1, <3>2, <3>4, <4>2
    <3>5. CASE ~Eof(t, e)
      <4>1. y \in A
        BY <3>1, <3>3, <3>5
      <4>2. rank[y] < rank[x]
        BY <2>0, <3>3, RoomIs DEF rank
      <4>3. PastComments(t, y) = n
        BY <1>5, <4>1, <4>2
      <4> QED
        BY <1>1, <3>2, <4>3
    <3> QED
      BY <3>4, <3>5
  <2> QED
    BY <2>1, <2>2
<1>6. \A x \in A : x \in T
  <2> HIDE DEF A, rank, T
  <2> QED
    BY <1>4, <1>5, RankInduction
<1>7. x0 \in A
  BY <1>3 DEF Boundary
<1> QED
  BY <1>6, <1>7

(* A text from its next symbol on, behind the line end in front of it.     *)
Bare(t, p) ==
    <<t[FirstNot(t, p, {"sp"})]>> \o SubSeq(t, NextSymbol(t, p), Len(t))

LEMMA BareIs ==
    ASSUME NEW t \in Seq(STRING), NEW p \in 1 .. End(t), 2 <= NextSymbol(t, p),
           ~Eof(t, FirstNot(t, p, {"sp"}))
    PROVE  /\ Twins(t, Bare(t, p), NextSymbol(t, p) - 2)
           /\ Bare(t, p)[1] = t[FirstNot(t, p, {"sp"})]
<1> DEFINE n == NextSymbol(t, p)
           s == SubSeq(t, n, Len(t))
           c == t[FirstNot(t, p, {"sp"})]
           u == <<c>> \o s
           D == n - 2
<1>1. n \in p .. End(t) /\ p \in Nat /\ Len(t) \in Nat /\ End(t) = Len(t) + 1
  BY NextSymbolIs, TextLength
<1>2. 2 <= n
  OBVIOUS
<1> HIDE DEF n
<1>3. n \in Nat /\ n \in 1 .. Len(t) + 1 /\ D \in Nat
  BY <1>1, <1>2
<1>4. /\ s \in Seq(STRING) /\ Len(s) = (Len(t) - n) + 1
      /\ \A i \in 1 .. (Len(t) - n) + 1 : s[i] = t[(n + i) - 1]
  BY <1>1, <1>3, SubSeqProperties
<1>5. c \in STRING
  <2>1. FirstNot(t, p, {"sp"}) \in 1 .. Len(t)
    BY <1>1, FirstNotIs DEF Eof
  <2> QED
    BY <2>1
<1> HIDE DEF c
<1>11. <<c>> \in Seq(STRING) /\ Len(<<c>>) = 1 /\ <<c>>[1] = c
  BY <1>5
<1> HIDE DEF s
<1>6. /\ u \in Seq(STRING) /\ Len(u) = 1 + Len(s)
      /\ \A i \in 1 .. Len(u) : u[i] = IF i <= 1 THEN <<c>>[i] ELSE s[i - 1]
  BY <1>4, <1>11, ConcatProperties
<1> HIDE DEF u
<1>7. Len(u) >= 1 /\ Len(t) = Len(u) + D /\ Len(u) \in Nat
  BY <1>1, <1>3, <1>4, <1>6
<1>8. \A i \in 2 .. Len(u) : t[i + D] = u[i]
  <2> TAKE i \in 2 .. Len(u)
  <2>1. i \in 1 .. Len(u) /\ ~(i <= 1) /\ i - 1 \in 1 .. (Len(t) - n) + 1
        /\ (n + (i - 1)) - 1 = i + D
    BY <1>1, <1>3, <1>4, <1>6, <1>7
  <2>2. u[i] = s[i - 1] /\ s[i - 1] = t[(n + (i - 1)) - 1]
    BY <1>4, <1>6, <2>1
  <2> QED
    BY <2>1, <2>2
<1>9. Twins(t, u, D)
  BY <1>3, <1>6, <1>7, <1>8 DEF Twins
<1>10. u[1] = c
  BY <1>6, <1>7, <1>11
<1> QED
  BY <1>9, <1>10 DEF Bare, n, s, u, c

(* The semicolon scan at a line end.                                       *)
LEMMA AtLineEnd ==
    ASSUME NEW t, NEW p, NEW st, NEW V, "AUTOMATIC_SEMICOLON" \in V,
           Look(t, FirstNot(t, p, {"sp"})) \in LineEnd
    PROVE  LET M == SkipTo(Mark(Lexer(p)), FirstNot(t, p, {"sp"}))
           IN  /\ {"at", "from", "to"} \subseteq DOMAIN M
               /\ M.at = FirstNot(t, p, {"sp"})
               /\ SemicolonScan(t, p, st, V) = AfterLineEnd(t, SkipSpace(t, M), st, V)
<1> DEFINE q == FirstNot(t, p, {"sp"})
           N == Mark(Lexer(p))
           M == SkipTo(N, q)
<1>1. {"at", "from", "to"} \subseteq DOMAIN N
  BY DEF Mark, Lexer
<1>2. {"at", "from", "to"} \subseteq DOMAIN M /\ M.at = q
  <2> HIDE DEF N, q
  <2> QED
    BY <1>1, LexerAt
<1>3. Look(t, q) # "nul" /\ Look(t, q) # ";" /\ ~Eof(t, q)
  BY DEF LineEnd, Look
<1>4. scan_automatic_semicolon(t, Lexer(p), st, V) = AfterLineEnd(t, SkipSpace(t, M), st, V)
  <2>1. Lexer(p).at = p
    BY DEF Lexer
  <2>2. Look(t, q) \in LineEnd /\ Look(t, q) # "i"
    BY DEF LineEnd
  <2> QED
    BY <1>3, <2>1, <2>2, Zenon DEF scan_automatic_semicolon
<1>5. SemicolonScan(t, p, st, V) = scan_automatic_semicolon(t, Lexer(p), st, V)
  <2>1. Refuse(Lexer(p), st).token = NoToken
    BY DEF Refuse
  <2> QED
    BY <2>1, Zenon DEF SemicolonScan, Then
<1> QED
  BY <1>2, <1>4, <1>5

(* What a scan behind a line end finds does not depend on the line         *)
(* comments in front of the next symbol.                                   *)
LEMMA CommentsDoNotCount ==
    ASSUME NEW t \in Seq(STRING), NEW p \in 1 .. End(t), NEW st, NEW V,
           "AUTOMATIC_SEMICOLON" \in V, ~InClassHeader(V),
           Look(t, FirstNot(t, p, {"sp"})) \in LineEnd,
           Look(t, NextSymbol(t, p)) = "/" => Look(t, NextSymbol(t, p) + 1) # "*",
           \A i \in p .. NextSymbol(t, p) - 1 : t[i] # "nul"
    PROVE  scan(t, p, st, V).token = scan(Bare(t, p), 1, st, V).token
<1> DEFINE n == NextSymbol(t, p)
           q == FirstNot(t, p, {"sp"})
           M == SkipTo(Mark(Lexer(p)), q)
           x == FirstNot(t, q, Space)
           L == SkipSpace(t, M)
           u == Bare(t, p)
           D == n - 2
           N == SkipTo(Mark(Lexer(1)), 1)
           K == SkipSpace(u, N)
<1>1. Len(t) \in Nat /\ End(t) = Len(t) + 1 /\ End(t) \in Nat /\ p \in Nat /\ 1 <= p
  BY TextLength
<1>2. q \in p .. End(t) /\ \A i \in p .. q - 1 : t[i] \in {"sp"}
  BY FirstNotIs
<1>3. ~Eof(t, q) /\ t[q] \in LineEnd /\ t[q] \in Space
  <2>1. Look(t, q) \in LineEnd
    OBVIOUS
  <2> HIDE DEF q
  <2> QED
    BY <2>1 DEF Look, LineEnd, Space
<1>4. /\ x \in q .. End(t) /\ (Eof(t, x) \/ t[x] \notin Space)
      /\ \A i \in q .. x - 1 : t[i] \in Space
  <2>1. q \in 1 .. End(t)
    BY <1>1, <1>2
  <2> HIDE DEF q
  <2> QED
    BY <2>1, FirstNotIs
<1>5. /\ {"at", "from", "to"} \subseteq DOMAIN M /\ M.at = q
      /\ SemicolonScan(t, p, st, V) = AfterLineEnd(t, L, st, V)
  BY AtLineEnd
<1>6. {"at", "from", "to"} \subseteq DOMAIN L /\ L.at = x
  <2> HIDE DEF M, q
  <2>1. /\ SkipTo(M, FirstNot(t, M.at, Space)).at = FirstNot(t, M.at, Space)
        /\ {"at", "from", "to"} \subseteq DOMAIN SkipTo(M, FirstNot(t, M.at, Space))
    BY <1>5, LexerAt
  <2> QED
    BY <1>5, <2>1 DEF SkipSpace
<1> HIDE DEF L, M, x, q
<1>7. q \in Nat /\ x \in Nat /\ q < x /\ 2 <= x /\ x \in p .. End(t)
  <2>1. q # x
    BY <1>3, <1>4
  <2> QED
    BY <1>1, <1>2, <1>4, <2>1
<1>8. Boundary(t, p, x)
  <2>1. \A i \in p .. x - 1 : t[i] \in Space
    <3> TAKE i \in p .. x - 1
    <3>1. i \in p .. q - 1 \/ i \in q .. x - 1
      BY <1>1, <1>7
    <3> QED
      BY <1>2, <1>4, <3>1 DEF Space
  <2>2. \A i \in p .. x - 1 : Blank(t, p, i) /\ ~LineComment(t, i)
    BY <2>1 DEF Blank, LineComment, Space
  <2> QED
    BY <1>4, <1>7, <2>2 DEF Boundary
<1>9. PastComments(t, x) = n
  BY <1>8, CommentsLeadOn
<1>10. /\ n \in p .. End(t) /\ (Eof(t, n) \/ ~Blank(t, p, n))
       /\ n \in Nat /\ x <= n /\ 2 <= n
  <2>1. n \in p .. End(t) /\ (Eof(t, n) \/ ~Blank(t, p, n))
    BY NextSymbolIs
  <2>2. x <= n
    BY <1>7, <1>8, NextSymbolUnique DEF Boundary
  <2> HIDE DEF n
  <2> QED
    BY <1>1, <1>7, <2>1, <2>2
<1>11. /\ Twins(t, u, D)
       /\ u[1] \in LineEnd /\ u[1] \in Space /\ u[1] # "sp"
  <2>1. Twins(t, u, D) /\ u[1] = t[q]
    BY <1>3, <1>10, BareIs DEF q
  <2> QED
    BY <1>3, <2>1 DEF LineEnd
<1>12. /\ Look(t, n) = "/" => Look(t, n + 1) \notin {"/", "*"}
       /\ Eof(t, n) \/ t[n] \notin Space
  <2>1. Look(t, n) = "/" => Look(t, n + 1) # "*"
    OBVIOUS
  <2> HIDE DEF n
  <2>2. Look(t, n) = "/" => Look(t, n + 1) # "/"
    <3> SUFFICES ASSUME Look(t, n) = "/", Look(t, n + 1) = "/" PROVE FALSE
      OBVIOUS
    <3>1. ~Eof(t, n) /\ t[n] = "/"
      BY DEF Look
    <3>2. n \in p .. n /\ \A k \in n .. n : t[k] \notin LineEnd
      BY <1>1, <1>10, <3>1 DEF LineEnd
    <3>3. Blank(t, p, n)
      BY <3>1, <3>2 DEF Blank
    <3> QED
      BY <1>10, <3>1, <3>3
  <2>3. Eof(t, n) \/ t[n] \notin Space
    BY <1>10 DEF Blank
  <2> QED
    BY <2>1, <2>2, <2>3
<1> HIDE DEF u, n
<1>13. /\ u \in Seq(STRING) /\ Len(u) \in Nat /\ End(u) = Len(u) + 1 /\ 2 <= End(u)
       /\ D \in Nat /\ 1 \in 1 .. End(u) /\ 2 \in 2 .. End(u) /\ 2 + D = n
       /\ 1 <= Len(u)
  BY <1>10, <1>11, TwinTexts
<1>14. /\ Look(u, 2) = Look(t, n) /\ Look(u, 3) = Look(t, n + 1)
       /\ Eof(u, 2) \/ u[2] \notin Space
  <2>1. 2 \in Nat /\ 3 \in Nat /\ 2 + D = n /\ 3 + D = n + 1 /\ 2 <= 2 /\ 2 <= 3
    BY <1>13
  <2> HIDE DEF D
  <2>2. /\ Look(t, 2 + D) = Look(u, 2) /\ (Eof(t, 2 + D) <=> Eof(u, 2))
        /\ 2 <= Len(u) => t[2 + D] = u[2]
    BY <1>11, <2>1, TwinLook
  <2>3. Look(t, 3 + D) = Look(u, 3)
    BY <1>11, <2>1, TwinLook
  <2>4. ~Eof(u, 2) => 2 <= Len(u)
    BY <1>13 DEF Eof
  <2> QED
    BY <1>12, <2>1, <2>2, <2>3, <2>4
<1>15. FirstNot(u, 1, {"sp"}) = 1
  <2>1. \A r \in 1 .. 1 - 1 : u[r] \in {"sp"}
    OBVIOUS
  <2>2. 1 \in 1 .. End(u) /\ u[1] \notin {"sp"}
    BY <1>11, <1>13
  <2> QED
    BY <1>13, <2>1, <2>2, FirstNotUnique
<1>16. FirstNot(u, 1, Space) = 2
  <2>1. \A r \in 1 .. 2 - 1 : u[r] \in Space
    BY <1>11 DEF Space
  <2>2. 2 \in 1 .. End(u)
    BY <1>13
  <2> QED
    BY <1>13, <1>14, <2>1, <2>2, FirstNotUnique
<1>17. /\ {"at", "from", "to"} \subseteq DOMAIN N /\ N.at = 1
       /\ SemicolonScan(u, 1, st, V) = AfterLineEnd(u, K, st, V)
  <2>1. Look(u, FirstNot(u, 1, {"sp"})) \in LineEnd
    BY <1>11, <1>13, <1>15 DEF Look, Eof, LineEnd
  <2>2. LET m == SkipTo(Mark(Lexer(1)), FirstNot(u, 1, {"sp"}))
        IN  /\ {"at", "from", "to"} \subseteq DOMAIN m
            /\ m.at = FirstNot(u, 1, {"sp"})
            /\ SemicolonScan(u, 1, st, V) = AfterLineEnd(u, SkipSpace(u, m), st, V)
    BY <2>1, AtLineEnd
  <2> QED
    BY <1>15, <2>2
<1>18. {"at", "from", "to"} \subseteq DOMAIN K /\ K.at = 2
  <2> HIDE DEF N
  <2>1. /\ SkipTo(N, FirstNot(u, N.at, Space)).at = FirstNot(u, N.at, Space)
        /\ {"at", "from", "to"} \subseteq DOMAIN SkipTo(N, FirstNot(u, N.at, Space))
    BY <1>17, LexerAt
  <2> QED
    BY <1>16, <1>17, <2>1 DEF SkipSpace
<1> HIDE DEF K, N
<1>19. Look(u, K.at) = "/" => Look(u, K.at + 1) \notin {"/", "*"}
  <2>1. K.at + 1 = 3
    BY <1>18
  <2> QED
    BY <1>12, <1>14, <1>18, <2>1
<1> DEFINE r == AfterLineEnd(t, L, st, V)
           s == AfterLineEnd(u, K, st, V)
<1>20. Alike(r, s, u, D)
  <2>1. CASE ~Eof(t, x) /\ LineComment(t, x)
    <3>1. Look(t, L.at) = "/" /\ Look(t, L.at + 1) = "/"
      BY <1>6, <2>1 DEF LineComment, Look
    <3>2. AfterLineEnd(t, L, st, V) = AfterLineComment(t, L, st)
      <4>1. "/" \notin Continuation /\ ~NotEqual(t, L.at)
        BY <3>1 DEF Continuation, NotEqual
      <4>2. Look(t, L.at) \notin {"i", "p", "@", "c", ";"} /\ Look(t, L.at) \notin DOMAIN Rest
        BY <3>1 DEF Rest
      <4>3. ~Continues(t, L.at, DOMAIN Rest)
        BY <4>2 DEF Continues
      <4> QED
        BY <3>1, <4>1, <4>2, <4>3 DEF AfterLineEnd
    <3>3. PastComments(t, L.at) = K.at + D
      BY <1>6, <1>9, <1>13, <1>18
    <3>4. K.at \in 2 .. End(u)
      BY <1>13, <1>18
    <3> HIDE DEF D
    <3>5. Alike(AfterLineComment(t, L, st), AfterLineEnd(u, K, st, V), u, D)
      BY <1>6, <1>11, <1>18, <1>19, <3>3, <3>4, TwinBehindComments
    <3> QED
      BY <3>2, <3>5
  <2>2. CASE Eof(t, x) \/ ~LineComment(t, x)
    <3>1. n = x
      BY <1>8, <2>2, BoundaryIs DEF n
    <3>2. K.at \in 2 .. End(u) /\ L.at = K.at + D
      BY <1>6, <1>13, <1>18, <3>1
    <3>3. TwinLexers(L, K, u, D)
      BY <1>6, <1>18, <3>2 DEF TwinLexers
    <3> HIDE DEF D
    <3> QED
      BY <1>11, <1>19, <3>3, TwinLineEnd
  <2> QED
    BY <2>1, <2>2
<1>21. /\ scan(t, p, st, V) = AfterSemicolon(t, r, V)
       /\ scan(u, 1, st, V) = AfterSemicolon(u, s, V)
  <2> HIDE DEF r, s
  <2>1. SemicolonScan(t, p, st, V) = r /\ SemicolonScan(u, 1, st, V) = s
    BY <1>5, <1>17 DEF r, s
  <2> QED
    BY <2>1, Zenon DEF scan
<1> HIDE DEF r, s, D
<1>22. Alike(AfterSemicolon(t, r, V), AfterSemicolon(u, s, V), u, D)
  BY <1>11, <1>20, TwinScans
<1>23. scan(t, p, st, V).token = scan(u, 1, st, V).token
  BY <1>21, <1>22, Zenon DEF Alike
<1> QED
  BY <1>23 DEF u

(* For every text, every row asked for and every state of a version: where *)
(* a scan starts in front of a line end, the line comments in front of the *)
(* next symbol make no difference to the token it finds, whichever of the  *)
(* scans finds it.  (scan_automatic_semicolon)                             *)
THEOREM LineCommentsAreTransparent == Spec => []LineCommentTransparent
<1>1. ParseInv => LineCommentTransparent
  <2> SUFFICES ASSUME ParseInv, NEW v \in alive, NEW V \in RowsOf(head[v]),
                      "AUTOMATIC_SEMICOLON" \in V, ~InClassHeader(V),
                      Look(text, FirstNot(text, head[v].at, {"sp"})) \in LineEnd,
                      LET n == NextSymbol(text, head[v].at)
                      IN  /\ Look(text, n) = "/" => Look(text, n + 1) # "*"
                          /\ \A i \in head[v].at .. n - 1 : text[i] # "nul"
               PROVE  Found(v, V).token =
                        scan(Bare(text, head[v].at), 1, Loaded(v).contents, V).token
    BY DEF LineCommentTransparent, Bare
  <2>1. text \in Seq(STRING) /\ head[v].at \in 1 .. End(text)
    BY TextIs DEF ParseInv, StackInv
  <2> DEFINE p == head[v].at
             st == Loaded(v).contents
  <2>2. scan(text, p, st, V).token = scan(Bare(text, p), 1, st, V).token
    <3> HIDE DEF st
    <3> QED
      BY <2>1, CommentsDoNotCount
  <2> QED
    BY <2>2 DEF Found
<1> QED
  BY <1>1, ParseInvariant, PTL
=============================================================================
