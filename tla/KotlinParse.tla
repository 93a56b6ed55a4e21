------------------------------ MODULE KotlinParse ------------------------------
(***************************************************************************)
(* A parse of one Kotlin text: the tree-sitter runtime calls the external  *)
(* scanner, and keeps between two calls what the scanner serialised.       *)
(*                                                                         *)
(* The runtime follows several versions of the parse where the grammar is  *)
(* ambiguous or the text is wrong.  They share one scanner, whose stack of *)
(* string delimiters is the payload: before each scan it is deserialised   *)
(* from the version's own state, after a token it is serialised to it.     *)
(*                                                                         *)
(* The tables of parser.c are reduced to the rows that are valid in a      *)
(* literal and in code; any of them may be asked for.  What the runtime    *)
(* does is external, and its lexer is described in KotlinScanner.          *)
(***************************************************************************)
EXTENDS KotlinScanner

CONSTANTS
    Versions,
    Texts,          \* the texts that are parsed
    Ambiguous,      \* bound: those of which several versions are followed
    Rows            \* the rows of external_scanner_states that are asked for

ASSUME ParseAssumption ==
    /\ Texts \subseteq Seq(STRING)
    /\ Rows \subseteq external_scanner_states

VARIABLES
    text,           \* what is parsed
    alive,          \* the versions there are
    head,           \* where each is
    payload,        \* the Stack of the scanner
    aborted         \* stack_push or stack_pop called abort

vars == <<text, alive, head, payload, aborted>>

(* state: the bytes serialised with the last token.  open: the delimiters  *)
(* of the literals that the version's own tokens have opened; begun: where *)
(* the content of each begins.  code: how many of them were open at each   *)
(* interpolation the version is in.                                        *)
Start == [at |-> 1, state |-> <<>>, open |-> <<>>, begun |-> <<>>, code |-> <<>>]

Init ==
    /\ text \in Texts
    /\ \E v \in Versions : alive = {v}
    /\ head = [v \in Versions |-> Start]
    /\ payload = [contents |-> <<>>, capacity |-> 0]
    /\ aborted = FALSE

-----------------------------------------------------------------------------
(* array.h, and the scanner's serialize and deserialize.                   *)
array_reserve(a, n) == [a EXCEPT !.capacity = IF n > @ THEN n ELSE @]

Larger(a, b) == IF a < b THEN b ELSE a

(* Mutant: an array that is full is not grown.                             *)
GrowLate(a, n) ==
    IF Len(a.contents) > a.capacity
      THEN array_reserve(a, Larger(Larger(2 * a.capacity, 8), Len(a.contents) + n))
      ELSE a

array_grow(a, n) ==
    IF Len(a.contents) + n > a.capacity
      THEN array_reserve(a, Larger(Larger(2 * a.capacity, 8), Len(a.contents) + n))
      ELSE a

(* The stack st that a scan leaves, one longer after a push, one shorter   *)
(* after a pop.                                                            *)
Written(a, st) ==
    [(IF Len(st) > Len(a.contents) THEN array_grow(a, 1) ELSE a)
       EXCEPT !.contents = st]

serialize(a) == a.contents

(* Mutant: nothing to copy, nothing to do.                                 *)
KeepStack(a, buffer) ==
    IF buffer = <<>> THEN a
    ELSE [array_reserve(a, Len(buffer)) EXCEPT !.contents = buffer]

deserialize(a, buffer) ==
    IF buffer = <<>>
      THEN [a EXCEPT !.contents = <<>>]
      ELSE [array_reserve(a, Len(buffer)) EXCEPT !.contents = buffer]

-----------------------------------------------------------------------------
(* The token that a scan for the row V from the version's position finds.  *)
(* The runtime marks the end if the scanner did not, and moves a start     *)
(* behind the end to the end.                                              *)
Extent(r) ==
    LET to == IF r.lexer.to = Nowhere THEN r.lexer.at ELSE r.lexer.to
    IN  [from |-> IF r.lexer.from > to THEN to ELSE r.lexer.from, to |-> to]

InLiteral(h) ==
    /\ h.open # <<>>
    /\ h.code = <<>> \/ h.code[Len(h.code)] < Len(h.open)

RowsOf(h) ==
    {V \in Rows : IF InLiteral(h) THEN "STRING_CONTENT" \in V ELSE V # InString}

Loaded(v) == deserialize(payload, head[v].state)

Found(v, V) == scan(text, head[v].at, Loaded(v).contents, V)

(* The delimiter a token of a literal's start ends with.                   *)
DelimiterOf(t, x) ==
    IF x.to - x.from >= 3 /\ \A i \in 1 .. 3 : t[x.to - i] = "dq"
      THEN "triple" ELSE "single"

Reached(h, r, written) ==
    LET x == Extent(r)
        n == Len(h.open) - 1
        Now(open, begun) == [at |-> x.to, state |-> serialize(written),
                             open |-> open, begun |-> begun, code |-> h.code]
    IN  CASE r.token = "STRING_START" ->
               Now(Append(h.open, DelimiterOf(text, x)), Append(h.begun, x.to))
          [] r.token = "STRING_END" /\ h.open # <<>> ->
               Now(SubSeq(h.open, 1, n), SubSeq(h.begun, 1, n))
          [] OTHER -> Now(h.open, h.begun)

(* The runtime lexes with the external scanner, and it finds a token.      *)
LexExternal(v, V) ==
    /\ v \in alive /\ ~aborted /\ V \in RowsOf(head[v])
    /\ \E r \in {Found(v, V)} :
          /\ r.token \notin {NoToken, "abort"}
          /\ payload' = Written(Loaded(v), r.stack)
          /\ head' = [head EXCEPT ![v] = Reached(@, r, payload')]
    /\ UNCHANGED <<text, alive, aborted>>

(* The stack is full: the process ends, and the JVM with it.               *)
LexAborts(v, V) ==
    /\ v \in alive /\ ~aborted /\ V \in RowsOf(head[v])
    /\ Found(v, V).token = "abort"
    /\ payload' = Loaded(v)
    /\ aborted' = TRUE
    /\ UNCHANGED <<text, alive, head>>

(* The internal lexer, where the scanner finds nothing.  In a literal it   *)
(* knows interpolations only: elsewhere the version is left to recovery.   *)
(* In code it reads a line comment, the end of an interpolation or one     *)
(* symbol.                                                                 *)
Interpolation(h) ==
    Look(text, h.at) = "$" /\ Look(text, h.at + 1) \in Letters \cup {"{"}

Internal(h) ==
    LET p == h.at
    IN  CASE InLiteral(h) /\ Look(text, p + 1) = "{" ->
               [h EXCEPT !.at = p + 2, !.code = Append(@, Len(h.open))]
          [] InLiteral(h) /\ Look(text, p + 1) # "{" ->
               [h EXCEPT !.at = FirstNot(text, p + 1, WordChar)]
          [] ~InLiteral(h) /\ Look(text, p) = "}" /\ h.code # <<>> ->
               [h EXCEPT !.at = p + 1, !.code = SubSeq(@, 1, Len(@) - 1)]
          [] ~InLiteral(h) /\ Look(text, p) = "/" /\ Look(text, p + 1) = "/" ->
               [h EXCEPT !.at = FirstIn(text, p, LineEnd \cup {"nul"})]
          [] OTHER -> [h EXCEPT !.at = p + 1]

LexInternal(v, V) ==
    /\ v \in alive /\ ~aborted /\ V \in RowsOf(head[v])
    /\ ~Eof(text, head[v].at)
    /\ InLiteral(head[v]) => Interpolation(head[v])
    /\ Found(v, V).token = NoToken
    /\ payload' = Loaded(v)
    /\ head' = [head EXCEPT ![v] = Internal(@)]
    /\ UNCHANGED <<text, alive, aborted>>

(* The runtime splits a version in two, or gives one up.                   *)
Fork(v, w) ==
    /\ text \in Ambiguous
    /\ ~aborted /\ v \in alive /\ w \in Versions \ alive
    /\ alive' = alive \cup {w}
    /\ head' = [head EXCEPT ![w] = head[v]]
    /\ UNCHANGED <<text, payload, aborted>>

GiveUp(v) ==
    /\ ~aborted /\ v \in alive /\ alive # {v}
    /\ alive' = alive \ {v}
    /\ head' = [head EXCEPT ![v] = Start]
    /\ UNCHANGED <<text, payload, aborted>>

Next ==
    \/ \E v \in Versions, V \in Rows :
         LexExternal(v, V) \/ LexAborts(v, V) \/ LexInternal(v, V)
    \/ \E v, w \in Versions : Fork(v, w)
    \/ \E v \in Versions : GiveUp(v)

Spec == Init /\ [][Next]_vars

-----------------------------------------------------------------------------
Delimiters == {"single", "triple"}

(* Each variable has its type; in particular no token leaves a version     *)
(* behind the end of the text.                                             *)
TypeOK ==
    /\ text \in Texts
    /\ alive \subseteq Versions
    /\ head \in [Versions ->
          [at : 1 .. End(text), state : Seq(Delimiters), open : Seq(Delimiters),
           begun : Seq(1 .. End(text)), code : Seq(Nat)]]
    /\ payload \in [contents : Seq(Delimiters), capacity : Nat]
    /\ aborted \in BOOLEAN

(* Whatever versions were lexed in between, the state of a version names   *)
(* the literals that its own tokens have opened and not closed, the        *)
(* innermost last.  (stack_push, stack_pop, serialize, deserialize)        *)
StackIsOpenLiterals == \A v \in alive : head[v].state = head[v].open

(* A version has one delimiter in its state for each literal it has open.  *)
StackAsDeep == \A v \in Versions : Len(head[v].state) = Len(head[v].open)

(* No array is written past its capacity, and no state is longer than the  *)
(* buffer of the runtime it is copied to.  (_array__grow, serialize)       *)
InBounds ==
    /\ Len(payload.contents) <= payload.capacity
    /\ \A v \in Versions : Len(head[v].state) <= TREE_SITTER_SERIALIZATION_BUFFER_SIZE

(* The process is aborted for one reason only, too many literals in one    *)
(* another: no delimiter is ever popped from an empty stack.               *)
AbortOnlyAtLimit ==
    aborted => \E v \in alive :
                  Len(head[v].open) = TREE_SITTER_SERIALIZATION_BUFFER_SIZE

(* The stack stays between its ends, and where it cannot grow the scanner  *)
(* stops and does not write (stack_push, stack_pop, serialize).            *)
StackFits == InBounds /\ AbortOnlyAtLimit

(* Where a literal ends by the rules of Kotlin: at the first quote that is *)
(* not escaped, or behind the first three quotes and those that follow.    *)
ClosingQuote(t, p, delim) ==
    IF delim = "triple"
      THEN {q \in p .. Len(t) - 2 : \A i \in 0 .. 2 : t[q + i] = "dq"}
      ELSE {q \in p .. Len(t) : /\ t[q] = "dq"
                                /\ \E k \in 0 .. q - p :
                                     /\ k % 2 = 0
                                     /\ \A i \in 1 .. k : t[q - i] = "bs"
                                     /\ q - k = p \/ t[q - k - 1] # "bs"}

(* No dollar sign, and nothing that a comment could begin with on a line   *)
(* of its own.                                                             *)
Plain(t, from, to) ==
    /\ \A i \in from .. to - 1 : t[i] # "$"
    /\ \A i \in from .. to - 1 : t[i] \in LineEnd =>
          \A j \in i + 1 .. to - 1 : t[j] # "/"

(* A literal without a dollar sign ends where it ends in Kotlin: its       *)
(* content stays in front of the closing quotes, and its end is all of     *)
(* them.  What looks like a comment on a line of its own in a literal may  *)
(* be taken for one while the parser recovers, with the quotes in it, and  *)
(* such literals are left out.  (scan_string_content)                      *)
LiteralEnds ==
    \A v \in alive : \A V \in RowsOf(head[v]) : \A r \in {Found(v, V)} :
        LET x    == Extent(r)
            n    == Len(head[v].open)
            from == head[v].begun[n]
            ends == ClosingQuote(text, from, head[v].open[n])
            q    == CHOOSE e \in ends : \A f \in ends : e <= f
        IN  ~aborted /\ InLiteral(head[v])
              /\ r.token \in {"STRING_CONTENT", "STRING_END"}
              /\ Plain(text, from, x.to)
            => IF r.token = "STRING_END"
                 THEN /\ ends # {}
                      /\ x.to = IF head[v].open[n] = "triple"
                                  THEN FirstNot(text, q, {"dq"}) ELSE q + 1
                 ELSE ends = {} \/ x.to <= q

(* The end of the comment whose body starts at p, comment by comment.      *)
CommentEnd(t, p) ==
    LET end[q \in Nat] ==
          CASE Eof(t, q) -> End(t)
            [] Look(t, q) = "*" /\ Look(t, q + 1) = "/" -> q + 2
            [] Look(t, q) = "/" /\ Look(t, q + 1) = "*" -> end[end[q + 2]]
            [] OTHER -> end[q + 1]
    IN  end[p]

(* The comment of a token x found from h: the first that begins in it.  An *)
(* empty token stands behind its comment and the blanks that follow, and   *)
(* nothing but blanks is in front of that comment.                         *)
IsWholeComment(t, h, x) ==
    LET from == IF x.from < x.to THEN x.from ELSE h
        open == {q \in from .. Len(t) - 1 : t[q] = "/" /\ t[q + 1] = "*"}
        p    == CHOOSE q \in open : \A o \in open : q <= o
        end  == CommentEnd(t, p + 2)
    IN  /\ open # {}
        /\ x.from < x.to => x.to = end
        /\ x.from = x.to => /\ \A i \in h .. p - 1 : t[i] \in Space
                            /\ x.to = FirstNot(t, end, Space)

(* A comment is a comment to its end, with the comments in it, whichever   *)
(* scan finds it.  In front of it the token may hold what was read for     *)
(* another token, a c or a slash.  Behind a line end the token is empty    *)
(* where blanks, e, a, w or ! follow the comment: the code skips them,     *)
(* which moves the start of the token behind the comment, although it      *)
(* reads the comment with advance to keep it for the token.  All of that   *)
(* comment, and no more than it and blanks, is lost as padding.            *)
(* (scan_multiline_comment, the block comment of                           *)
(* scan_automatic_semicolon)                                               *)
CommentWhole ==
    \A v \in alive : \A V \in RowsOf(head[v]) : \A r \in {Found(v, V)} :
        r.token = "MULTILINE_COMMENT" => IsWholeComment(text, head[v].at, Extent(r))

(* A blank, or a symbol of a line comment that begins at p or behind it.   *)
Blank(t, p, i) ==
    \/ t[i] \in Space
    \/ \E j \in p .. i : /\ t[j] = "/" /\ Look(t, j + 1) = "/"
                         /\ \A k \in j .. i : t[k] \notin LineEnd

(* The next symbol from p on that is neither.                              *)
NextSymbol(t, p) ==
    CHOOSE n \in p .. End(t) :
        /\ Eof(t, n) \/ ~Blank(t, p, n)
        /\ \A i \in p .. n - 1 : Blank(t, p, i)

(* Behind the end of a line, line comments change nothing: whatever of     *)
(* them, of blanks and of line ends stands between the first line end and  *)
(* the next symbol, the token is the one that is found without it.  (the   *)
(* line comments of scan_automatic_semicolon; not where a constructor may  *)
(* follow, where a block comment is the next symbol, nor where a character *)
(* 0 ends a line comment)                                                  *)
LineCommentTransparent ==
    \A v \in alive : \A V \in RowsOf(head[v]) :
        LET p == head[v].at
            q == FirstNot(text, p, {"sp"})
            n == NextSymbol(text, p)
            bare == <<text[q]>> \o SubSeq(text, n, Len(text))
        IN  /\ "AUTOMATIC_SEMICOLON" \in V /\ ~InClassHeader(V)
            /\ Look(text, q) \in LineEnd
            /\ Look(text, n) = "/" => Look(text, n + 1) # "*"
            /\ \A i \in p .. n - 1 : text[i] # "nul"
            => Found(v, V).token = scan(bare, 1, Loaded(v).contents, V).token

(* The next symbol from p on behind blanks, line comments and block        *)
(* comments.                                                               *)
Uncommented(t, p) ==
    LET next[q \in Nat] ==
          CASE Look(t, q) \in Space -> next[q + 1]
            [] Look(t, q) = "/" /\ Look(t, q + 1) = "/" ->
                 next[FirstIn(t, q, LineEnd \cup {"nul"})]
            [] Look(t, q) = "/" /\ Look(t, q + 1) = "*" -> next[CommentEnd(t, q + 2)]
            [] OTHER -> q
    IN  next[p]

(* Behind the end of a line and a line comment, block comments change      *)
(* nothing either, with the comments in them: the token is the one that is *)
(* found where the next symbol that is in no comment follows the line end. *)
(* (the third reading of comments, in the lookahead of                     *)
(* scan_automatic_semicolon through comments; not where a constructor may  *)
(* follow, nor where a character 0 ends a comment)                         *)
BlockCommentTransparent ==
    \A v \in alive : \A V \in RowsOf(head[v]) :
        LET p == head[v].at
            q == FirstNot(text, p, {"sp"})
            c == FirstNot(text, q, Space)
            n == Uncommented(text, p)
            bare == <<text[q]>> \o SubSeq(text, n, Len(text))
        IN  /\ "AUTOMATIC_SEMICOLON" \in V /\ ~InClassHeader(V)
            /\ Look(text, q) \in LineEnd
            /\ Look(text, c) = "/" /\ Look(text, c + 1) = "/"
            /\ \A i \in p .. n - 1 : text[i] # "nul"
            => Found(v, V).token = scan(bare, 1, Loaded(v).contents, V).token
=============================================================================
