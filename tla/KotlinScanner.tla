---------------------------- MODULE KotlinScanner ----------------------------
(***************************************************************************)
(* scanner.c: the external scanner of the Kotlin grammar, which decides    *)
(* where statements end, where strings and comments end and whether a dot  *)
(* belongs to an import.  Each scan_ function of the code is one operator  *)
(* here: from a text and a lexer to a token or to a refusal.               *)
(*                                                                         *)
(* A text is a sequence of symbols.  A symbol is a character, or the rest  *)
(* of a word after its first letter: the keyword else is <<"e", "lse">>,   *)
(* and "x" is any letter or rest that begins or ends no keyword (a rest is *)
(* never a proper part of the rest of a keyword).  A tab is a "sp"; public,*)
(* private and protected are one word, as they are for the code.           *)
(*                                                                         *)
(* The lexer belongs to the tree-sitter runtime: `at` is its position,     *)
(* `from` where the token starts (skip moves it, advance does not), `to`   *)
(* where mark_end was last called, Nowhere when it was not.                *)
(***************************************************************************)
EXTENDS Integers, Sequences

CONSTANT TREE_SITTER_SERIALIZATION_BUFFER_SIZE

ASSUME BufferAssumption == TREE_SITTER_SERIALIZATION_BUFFER_SIZE \in Nat \ {0}

Space == {"sp", "lf", "cr"}
LineEnd == {"lf", "cr"}
Letters == {"i", "e", "a", "w", "c", "f", "p", "x"}
WordChar ==
    Letters \cup {"mport", "lse", "s", "here", "atch", "inally", "onstructor",
                  "ublic", "nternal"}

Tokens ==
    {"AUTOMATIC_SEMICOLON", "IMPORT_LIST_DELIMITER", "SAFE_NAV",
     "MULTILINE_COMMENT", "STRING_START", "STRING_END", "STRING_CONTENT",
     "PRIMARY_CONSTRUCTOR_KEYWORD", "IMPORT_DOT"}

(* Which tokens can be valid together.  A parser state has the row of      *)
(* ts_external_scanner_states (the last tables of parser.c) that its       *)
(* external_lex_state in ts_lex_modes names: state 0, of errors, the first *)
(* one, with every token; inside a string (7535 is the first) row 16.      *)
Recovery == Tokens
InString == {"MULTILINE_COMMENT", "STRING_END", "STRING_CONTENT"}
external_scanner_states ==
    {Recovery, InString,
     {"IMPORT_LIST_DELIMITER", "MULTILINE_COMMENT"},
     {"AUTOMATIC_SEMICOLON", "MULTILINE_COMMENT", "IMPORT_DOT"}}
    \cup {{"MULTILINE_COMMENT"} \cup s : s \in
            {{}, {"STRING_START"}, {"SAFE_NAV"}, {"AUTOMATIC_SEMICOLON"},
             {"PRIMARY_CONSTRUCTOR_KEYWORD"},
             {"SAFE_NAV", "STRING_START"},
             {"SAFE_NAV", "AUTOMATIC_SEMICOLON"},
             {"SAFE_NAV", "PRIMARY_CONSTRUCTOR_KEYWORD"},
             {"AUTOMATIC_SEMICOLON", "STRING_START"},
             {"AUTOMATIC_SEMICOLON", "PRIMARY_CONSTRUCTOR_KEYWORD"},
             {"SAFE_NAV", "AUTOMATIC_SEMICOLON", "STRING_START"},
             {"SAFE_NAV", "AUTOMATIC_SEMICOLON", "PRIMARY_CONSTRUCTOR_KEYWORD"},
             {"STRING_START", "AUTOMATIC_SEMICOLON", "PRIMARY_CONSTRUCTOR_KEYWORD"},
             {"SAFE_NAV", "AUTOMATIC_SEMICOLON", "STRING_START",
              "PRIMARY_CONSTRUCTOR_KEYWORD"}}}

-----------------------------------------------------------------------------
(* The lexer.  At the end of the text the lookahead is 0, as it is at a    *)
(* character 0, and advance stays.                                         *)
Nowhere == 0

Lexer(p) == [at |-> p, from |-> p, to |-> Nowhere]

End(t) == Len(t) + 1
Eof(t, p) == p > Len(t)
Look(t, p) == IF Eof(t, p) THEN "nul" ELSE t[p]
Past(t, p, n) == IF p + n > End(t) THEN End(t) ELSE p + n

Advance(t, L, n) == [L EXCEPT !.at = Past(t, @, n)]
SkipTo(L, p) == [L EXCEPT !.from = IF p = L.at THEN @ ELSE p, !.at = p]
Mark(L) == [L EXCEPT !.to = L.at]

(* A scan_ function returns true with a result symbol, or false; either    *)
(* way it leaves the lexer and the stack of delimiters behind.             *)
NoToken == "none"
Accept(L, sym, st) == [token |-> sym, lexer |-> L, stack |-> st]
Refuse(L, st) == [token |-> NoToken, lexer |-> L, stack |-> st]

(* The first position from p on whose symbol is in S, or is not in S.      *)
FirstIn(t, p, S) ==
    CHOOSE q \in p .. End(t) :
        /\ Eof(t, q) \/ t[q] \in S
        /\ \A r \in p .. q - 1 : t[r] \notin S

FirstNot(t, p, S) ==
    CHOOSE q \in p .. End(t) :
        /\ Eof(t, q) \/ t[q] \notin S
        /\ \A r \in p .. q - 1 : t[r] \in S

(* while (iswspace(lookahead)) skip                                        *)
SkipSpace(t, L) == SkipTo(L, FirstNot(t, L.at, Space))

(* The word that starts at p is the letter and the rest, and ends there.   *)
IsWord(t, p, letter, rest) ==
    /\ Look(t, p) = letter /\ Look(t, p + 1) = rest
    /\ Look(t, p + 2) \notin WordChar

(* The first letter is there.  Behind it the reading of a keyword stops at *)
(* another rest, or behind the rest, whether the word ends there or not.   *)
Keyword(t, p, rest) == Past(t, p, IF Look(t, p + 1) = rest THEN 2 ELSE 1)

-----------------------------------------------------------------------------
(* Strings.  A delimiter is "single" or "triple".                          *)
IsTriple(st) == st[Len(st)] = "triple"

(* stack_push and stack_pop abort the process at the ends of the stack.    *)
Abort(L, st) == [token |-> "abort", lexer |-> L, stack |-> st]

(* Mutant of Starts: the limit is one less.                                *)
StartsEarly(L, st, d) ==
    IF Len(st) + 1 >= TREE_SITTER_SERIALIZATION_BUFFER_SIZE
      THEN Abort(L, st)
      ELSE Accept(L, "STRING_START", Append(st, d))

Starts(L, st, d) ==
    IF Len(st) >= TREE_SITTER_SERIALIZATION_BUFFER_SIZE
      THEN Abort(L, st)
      ELSE Accept(L, "STRING_START", Append(st, d))

Ends(L, st) ==
    IF st = <<>>
      THEN Abort(L, st)
      ELSE Accept(L, "STRING_END", SubSeq(st, 1, Len(st) - 1))

scan_string_start(t, L, st) ==
    LET p == L.at
        triple == Look(t, p + 1) = "dq" /\ Look(t, p + 2) = "dq"
        single == Mark(Advance(t, L, 1))
    IN  IF Look(t, p) # "dq" THEN Refuse(L, st)
        ELSE IF triple
          THEN Starts(Mark(Advance(t, L, 3)), st, "triple")
        ELSE IF Look(t, p + 1) = "dq"
          THEN Starts(Advance(t, single, 1), st, "single")
        ELSE Starts(single, st, "single")

(* Mutant of NextContent: a backslash escapes in every string.             *)
NextEscaped(t, p, triple) ==
    Past(t, p,
         IF Look(t, p) # "bs" THEN 1
         ELSE IF Look(t, p + 1) = "$" THEN 3 ELSE 2)

(* One turn of the loop over the content, where it does not return.  The   *)
(* character after a backslash is read with it, and after \$ one more; but *)
(* in a triple-quoted string a quote after a backslash is looked at again. *)
NextContent(t, p, triple) ==
    Past(t, p,
         IF Look(t, p) # "bs" THEN 1
         ELSE IF Look(t, p + 1) = "$" THEN 3
         ELSE IF triple /\ Look(t, p + 1) = "dq" THEN 1 ELSE 2)

(* An escaped dollar sign at the end of the string.                        *)
DollarEnds(t, p) ==
    Look(t, p) = "bs" /\ Look(t, p + 1) = "$" /\ Look(t, p + 2) = "dq"

(* Where the loop returns, when it starts at p.                            *)
ContentEnd(t, p, triple) ==
    LET end[q \in Nat] ==
          IF Look(t, q) \in {"nul", "$", "dq"} \/ DollarEnds(t, q)
            THEN q
            ELSE end[NextContent(t, q, triple)]
    IN  end[p]

scan_string_content(t, L, st) ==
    LET triple  == IsTriple(st)
        q       == ContentEnd(t, L.at, triple)
        content == q # L.at
        M       == [L EXCEPT !.at = q]
        quotes  == FirstNot(t, q, {"dq"})
    IN  IF st = <<>> THEN Refuse(L, st)
        ELSE CASE Look(t, q) = "nul" -> Refuse(M, st)
               [] Look(t, q) = "$" /\ content -> Accept(M, "STRING_CONTENT", st)
               [] Look(t, q) = "$" /\ ~content ->
                    IF Look(t, q + 1) \in Letters \cup {"{"}
                      THEN Refuse(Advance(t, M, 1), st)
                      ELSE Accept(Mark(Advance(t, M, 1)), "STRING_CONTENT", st)
               [] Look(t, q) = "bs" -> Ends(Mark(Advance(t, M, 3)), st)
               [] Look(t, q) = "dq" /\ ~triple ->
                    IF content THEN Accept(Mark(M), "STRING_CONTENT", st)
                    ELSE Ends(Mark(Advance(t, M, 1)), st)
               [] OTHER ->    \* the quote of a triple-quoted string
                    IF quotes < q + 3
                      THEN Accept(Mark([M EXCEPT !.at = quotes]), "STRING_CONTENT", st)
                    ELSE IF content
                      THEN Accept(Advance(t, Mark(M), 2), "STRING_CONTENT", st)
                    ELSE Ends(Mark([M EXCEPT !.at = quotes]), st)

-----------------------------------------------------------------------------
(* Comments.  The body of a block comment is read symbol by symbol: where  *)
(* the reading is, whether it comes after a star, and the counter of the   *)
(* comments that are open.                                                 *)
Reading(q, after, depth) == [at |-> q, after |-> after, depth |-> depth]

(* Mutant of ReadOn: the star that opens a comment may close it too.       *)
ReadOnStar(t, c) ==
    CASE t[c.at] = "*" -> Reading(c.at + 1, "*", c.depth)
      [] t[c.at] = "/" /\ c.after = "*" -> Reading(c.at + 1, "other", c.depth - 1)
      [] t[c.at] = "/" /\ c.after # "*" /\ Look(t, c.at + 1) = "*" ->
           Reading(c.at + 2, "*", c.depth + 1)
      [] OTHER -> Reading(c.at + 1, "other", c.depth)

(* One turn of the loop.                                                   *)
ReadOn(t, c) ==
    CASE t[c.at] = "*" -> Reading(c.at + 1, "*", c.depth)
      [] t[c.at] = "/" /\ c.after = "*" -> Reading(c.at + 1, "other", c.depth - 1)
      [] t[c.at] = "/" /\ c.after # "*" /\ Look(t, c.at + 1) = "*" ->
           Reading(c.at + 2, "other", c.depth + 1)
      [] OTHER -> Reading(c.at + 1, "other", c.depth)

(* Where the reading from p stops: behind the end of the comment, at the   *)
(* end of the text, or at a character 0 if that stops it.                  *)
ReadComment(t, p, nulStops) ==
    LET read[c \in [at : Nat, after : {"*", "other"}, depth : Nat]] ==
          IF c.depth = 0 \/ Eof(t, c.at) \/ (nulStops /\ t[c.at] = "nul")
            THEN c ELSE read[ReadOn(t, c)]
    IN  read[Reading(p, "other", 1)]

(* A comment that is not closed is a comment if the text ends with it.     *)
scan_multiline_comment(t, L, st) ==
    LET body == ReadComment(t, L.at + 2, TRUE)
        M    == [L EXCEPT !.at = body.at]
    IN  IF Look(t, L.at) # "/" THEN Refuse(L, st)
        ELSE IF Look(t, L.at + 1) # "*" THEN Refuse(Advance(t, L, 1), st)
        ELSE IF body.depth = 0 \/ Eof(t, body.at)
          THEN Accept(Mark(M), "MULTILINE_COMMENT", st)
          ELSE Refuse(M, st)

-----------------------------------------------------------------------------
(* Automatic semicolons.  Words that go on with the statement before them, *)
(* and symbols that do.                                                    *)
Continuation ==
    {",", ".", ":", "*", "%", ">", "<", "=", "{", "[", "(", "?", "|", "&"}

Rest == [e |-> "lse", a |-> "s", w |-> "here", c |-> "atch", f |-> "inally"]

Continues(t, p, letters) ==
    Look(t, p) \in letters /\ IsWord(t, p, Look(t, p), Rest[Look(t, p)])

NotEqual(t, p) == Look(t, p) = "!" /\ Look(t, p + 1) = "="

(* The position after a modifier and constructor, Nowhere if they are not  *)
(* there.                                                                  *)
check_modifier_then_constructor(t, p) ==
    LET q == FirstNot(t, p + 2, {"sp"})
    IN  IF /\ IsWord(t, p, "p", "ublic") \/ IsWord(t, p, "i", "nternal")
           /\ IsWord(t, q, "c", "onstructor")
          THEN q + 2
          ELSE Nowhere

(* The position after the argument list that was opened before p.          *)
Arguments(t, p) ==
    LET quoted[q \in Nat] ==
          CASE Look(t, q) = "nul" -> q
            [] Look(t, q) = "dq"  -> q + 1
            [] Look(t, q) = "bs"  -> quoted[Past(t, q, 2)]
            [] OTHER              -> quoted[q + 1]
        On(a) ==
          CASE Look(t, a.at) = "dq" -> [a EXCEPT !.at = quoted[@ + 1]]
            [] Look(t, a.at) = "("  -> [at |-> a.at + 1, depth |-> a.depth + 1]
            [] Look(t, a.at) = ")"  -> [at |-> a.at + 1, depth |-> a.depth - 1]
            [] OTHER                -> [a EXCEPT !.at = @ + 1]
        args[a \in [at : Nat, depth : Nat]] ==
          IF a.depth = 0 \/ Look(t, a.at) = "nul" THEN a.at ELSE args[On(a)]
    IN  args[[at |-> p, depth |-> 1]]

check_annotation_then_constructor(t, p) ==
    LET words(q) == FirstNot(t, q, WordChar)
        name[q \in Nat] ==
          CASE Look(t, q) # "." -> q
            [] Look(t, q) = "." /\ Look(t, q + 1) \notin WordChar -> q + 1
            [] OTHER -> name[words(q + 1)]
        past[q \in Nat] ==
          LET n == name[words(q + 1)]
              r == IF Look(t, n) = "(" THEN Arguments(t, n + 1) ELSE n
          IN  CASE Look(t, q) # "@" -> q
                [] Look(t, q) = "@" /\ Look(t, q + 1) \notin WordChar -> Nowhere
                [] OTHER -> past[FirstNot(t, r, Space)]
        q == past[p]
    IN  CASE q = Nowhere -> Nowhere
          [] q # Nowhere /\ Look(t, q) \in WordChar \ {"c"} ->
               check_modifier_then_constructor(t, q)
          [] OTHER -> IF IsWord(t, q, "c", "onstructor") THEN q + 2 ELSE Nowhere

(* Mutant of PastComments: a block comment ends at the first end in it.     *)
PastFlatComments(t, p) ==
    LET EndsAt(q, e) == e >= q + 4 /\ t[e - 2] = "*" /\ t[e - 1] = "/"
        Behind(q) == IF Look(t, q + 1) = "/"
                     THEN FirstIn(t, q + 2, {"lf", "cr", "nul"})
                     ELSE CHOOSE e \in q + 2 .. End(t) :
                            /\ Eof(t, e) \/ EndsAt(q, e)
                            /\ \A o \in q + 2 .. e - 1 : ~EndsAt(q, o)
        past[q \in Nat] ==
          IF Look(t, q) = "/" /\ Look(t, q + 1) \in {"/", "*"}
            THEN past[FirstNot(t, Behind(q), Space)]
            ELSE q
    IN  past[p]

(* After a line comment: the first position past comments and space whose  *)
(* symbol is no "/", or the "/" that starts no comment.                    *)
PastComments(t, p) ==
    LET Behind(q) == IF Look(t, q + 1) = "/"
                     THEN FirstIn(t, q + 2, {"lf", "cr", "nul"})
                     ELSE ReadComment(t, q + 2, FALSE).at
        past[q \in Nat] ==
          IF Look(t, q) = "/" /\ Look(t, q + 1) \in {"/", "*"}
            THEN past[FirstNot(t, Behind(q), Space)]
            ELSE q
    IN  past[p]

(* Mutant of AfterLineComment: catch and finally begin a statement.        *)
AfterLineCommentTry(t, L, st) ==
    LET n == PastComments(t, L.at)
        To(k) == SkipTo(L, Past(t, n, k))
    IN  CASE Look(t, n) = "/" -> Refuse(To(1), st)
          [] Look(t, n) \in Continuation -> Refuse(To(0), st)
          [] NotEqual(t, n) -> Refuse(To(1), st)
          [] Continues(t, n, {"e", "a", "w"}) -> Refuse(To(2), st)
          [] OTHER -> Accept(L, "AUTOMATIC_SEMICOLON", st)

(* A line comment after the line end: it and those that follow it are only *)
(* looked through.                                                         *)
AfterLineComment(t, L, st) ==
    LET n == PastComments(t, L.at)
        To(k) == SkipTo(L, Past(t, n, k))
    IN  CASE Look(t, n) = "/" -> Refuse(To(1), st)
          [] Look(t, n) \in Continuation -> Refuse(To(0), st)
          [] NotEqual(t, n) -> Refuse(To(1), st)
          [] Continues(t, n, DOMAIN Rest) -> Refuse(To(2), st)
          [] OTHER -> Accept(L, "AUTOMATIC_SEMICOLON", st)

(* A block comment after the line end: it becomes the token when the       *)
(* statement goes on behind it.  Where a word or a ! must be read to know, *)
(* the end is marked before.                                               *)
AfterBlockComment(t, L, st) ==
    LET body == ReadComment(t, L.at + 2, FALSE)
        M    == SkipSpace(t, [L EXCEPT !.at = body.at])
        n    == M.at
        Behind(k) == SkipTo(Mark(M), Past(t, n, k))
    IN  CASE Look(t, n) \in Continuation \cup {"/"} ->
               Accept(Behind(0), "MULTILINE_COMMENT", st)
          [] NotEqual(t, n) -> Accept(Behind(1), "MULTILINE_COMMENT", st)
          [] Continues(t, n, {"e", "a", "w"}) ->
               Accept(Behind(2), "MULTILINE_COMMENT", st)
          [] Look(t, n) \in {"e", "a", "w", "!"} /\ ~Continues(t, n, {"e", "a", "w"})
               /\ ~NotEqual(t, n) -> Accept(Behind(1), "AUTOMATIC_SEMICOLON", st)
          [] OTHER -> Accept(M, "AUTOMATIC_SEMICOLON", st)

(* A constructor keyword is taken for one of a class header only where     *)
(* strings are not valid too, which is while the parser recovers.          *)
InClassHeader(V) ==
    "PRIMARY_CONSTRUCTOR_KEYWORD" \in V /\ "STRING_CONTENT" \notin V

(* The word constructor: a token, or the lexer is left behind its start.   *)
Constructor(t, L, st) ==
    IF IsWord(t, L.at, "c", "onstructor")
      THEN Accept(Mark(Advance(t, L, 2)), "PRIMARY_CONSTRUCTOR_KEYWORD", st)
      ELSE Refuse([L EXCEPT !.at = Keyword(t, L.at, "onstructor")], st)

(* The next symbol, on a line after the one the statement may end on.      *)
AfterLineEnd(t, L, st, V) ==
    LET p == L.at
        Semicolon == Accept(L, "AUTOMATIC_SEMICOLON", st)
        GoesOn(q) == Refuse(SkipTo(L, q), st)
        header == IF Look(t, p) = "@"
                    THEN check_annotation_then_constructor(t, p)
                    ELSE check_modifier_then_constructor(t, p)
    IN  CASE Look(t, p) \in Continuation -> GoesOn(p)
          [] Look(t, p) = "/" /\ Look(t, p + 1) = "/" -> AfterLineComment(t, L, st)
          [] Look(t, p) = "/" /\ Look(t, p + 1) = "*" -> AfterBlockComment(t, L, st)
          [] Look(t, p) = "/" /\ Look(t, p + 1) \notin {"/", "*"} ->
               Refuse(Advance(t, L, 1), st)
          [] NotEqual(t, p) -> GoesOn(p + 1)
          [] Look(t, p) \in {"i", "p", "@"} /\ InClassHeader(V) ->
               IF header # Nowhere THEN GoesOn(header) ELSE Semicolon
          [] Look(t, p) = "c" /\ InClassHeader(V) ->
               IF IsWord(t, p, "c", "onstructor") THEN Constructor(t, L, st)
                                                  ELSE Semicolon
          [] Continues(t, p, DOMAIN Rest) /\ ~(Look(t, p) = "c" /\ InClassHeader(V)) ->
               GoesOn(p + 2)
          [] Look(t, p) = ";" ->
               Accept(Mark(Advance(t, L, 1)), "AUTOMATIC_SEMICOLON", st)
          [] OTHER -> Semicolon

scan_automatic_semicolon(t, L0, st, V) ==
    LET q == FirstNot(t, L0.at, {"sp"})
        L == SkipTo(Mark(L0), q)
    IN  CASE Eof(t, q) -> Accept(L, "AUTOMATIC_SEMICOLON", st)
          [] Look(t, q) = ";" ->
               Accept(Mark(Advance(t, L, 1)), "AUTOMATIC_SEMICOLON", st)
          [] Look(t, q) \in LineEnd -> AfterLineEnd(t, SkipSpace(t, L), st, V)
          [] Look(t, q) = "i" ->
               IF IsWord(t, q, "i", "mport")
                 THEN Accept(L, "AUTOMATIC_SEMICOLON", st)
                 ELSE Refuse(SkipTo(L, Keyword(t, q, "mport")), st)
          [] OTHER -> Refuse(L, st)

-----------------------------------------------------------------------------
scan_safe_nav(t, L0, st) ==
    LET L == SkipSpace(t, Mark(L0))
        M == SkipSpace(t, Advance(t, L, 1))
    IN  CASE Look(t, L.at) # "?" -> Refuse(L, st)
          [] Look(t, L.at) = "?" /\ Look(t, M.at) # "." -> Refuse(M, st)
          [] OTHER -> Accept(Mark(Advance(t, M, 1)), "SAFE_NAV", st)

(* The position after a line separator (CR, LF or CRLF), with the blanks   *)
(* before it and, for a CR, after it; Nowhere if there is none.            *)
scan_line_sep(t, p) ==
    LET q == FirstNot(t, p, {"sp"})
        r == FirstNot(t, q + 1, {"sp"})
    IN  CASE Look(t, q) = "lf" -> q + 1
          [] Look(t, q) = "cr" -> IF Look(t, r) = "lf" THEN r + 1 ELSE r
          [] OTHER -> Nowhere

(* An import list ends with an empty line or before another statement.     *)
scan_import_list_delimiter(t, L0, st) ==
    LET L      == Mark(L0)
        first  == scan_line_sep(t, L.at)
        second == scan_line_sep(t, first)
        Is(M)  == Accept(M, "IMPORT_LIST_DELIMITER", st)
    IN  CASE Eof(t, L.at) -> Is(L)
          [] ~Eof(t, L.at) /\ first = Nowhere -> Refuse(L, st)
          [] OTHER ->
               IF second # Nowhere THEN Is(Mark([L EXCEPT !.at = second]))
               ELSE IF IsWord(t, FirstNot(t, first, {"sp"}), "i", "mport")
                 THEN Refuse(L, st)
               ELSE Is(L)

(* A dot at the end of a line before another import is none of this one.   *)
scan_import_dot(t, L0, st) ==
    LET L == Mark(L0)
        M == SkipSpace(t, Advance(t, L, 1))
        newline == \E q \in L.at .. M.at - 1 : t[q] \in LineEnd
        word == newline /\ Look(t, M.at) = "i"
        N == IF word THEN SkipTo(M, Keyword(t, M.at, "mport")) ELSE M
    IN  IF Look(t, L0.at) # "." THEN Refuse(L0, st)
        ELSE IF word /\ IsWord(t, M.at, "i", "mport")
          THEN Accept(N, "AUTOMATIC_SEMICOLON", st)
        ELSE Accept(Mark(N), "IMPORT_DOT", st)

-----------------------------------------------------------------------------
(* tree_sitter_kotlin_external_scanner_scan: one scan after another, each  *)
(* on the lexer that the refusals before it have left.                     *)
Then(r, valid, next) == IF r.token # NoToken \/ ~valid THEN r ELSE next

SemicolonScan(t, p, st, V) ==
    Then(Refuse(Lexer(p), st), "AUTOMATIC_SEMICOLON" \in V,
         scan_automatic_semicolon(t, Lexer(p), st, V))

DotScan(t, r, V) ==
    Then(r, "IMPORT_DOT" \in V, scan_import_dot(t, r.lexer, r.stack))

KeywordScan(t, r, V) ==
    LET M == SkipSpace(t, r.lexer)
    IN  Then(r, InClassHeader(V),
             IF Look(t, M.at) = "c" THEN Constructor(t, M, r.stack)
                                    ELSE Refuse(M, r.stack))

ContentScan(t, r, V) ==
    Then(r, "STRING_CONTENT" \in V, scan_string_content(t, r.lexer, r.stack))

StartScan(t, r, V) ==
    LET M == SkipSpace(t, r.lexer)
    IN  Then(r, TRUE,
             IF "STRING_START" \in V THEN scan_string_start(t, M, r.stack)
                                     ELSE Refuse(M, r.stack))

CommentScan(t, r, V) ==
    Then(r, "MULTILINE_COMMENT" \in V, scan_multiline_comment(t, r.lexer, r.stack))

SafeNavScan(t, r, V) ==
    Then(r, "SAFE_NAV" \in V, scan_safe_nav(t, r.lexer, r.stack))

(* The delimiter of an import list is the last token tried where it is     *)
(* valid.                                                                  *)
AfterKeyword(t, r, V) ==
    IF r.token = NoToken /\ "IMPORT_LIST_DELIMITER" \in V
      THEN scan_import_list_delimiter(t, r.lexer, r.stack)
      ELSE SafeNavScan(t, CommentScan(t, StartScan(t, ContentScan(t, r, V), V), V), V)

(* A question mark that ends no statement may be a ?. after line ends.     *)
AfterSemicolon(t, r, V) ==
    IF /\ {"AUTOMATIC_SEMICOLON", "SAFE_NAV"} \subseteq V
       /\ r.token = NoToken /\ Look(t, r.lexer.at) = "?"
      THEN scan_safe_nav(t, r.lexer, r.stack)
      ELSE AfterKeyword(t, KeywordScan(t, DotScan(t, r, V), V), V)

scan(t, p, st, V) == AfterSemicolon(t, SemicolonScan(t, p, st, V), V)
=============================================================================
