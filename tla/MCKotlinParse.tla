---- MODULE MCKotlinParse ----
EXTENDS KotlinParse, SequencesExt

Joined(parts) == FlattenSeq(parts)

(* Literals of quotes, escapes and content; literals in literals.          *)
Literals ==
    {<<"dq">> \o s : s \in BoundedSeq({"x", "bs", "dq"}, 4)}
    \cup {<<"dq", "dq", "dq">> \o s : s \in BoundedSeq({"x", "bs", "dq"}, 5)}
Hole == <<"$", "{">>
Nested ==
    {Joined(<<<<"dq">>, a, Hole, <<"dq">>, b, Hole, c, <<"dq", "}", "dq", "}", "dq">>>>) :
        a \in {<<>>, <<"x">>}, b \in {<<>>, <<"bs", "$">>}, c \in {<<"dq">>, <<"x">>}}
    \cup {Joined(<<<<"dq", "dq", "dq">>, Hole, <<"dq">>, a, <<"dq", "}">>, b>>) :
        a \in {<<>>, <<"$", "x">>}, b \in {<<"dq", "dq", "dq">>, <<"bs", "$", "dq">>}}

Comments ==
    {<<"/", "*">> \o s : s \in BoundedSeq({"/", "*", "x"}, 4)}
    \cup {Joined(<<<<"/", "*", "/", "*", "/">>, s, <<"x">>>>) : s \in BoundedSeq({"/", "*"}, 3)}

(* A line end, comments, and what goes on with a statement or does not, on *)
(* a line of its own or right behind a comment.                            *)
LineComment == <<"/", "/", "x">>
BlockComment == <<"/", "*", "*", "/">>
NestedComment == <<"/", "*">> \o BlockComment \o <<".", "*", "/">>
Following ==
    {<<"x">>, <<".", "x">>, <<"!", "=">>, <<"!", "x">>, <<"e", "lse">>,
     <<"e", "lse", "x">>, <<"a", "s">>, <<"w", "here">>, <<"c", "atch">>,
     <<"f", "inally">>, <<"c", "onstructor">>, <<";">>, <<"?", ".">>, <<"/", "x">>,
     <<"?", "/", "/", "x", "lf", ".">>, <<"i", "mport">>, <<>>}
Statements ==
    {Joined(<<<<"x">>, a, b, <<"lf">>, c>>) :
        a \in {<<"lf">>, <<"sp", "lf">>},
        b \in {LineComment, LineComment \o <<"lf">> \o LineComment,
               BlockComment, NestedComment,
               LineComment \o <<"lf">> \o BlockComment \o NestedComment},
        c \in Following}
    \cup {Joined(<<<<"x", "lf">>, BlockComment, c>>) : c \in Following}

(* A comment behind what was read for another token, and comments on lines *)
(* of their own in a literal.                                              *)
Mixtures ==
    {<<"c", "/", "*", "/", "x", "*", "/">>, <<"lf", "/", "c", "/", "*", "*", "/">>}
    \cup {Joined(<<<<"dq", "lf", "/">>, a, b, <<"dq">>>>) :
              a \in {<<"/">>, <<"*">>, <<"*", "dq">>},
              b \in {<<"*", "/", "/", "x">>, <<"lf", "x">>, <<"*", "/", "dq">>}}

SampleTexts == Literals \cup Nested \cup Comments \cup Statements \cup Mixtures

VersionSymmetry == Permutations(Versions)

AllRows == external_scanner_states
====
