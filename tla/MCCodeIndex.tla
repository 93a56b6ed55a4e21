---------------------------- MODULE MCCodeIndex -----------------------------
EXTENDS CodeIndex

CONSTANTS A, B

TwoClasses == {A, B}
FileNames == <<A, B>>

Text(decl, refs) == [decl |-> decl, refs |-> refs]

\* Functions only, in a file described under its name, that use the first class;
\* and two classes in a file of which the first uses the second
TwoTexts == {Text(<<>>, {A}), Text(<<A, B>>, {B})}
=============================================================================
