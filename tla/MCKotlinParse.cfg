\* Two versions, two delimiters at most in the stack.
CONSTANTS
    Versions = {v1, v2}
    Texts <- SampleTexts
    Ambiguous <- Nested
    Rows <- AllRows
    TREE_SITTER_SERIALIZATION_BUFFER_SIZE = 2
SPECIFICATION Spec
SYMMETRY VersionSymmetry
INVARIANTS
    StackIsOpenLiterals
    StackFits
    LiteralEnds
    CommentWhole
    LineCommentTransparent
    BlockCommentTransparent
CHECK_DEADLOCK FALSE
