\* All texts of up to five characters: a long argument with a value, a long
\* definition with an odd character in its key, lists of six parts.
\* The run ends when the longest texts are reached.
CONSTANTS
    Alphabet <- MCAlphabet
    LENGTH = 5
    Shorts <- MCShorts
    Longs <- MCLongs
    NO_MAXIMUM = 100
SPECIFICATION Spec
CHECK_DEADLOCK FALSE
INVARIANTS
    TakesItsArguments
    KeysAgree
    SplitsBack
