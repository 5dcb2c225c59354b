SPECIFICATION FairSpec
CONSTANT Kinds = {"plain", "gabi", "zdebug"}
INVARIANT ElfSafe
PROPERTY Ends
