------------------------------ MODULE KVStore -------------------------------
(* What the stores have in common (the trait KVStore): keys, and values or None. *)
CONSTANTS
    Key,       \* the keys of the store
    Value,     \* its values
    None,      \* Option::None as a value: the key is absent
    Unwritten  \* nothing is known of a key: a buffer or a history has no entry for it

Data == Value \cup {None}
=============================================================================
