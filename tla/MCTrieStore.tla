----------------------------- MODULE MCTrieStore -----------------------------
EXTENDS TrieStore

CONSTANTS a, b, v1, v2, u32, str, t1, t2

\* Values of two C++ types: put<uint32_t> and put<std::string>.
MCValueType == v1 :> u32 @@ v2 :> str

\* The empty key, and keys of one character over Chars.
MCKeys == UNION {[1..n -> Chars] : n \in 0..1}

====
