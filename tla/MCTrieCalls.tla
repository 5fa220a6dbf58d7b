----------------------------- MODULE MCTrieCalls -----------------------------
EXTENDS TrieCalls

CONSTANTS a, b, v1, v2, u32, str

\* Values of two C++ types: put<uint32_t> and put<std::string>.
MCValueType == v1 :> u32 @@ v2 :> str

\* Every key of length at most 2 over Chars.
MCKeys == UNION {[1..n -> Chars] : n \in 0..2}

====
