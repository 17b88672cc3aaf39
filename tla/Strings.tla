------------------------------ MODULE Strings -------------------------------
(***************************************************************************)
(* The functions of lib/string.c on a memory of characters.  Copies go     *)
(* forward byte by byte, so what an overlap does depends on its direction. *)
(* Only calls that stay inside the memory take place.                      *)
(***************************************************************************)
EXTENDS Integers, Sequences, FiniteSetsExt

CONSTANTS
    MemSize,        \* characters of memory
    Chars,          \* characters, 0 is NUL
    WordBits        \* bits of a register

VARIABLES
    mem,
    did             \* the last call, with what it returned

stringVars == <<mem, did>>

Terminator == 0

ASSUME StringsAssumption ==
    MemSize \in Nat \ {0} /\ Terminator \in Chars /\ WordBits \in Nat \ {0}

Where == 0 .. MemSize - 1

Did(op, dst, src, size, result) ==
    did' = [op |-> op, dst |-> dst, src |-> src, size |-> size, result |-> result]

StringsInit ==
    /\ mem \in [Where -> Chars]
    /\ did = [op |-> "none", dst |-> 0, src |-> 0, size |-> 0, result |-> 0]

\* Where the string at s may end: at the first of them.
Nuls(m, s) == {e \in s .. MemSize - 1 : m[e] = Terminator}
EndOf(m, s) == Min(Nuls(m, s))
StringAt(m, s) == [i \in 1 .. EndOf(m, s) - s |-> m[s + i - 1]]

Inside(s, size) == s + size <= MemSize

-----------------------------------------------------------------------------
(* What the loops do                                                       *)

\* mutant: the direction flag is set
copied_backward(m, dst, src, size) ==
    LET at[k \in 0 .. size] ==
            IF k = 0 THEN m
            ELSE [at[k - 1] EXCEPT ![dst + size - k] = at[k - 1][src + size - k]]
    IN  at[size]

\* The memory after a copy of size bytes, one after the other.
copied(m, dst, src, size) ==
    LET at[k \in 0 .. size] ==
            IF k = 0 THEN m
            ELSE [at[k - 1] EXCEPT ![dst + k - 1] = at[k - 1][src + k - 1]]
    IN  at[size]

\* strcpy, where the NUL of src is not overwritten on the way.
terminated_copy(m, dst, src) ==
    LET n == EndOf(m, src) - src
    IN  [copied(m, dst, src, n) EXCEPT ![dst + n] = Terminator]

differ(dst, src, size) == \E i \in 0 .. size - 1 : mem[dst + i] # mem[src + i]

Wrap(v) == v % 2 ^ WordBits

\* strlen: scasb counts ecx down from -1, past the NUL too.
length(s) ==
    LET ecx == Wrap((2 ^ WordBits - 1) - (EndOf(mem, s) - s + 1))
    IN  Wrap(Wrap(-Wrap(ecx - (2 ^ WordBits - 1))) - 1)

-----------------------------------------------------------------------------
(* The functions                                                           *)

memcpy(dst, src, size) ==
    /\ Inside(dst, size) /\ Inside(src, size)
    /\ mem' = copied(mem, dst, src, size)
    /\ Did("memcpy", dst, src, size, 0)

memset(dst, c, size) ==
    /\ Inside(dst, size)
    /\ mem' = [a \in Where |-> IF a \in dst .. dst + size - 1 THEN c ELSE mem[a]]
    /\ Did("memset", dst, c, size, 0)

strncpy(dst, src, size) ==
    /\ Inside(dst, size) /\ Inside(src, size)
    /\ mem' = copied(mem, dst, src, size)
    /\ Did("strncpy", dst, src, size, dst)

\* A copy to dst of the string at src comes to its end inside the memory.
Copyable(dst, src) ==
    /\ Nuls(mem, src) # {}
    /\ Inside(dst, EndOf(mem, src) - src + 1)
    /\ dst \notin src + 1 .. EndOf(mem, src)

strcpy(dst, src) ==
    /\ Copyable(dst, src)
    /\ mem' = terminated_copy(mem, dst, src)
    /\ Did("strcpy", dst, src, 0, dst)

strcat(dst, src) ==
    /\ Nuls(mem, dst) # {} /\ Copyable(EndOf(mem, dst), src)
    /\ mem' = terminated_copy(mem, EndOf(mem, dst), src)
    /\ Did("strcat", dst, src, 0, dst)

strncat(dst, src, size) ==
    /\ Nuls(mem, dst) # {} /\ Inside(EndOf(mem, dst), size) /\ Inside(src, size)
    /\ mem' = copied(mem, EndOf(mem, dst), src, size)
    /\ Did("strncat", dst, src, size, dst)

\* memcmp and strncmp, which does not stop at a NUL.
memcmp(dst, src, size) ==
    /\ Inside(dst, size) /\ Inside(src, size)
    /\ Did("memcmp", dst, src, size, IF differ(dst, src, size) THEN 1 ELSE 0)
    /\ UNCHANGED mem

strlen(s) ==
    /\ Nuls(mem, s) # {}
    /\ Did("strlen", s, s, 0, length(s))
    /\ UNCHANGED mem

\* The first position where the two differ or both end decides.
strcmp(dst, src) ==
    LET last == {i \in 0 .. MemSize - 1 :
                    /\ Inside(dst, i + 1) /\ Inside(src, i + 1)
                    /\ mem[dst + i] # mem[src + i] \/ mem[src + i] = Terminator}
    IN  /\ last # {}
        /\ Did("strcmp", dst, src, 0,
               IF mem[dst + Min(last)] # mem[src + Min(last)] THEN 1 ELSE 0)
        /\ UNCHANGED mem

StringsNext ==
    \E dst, src \in Where :
        \/ \E size \in 0 .. MemSize :
            \/ memcpy(dst, src, size) \/ strncpy(dst, src, size)
            \/ strncat(dst, src, size) \/ memcmp(dst, src, size)
            \/ src \in Chars /\ memset(dst, src, size)
        \/ strcpy(dst, src) \/ strcat(dst, src) \/ strcmp(dst, src)
        \/ src = dst /\ strlen(src)

StringsSpec == StringsInit /\ [][StringsNext]_stringVars

-----------------------------------------------------------------------------

\* The regions of a copy of size bytes overlap the wrong way.
Clash(dst, src, size) == dst \in src + 1 .. src + size - 1

(* A copy ends with what was there before it began, also if the regions     *)
(* overlap with dst below src, and changes nothing else.  strcat and strcpy *)
(* build the string they should even where they write over their source;    *)
(* strncat does if it reaches the NUL of src, and otherwise it ends the     *)
(* string only where one happens to be.  strlen, strcmp and memcmp answer   *)
(* what the strings in memory are; strlen comes to its number through a     *)
(* register that wraps twice.                                               *)
RightCall ==
    LET op == did'.op
        dst == did'.dst
        src == did'.src
        n == did'.size
        joined == StringAt(mem, dst) \o StringAt(mem, src)
    IN  /\ op \in {"memcpy", "strncpy"} /\ ~ Clash(dst, src, n) =>
              \A a \in Where :
                 mem'[a] = IF a \in dst .. dst + n - 1 THEN mem[src + a - dst]
                           ELSE mem[a]
        /\ op = "strcpy" => StringAt(mem', dst) = StringAt(mem, src)
        /\ op = "strcat" => StringAt(mem', dst) = joined
        /\ op = "strncat" /\ Nuls(mem, src) # {} /\ n > Len(StringAt(mem, src))
              /\ ~ Clash(EndOf(mem, dst), src, n) =>
              StringAt(mem', dst) = joined
        /\ op = "strlen" => did'.result = Len(StringAt(mem, src)) % 2 ^ WordBits
        /\ op = "strcmp" /\ Nuls(mem, dst) # {} /\ Nuls(mem, src) # {} =>
              (did'.result = 0 <=> StringAt(mem, dst) = StringAt(mem, src))
        /\ op = "memcmp" => (did'.result = 0 <=>
              [k \in 1 .. n |-> mem[dst + k - 1]] = [k \in 1 .. n |-> mem[src + k - 1]])

\* Every call of a function of lib/string.c is right in this sense.
StringsRight == [][RightCall]_stringVars
=============================================================================
