------------------------------ MODULE CString -------------------------------
(***************************************************************************)
(* The string routines of src/stdlib/src/string.cpp that the shell and    *)
(* the kernel's line delivery use.  A buffer is a sequence of character  *)
(* codes; C index i is element i + 1, and a string ends at the first NUL. *)
(* The routines read and write through the buffer exactly as the code    *)
(* does, so what lies past a terminator is visible to the properties.    *)
(***************************************************************************)
EXTENDS Integers, Sequences

NUL     == 0
\* uint32_t, narrowed to 16 bits for TLC's integers.  Callers here only
\* test results against 0: character differences (below 2^8 in size)
\* and atoi of odd-ended digit runs are 0 modulo 2^16 exactly when they
\* are 0 modulo 2^32.
UWord   == 2^16
Digit0  == 48                      \* '0'
Digit9  == 57                      \* '9'
Minus   == 45                      \* '-'

\* A buffer holding the characters of s and one terminator.
CStr(s) == s \o <<NUL>>

\* strlen: the index of the first NUL at or after C index i.
RECURSIVE StrlenFrom(_, _)
StrlenFrom(b, i) == IF b[i + 1] = NUL THEN i ELSE StrlenFrom(b, i + 1)

Strlen(b) == StrlenFrom(b, 0)

\* The characters of the C string that starts at C index i (what a
\* callee receives for buffer + i).
CStringAt(b, i) == SubSeq(b, i + 1, StrlenFrom(b, i))

\* strcmp(str1, str2): walk while equal, stop at str1's NUL; the
\* difference of the first unequal characters, as a uint32_t.
RECURSIVE StrcmpFrom(_, _, _)
StrcmpFrom(a, b, i) ==
  IF a[i + 1] # b[i + 1] THEN (a[i + 1] - b[i + 1]) % UWord
  ELSE IF a[i + 1] = NUL THEN 0
  ELSE StrcmpFrom(a, b, i + 1)

Strcmp(a, b) == StrcmpFrom(a, b, 0)

\* strcmp(str1, str2, n): as above, but also 0 once index n has matched,
\* so n + 1 characters are compared.
RECURSIVE StrcmpNFrom(_, _, _, _)
StrcmpNFrom(a, b, n, i) ==
  IF a[i + 1] # b[i + 1] THEN (a[i + 1] - b[i + 1]) % UWord
  ELSE IF a[i + 1] = NUL \/ i >= n THEN 0
  ELSE StrcmpNFrom(a, b, n, i + 1)

StrcmpN(a, b, n) == StrcmpNFrom(a, b, n, 0)

\* Mutant: the terminator is copied and nothing is written after it.
StrcpyOneNul(d, s) ==
  LET n == Strlen(s)
  IN  [i \in 1..Len(d) |-> IF i <= n THEN s[i]
                           ELSE IF i = n + 1 THEN NUL ELSE d[i]]

\* strcpy(dest, src): the loop copies up to and including src's NUL and
\* leaves dest one past it, and "*dest = '\0'" writes a second NUL there.
Strcpy(d, s) ==
  LET n == Strlen(s)
  IN  [i \in 1..Len(d) |-> IF i <= n THEN s[i]
                           ELSE IF i <= n + 2 THEN NUL ELSE d[i]]

\* atoi's digit loop from C index i: result = result * 10 + (*str - 48)
\* while *str is a decimal digit, in uint32_t.
RECURSIVE AtoiDigits(_, _, _)
AtoiDigits(b, i, acc) ==
  IF b[i + 1] >= Digit0 /\ b[i + 1] <= Digit9
  THEN AtoiDigits(b, i + 1, (acc * 10 + (b[i + 1] - Digit0)) % UWord)
  ELSE acc

\* atoi(buffer + i): a leading '-' makes sign the uint32_t -1.
Atoi(b, i) ==
  IF b[i + 1] = Minus THEN ((UWord - 1) * AtoiDigits(b, i + 1, 0)) % UWord
  ELSE AtoiDigits(b, i, 0)
=============================================================================
