------------------------------- MODULE Shell --------------------------------
(***************************************************************************)
(* The command parser of the shell, src/userspace/programs/shell.cpp: how *)
(* a line the kernel delivered into its buffer becomes a system call and *)
(* its arguments.  The keywords are tried in the order of the if-chain;  *)
(* a keyword that takes an argument is matched with the three-argument  *)
(* strcmp and the argument is read at a fixed offset into the buffer.    *)
(* The line arrives through read_line, whose strcpy in                   *)
(* wake_process_waiting_for_keyboard writes it over whatever the buffer *)
(* held before: the shell's buffer is an uninitialised local.            *)
(***************************************************************************)
EXTENDS Integers, Sequences, FiniteSets, SequencesExt, CString

\* Character codes.
Space == 32
Quote == 34                        \* '"'
Gt    == 62                        \* '>'
ChA   == 97                        \* 'a'
ChB   == 98                        \* 'b'
Ch1   == 49                        \* '1'

\* The keyword constants of main(), in the order the if-chain tests them;
\* exact keywords are compared with strcmp(buffer, K), the others with
\* strcmp(buffer, K, strlen(K) - 1).
HELP  == <<104, 101, 108, 112>>          \* "help"
PS    == <<112, 115>>                    \* "ps"
LS    == <<108, 115>>                    \* "ls"
LP    == <<108, 112>>                    \* "lp"
EXEC  == <<46, 47>>                      \* "./"
KILL  == <<107, 105, 108, 108>>          \* "kill"
TOUCH == <<116, 111, 117, 99, 104>>      \* "touch"
CP    == <<99, 112>>                     \* "cp"
CAT   == <<99, 97, 116>>                 \* "cat"
ECHO  == <<101, 99, 104, 111>>           \* "echo"
RM    == <<114, 109>>                    \* "rm"
CLEAR == <<99, 108, 101, 97, 114>>       \* "clear"
EXITCODE == <<36, 63>>                   \* "$?"
EXIT  == <<101, 120, 105, 116>>          \* "exit"

ShellKeys ==
  << [kw |-> HELP,  exact |-> TRUE],  [kw |-> PS,    exact |-> TRUE],
     [kw |-> LS,    exact |-> TRUE],  [kw |-> LP,    exact |-> TRUE],
     [kw |-> EXEC,  exact |-> FALSE], [kw |-> KILL,  exact |-> FALSE],
     [kw |-> TOUCH, exact |-> FALSE], [kw |-> CP,    exact |-> FALSE],
     [kw |-> CAT,   exact |-> FALSE], [kw |-> ECHO,  exact |-> FALSE],
     [kw |-> RM,    exact |-> FALSE], [kw |-> CLEAR, exact |-> TRUE],
     [kw |-> EXITCODE, exact |-> TRUE], [kw |-> EXIT, exact |-> TRUE] >>

Unknown == -1                      \* printf(UNKNOWN_COMMAND, buffer)
Empty   == 0                       \* strlen(buffer) == 0: nothing

\* Mutant: the length passed to strcmp is strlen(K), one too many.
MatchesFullLength(b, k) ==
  IF k.exact THEN Strcmp(b, CStr(k.kw)) = 0
  ELSE StrcmpN(b, CStr(k.kw), Strlen(CStr(k.kw))) = 0

\* The test of one branch of the if-chain.
Matches(b, k) ==
  IF k.exact THEN Strcmp(b, CStr(k.kw)) = 0
  ELSE StrcmpN(b, CStr(k.kw), (Strlen(CStr(k.kw)) - 1) % UWord) = 0

\* The first branch whose test holds, or 0.
Dispatch(b) ==
  LET hits == {i \in 1..Len(ShellKeys) : Matches(b, ShellKeys[i])}
  IN  IF hits = {} THEN 0
      ELSE CHOOSE i \in hits : \A j \in hits : i <= j

\* The loops "for (...; *curr && *curr != c; ...)": the first index at or
\* after i holding NUL or c.
RECURSIVE ScanTo(_, _, _)
ScanTo(b, i, c) == IF b[i + 1] = NUL \/ b[i + 1] = c THEN i ELSE ScanTo(b, i + 1, c)

\* cp: file1 up to the first space after "cp ", skip one space if the
\* line goes on, file2 up to the next space.
CpArgs(b) ==
  LET s1 == Len(CP) + 1
      e1 == ScanTo(b, s1, Space)
      s2 == IF b[e1 + 1] # NUL THEN e1 + 1 ELSE e1
      e2 == ScanTo(b, s2, Space)
  IN  <<SubSeq(b, s1 + 1, e1), SubSeq(b, s2 + 1, e2)>>

\* echo: a quoted text, then either "> " and a file name (file_append)
\* or nothing more (printf).  No call without both quotes.
EchoArgs(b) ==
  LET s == Len(ECHO) + 1
  IN  IF b[s + 1] # Quote THEN <<>>
      ELSE LET e == ScanTo(b, s + 1, Quote)
               text == SubSeq(b, s + 2, e)
           IN  IF b[e + 1] # Quote THEN <<>>
               ELSE LET g == ScanTo(b, e + 1, Gt)
                    IN  IF b[g + 1] = Gt THEN <<text, CStringAt(b, g + 2)>>
                        ELSE <<text>>

\* The arguments the branch of keyword k passes on.
ShellArgs(b, k) ==
  CASE k = EXEC -> <<CStringAt(b, Len(EXEC))>>
    [] k = KILL -> <<Atoi(b, Len(KILL) + 1)>>
    [] k \in {TOUCH, CAT, RM} -> <<CStringAt(b, Len(k) + 1)>>
    [] k = CP -> CpArgs(b)
    [] k = ECHO -> EchoArgs(b)
    [] OTHER -> <<>>

\* One pass of main()'s loop body after read_line: which branch runs and
\* with which arguments.
ShellCommand(b) ==
  LET i == Dispatch(b)
  IN  IF i = 0
      THEN [cmd |-> IF Strlen(b) # 0 THEN Unknown ELSE Empty, args |-> <<>>]
      ELSE [cmd |-> i, args |-> ShellArgs(b, ShellKeys[i].kw)]

\* read_line(buffer): wake_process_waiting_for_keyboard's
\* strcpy((char *)pcb->regs.edi, data) of the NUL-terminated line.
ReadLine(prior, line) == Strcpy(prior, CStr(line))

-----------------------------------------------------------------------------
(* Inputs, over a set ns of file names as typed.  Lines are every prefix *)
(* of every keyword followed by one of a few tails: nothing, a glued     *)
(* letter, a space, a name, two words, a digit, and the quoted forms of  *)
(* echo.  The buffer's earlier contents are all NUL, or a long earlier  *)
(* line of '1's (a digit, so atoi sees it too) with its terminator.      *)

Texts == {<<ChA>>, <<ChA, Space, ChB>>}

Tails(ns) ==
  {<<>>, <<ChA>>, <<Space>>, <<Space, Ch1>>,
   <<Space, ChA, Space, ChB>>, <<Space, Quote, ChA, Quote>>,
   <<Space, Quote, ChA, Quote, Space, Gt>>}
  \cup {<<Space>> \o f : f \in ns}
  \cup {<<Space, Quote, ChA, Quote, Space, Gt, Space>> \o f : f \in ns}

KeywordPrefixes ==
  UNION {{SubSeq(k.kw, 1, n) : n \in 0..Len(k.kw)} : k \in ToSet(ShellKeys)}

Lines(ns) == {w \o t : w \in KeywordPrefixes, t \in Tails(ns)}

BufSize == 18                      \* BUFFER_SIZE, scaled to the lines

Priors == {[i \in 1..BufSize |-> NUL],
           [i \in 1..BufSize |-> IF i < BufSize THEN Ch1 ELSE NUL]}

KeyIndex(kw) == CHOOSE i \in 1..Len(ShellKeys) : ShellKeys[i].kw = kw

-----------------------------------------------------------------------------
(* What the properties of a composing module assert of the names ns.      *)

\* The command a line yields does not depend on what the buffer held.
StaleFreeOn(ns) ==
  \A line \in Lines(ns) : \A p, q \in Priors :
    ShellCommand(ReadLine(p, line)) = ShellCommand(ReadLine(q, line))

\* Lines typed as printHelp() documents them, naming files of ns, reach
\* the documented branch with the documented arguments.
FollowsHelpOn(ns) ==
  \A p \in Priors :
    LET run(l) == ShellCommand(ReadLine(p, l))
        is(kw, args) == [cmd |-> KeyIndex(kw), args |-> args]
    IN  /\ \A kw \in {HELP, PS, LS, LP, CLEAR, EXITCODE, EXIT} :
             run(kw) = is(kw, <<>>)
        /\ \A f \in ns :
             /\ run(EXEC \o f) = is(EXEC, <<f>>)
             /\ \A kw \in {TOUCH, CAT, RM} :
                  run(kw \o <<Space>> \o f) = is(kw, <<f>>)
        /\ \A f, g \in ns :
             run(CP \o <<Space>> \o f \o <<Space>> \o g) = is(CP, <<f, g>>)
        /\ \A t \in Texts :
             /\ run(ECHO \o <<Space, Quote>> \o t \o <<Quote>>) = is(ECHO, <<t>>)
             /\ \A f \in ns :
                  run(ECHO \o <<Space, Quote>> \o t \o <<Quote, Space, Gt, Space>> \o f)
                    = is(ECHO, <<t, f>>)
=============================================================================
