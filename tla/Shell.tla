------------------------------- MODULE Shell --------------------------------
(***************************************************************************)
(* The shell (sh.c): its parser, and the processes runcmd() makes of a     *)
(* command.  A line is the sequence of its tokens.  A process is the list  *)
(* of the system calls it has yet to make; descriptors, pipes and wait()   *)
(* behave as the kernel's, of which the shell sees no more than this.      *)
(***************************************************************************)
EXTENDS Integers, Sequences, FiniteSets, FiniteSetsExt, SequencesExt

CONSTANTS
  MAXARGS,    \* entries of argv
  ShProcs,    \* process slots; the shell is the first
  ShPipes,    \* pipes of the kernel
  ShFds,      \* descriptors of a process
  Scripts,    \* sequences of lines a user may type
  Commands    \* commands whose written form is looked for

ASSUME ShellAssumption ==
  /\ MAXARGS \in Nat \ {0}
  /\ ShProcs = 1 .. Cardinality(ShProcs)
  /\ {0, 1, 2} \subseteq ShFds

VARIABLES
  sh,         \* state, parent, calls and fd of each process
  bytes,      \* what is in each pipe: a pipe holds one unit
  lines       \* what is still to be typed

shvars == <<sh, bytes, lines>>
-----------------------------------------------------------------------------
(* The parser *)

Symbols == {"|", "(", ")", ";", "&", "<", ">", ">>"}

\* The commands: execcmd(), redircmd(), pipecmd(), listcmd(), backcmd().
ExecOf(argv) == [type |-> "EXEC", argv |-> argv]
Redir(cmd, op, file) == [type |-> "REDIR", cmd |-> cmd, file |-> file, fd |-> IF op = "<" THEN 0 ELSE 1]
PipeOf(left, right) == [type |-> "PIPE", left |-> left, right |-> right]
ListOf(left, right) == [type |-> "LIST", left |-> left, right |-> right]
Back(cmd) == [type |-> "BACK", cmd |-> cmd]

\* What a function of the parser leaves: the rest of the line, and its result.
Parsed(rest, cmd) == [rest |-> rest, cmd |-> cmd, err |-> ""]
Syntax(msg) == [rest |-> <<>>, cmd |-> ExecOf(<<>>), err |-> msg]

\* Parsing goes on from the result r, unless there was an error.  (A bound x is evaluated once.)
After(r, Goes(_)) == CHOOSE v \in {IF x.err # "" THEN x ELSE Goes(x) : x \in {r}} : TRUE

\* peek(), and gettoken() = 'a'.
Peek(s, toks) == s # <<>> /\ Head(s) \in toks
IsWord(s) == s # <<>> /\ Head(s) \notin Symbols

\* Fault: one redirection at most.
ParseRedirs_One(s, cmd) ==
  IF ~Peek(s, {"<", ">", ">>"}) THEN Parsed(s, cmd)
  ELSE IF ~IsWord(Tail(s)) THEN Syntax("missing file for redirection")
  ELSE Parsed(SubSeq(s, 3, Len(s)), Append(cmd, <<s[1], s[2]>>))

\* parseredirs(): the redirections, which its callers put around the command.
RECURSIVE ParseRedirs(_, _)
ParseRedirs(s, cmd) ==
  IF ~Peek(s, {"<", ">", ">>"}) THEN Parsed(s, cmd)
  ELSE IF ~IsWord(Tail(s)) THEN Syntax("missing file for redirection")
  ELSE ParseRedirs(SubSeq(s, 3, Len(s)), Append(cmd, <<s[1], s[2]>>))

Around(cmd, redirs) == FoldLeft(LAMBDA c, r : Redir(c, r[1], r[2]), cmd, redirs)

RECURSIVE ParseLine(_)
ParseBlock(s) ==
  After(ParseLine(Tail(s)), LAMBDA l :
    IF ~Peek(l.rest, {")"}) THEN Syntax("syntax - missing )")
    ELSE After(ParseRedirs(Tail(l.rest), <<>>), LAMBDA r : Parsed(r.rest, Around(l.cmd, r.cmd))))

\* parseexec()'s loop: words and redirections.
RECURSIVE ParseWords(_, _, _)
ParseWords(s, argv, redirs) ==
  After(ParseRedirs(s, redirs), LAMBDA r :
    IF r.rest = <<>> \/ Peek(r.rest, {"|", ")", "&", ";"})
    THEN Parsed(r.rest, Around(ExecOf(argv), r.cmd))
    ELSE IF ~IsWord(r.rest) THEN Syntax("syntax")
    ELSE IF Len(argv) + 1 >= MAXARGS THEN Syntax("too many args")
    ELSE ParseWords(Tail(r.rest), Append(argv, Head(r.rest)), r.cmd))

ParseExec(s) == IF Peek(s, {"("}) THEN ParseBlock(s) ELSE ParseWords(s, <<>>, <<>>)

RECURSIVE ParsePipe(_)
ParsePipe(s) ==
  After(ParseExec(s), LAMBDA l :
    IF ~Peek(l.rest, {"|"}) THEN l
    ELSE After(ParsePipe(Tail(l.rest)), LAMBDA r : Parsed(r.rest, PipeOf(l.cmd, r.cmd))))

RECURSIVE ParseBacks(_)
ParseBacks(l) ==
  IF ~Peek(l.rest, {"&"}) THEN l ELSE ParseBacks(Parsed(Tail(l.rest), Back(l.cmd)))

ParseLine(s) ==
  After(After(ParsePipe(s), ParseBacks), LAMBDA l :
    IF ~Peek(l.rest, {";"}) THEN l
    ELSE After(ParseLine(Tail(l.rest)), LAMBDA r : Parsed(r.rest, ListOf(l.cmd, r.cmd))))

ParseCmd(s) ==
  After(ParseLine(s), LAMBDA l : IF l.rest # <<>> THEN Syntax("leftovers") ELSE l)
-----------------------------------------------------------------------------
(* Processes *)

Closed == <<"closed", 0>>
Tty == <<"console", 0>>
File == <<"file", 0>>
ReadEnd(i) == <<"read", i>>
WriteEnd(i) == <<"write", i>>

NoProc == [state |-> "unused", parent |-> 0, calls |-> <<>>, fd |-> [n \in ShFds |-> Closed]]

\* main(): three descriptors are open, the shell reads a line.
ShellInit ==
  /\ sh = [p \in ShProcs |->
             IF p # 1 THEN NoProc
             ELSE [state |-> "run", parent |-> 0, calls |-> << <<"getcmd">> >>,
                   fd |-> [n \in ShFds |-> IF n < 3 THEN Tty ELSE Closed]]]
  /\ bytes = [i \in ShPipes |-> 0]
  /\ lines \in Scripts

Makes(p, call) == sh[p].state = "run" /\ sh[p].calls # <<>> /\ Head(sh[p].calls)[1] = call
With(p) == Head(sh[p].calls)
Continue(p, more) == [sh[p] EXCEPT !.calls = more \o Tail(@)]
Goto(p, calls) == sh' = [sh EXCEPT ![p].calls = calls]
Quit == << <<"exit">> >>

UnusedFd(p) == {n \in ShFds : sh[p].fd[n] = Closed}
Refers(i) == {end \in {ReadEnd(i), WriteEnd(i)} : \E p \in ShProcs, n \in ShFds : sh[p].fd[n] = end}

\* The loop of main(): cd is the shell's own; at the end of the input it exits.
Getcmd(p) ==
  /\ Makes(p, "getcmd")
  /\ IF lines = <<>> THEN Goto(p, Quit) /\ UNCHANGED lines
     ELSE /\ lines' = Tail(lines)
          /\ Goto(p, IF Peek(Head(lines), {"cd"}) /\ IsWord(Tail(Head(lines))) THEN << <<"getcmd">> >>
                     ELSE << <<"fork", << <<"parse", Head(lines)>> >> >>, <<"wait">>, <<"getcmd">> >>)
  /\ UNCHANGED bytes

\* parsecmd() of every line there may be.
Trees == [line \in UNION {Range(ls) : ls \in Scripts} |-> ParseCmd(line)]

Parse(p) ==
  LET r == Trees[With(p)[2]]
  IN  /\ Makes(p, "parse")
      /\ Goto(p, IF r.err # "" THEN Quit ELSE << <<"runcmd", r.cmd>> >>)
      /\ UNCHANGED <<bytes, lines>>

\* The two programs there are: gen writes twice; cat copies its input to its output.
Programs1 == [gen |-> << <<"write">>, <<"write">> >> \o Quit, cat |-> << <<"cat">> >>]

\* runcmd(): what each kind of command comes to.
CallsOf(cmd) ==
  CASE cmd.type = "EXEC"  -> IF cmd.argv = <<>> \/ cmd.argv[1] \notin DOMAIN Programs1 THEN Quit
                             ELSE Programs1[cmd.argv[1]]
    [] cmd.type = "REDIR" -> << <<"close", cmd.fd>>, <<"open", cmd.file>>, <<"runcmd", cmd.cmd>> >>
    [] cmd.type = "LIST"  -> << <<"fork", << <<"runcmd", cmd.left>> >> >>, <<"wait">>,
                                <<"runcmd", cmd.right>> >>
    [] cmd.type = "PIPE"  -> << <<"pipe", cmd.left, cmd.right>> >>
    [] cmd.type = "BACK"  -> << <<"fork", << <<"runcmd", cmd.cmd>> >> >> >> \o Quit

Runcmd(p) ==
  /\ Makes(p, "runcmd")
  /\ Goto(p, CallsOf(With(p)[2]))
  /\ UNCHANGED <<bytes, lines>>

\* Fault: the parent keeps the writing end.
ParentCloses_Read(p0, p1) == << <<"close", p0>> >>

ParentCloses(p0, p1) == << <<"close", p0>>, <<"close", p1>> >>

\* One side of a pipeline, in its process: descriptor n becomes the end of the pipe.
Side(n, end, p0, p1, cmd) ==
  << <<"close", n>>, <<"dup", end>>, <<"close", p0>>, <<"close", p1>>, <<"runcmd", cmd>> >>

\* pipe(), and what the PIPE case does with it.
PipeCmd(p) ==
  LET free == {i \in ShPipes : Refers(i) = {}}
      i == Min(free)
      p0 == Min(UnusedFd(p))
      p1 == Min(UnusedFd(p) \ {p0})
      fork == << <<"fork", Side(1, p1, p0, p1, With(p)[2])>>, <<"fork", Side(0, p0, p0, p1, With(p)[3])>> >>
  IN  /\ Makes(p, "pipe")
      /\ IF free = {} \/ Cardinality(UnusedFd(p)) < 2 THEN Goto(p, Quit) /\ UNCHANGED bytes
         ELSE /\ sh' = [sh EXCEPT ![p].fd[p0] = ReadEnd(i), ![p].fd[p1] = WriteEnd(i),
                                  ![p].calls = fork \o ParentCloses(p0, p1)
                                               \o << <<"wait">>, <<"wait">> >> \o Quit]
              /\ bytes' = [bytes EXCEPT ![i] = 0]
      /\ UNCHANGED lines

\* fork1(): panics, that is exits, when there is no slot.
Fork1(p) ==
  LET free == {q \in ShProcs : sh[q].state = "unused"}
  IN  /\ Makes(p, "fork")
      /\ IF free = {} THEN Goto(p, Quit)
         ELSE sh' = [sh EXCEPT ![p] = Continue(p, <<>>),
                               ![Min(free)] = [sh[p] EXCEPT !.parent = p, !.calls = With(p)[2]]]
      /\ UNCHANGED <<bytes, lines>>

\* wait(): a child that exited, or -1 when there is no child.
Wait(p) ==
  LET kids == {q \in ShProcs : sh[q].state # "unused" /\ sh[q].parent = p}
      dead == {q \in kids : sh[q].state = "zombie"}
  IN  /\ Makes(p, "wait")
      /\ \/ kids = {} /\ sh' = [sh EXCEPT ![p] = Continue(p, <<>>)]
         \/ \E q \in dead : sh' = [sh EXCEPT ![p] = Continue(p, <<>>), ![q] = NoProc]
      /\ UNCHANGED <<bytes, lines>>

\* exit(): init, which is process 0 here, reaps the children left behind.
ExitCall(p) ==
  LET Orphan(q) == IF sh[q].parent # p \/ sh[q].state = "unused" THEN sh[q]
                   ELSE IF sh[q].state = "zombie" THEN NoProc ELSE [sh[q] EXCEPT !.parent = 0]
  IN  /\ Makes(p, "exit")
      /\ sh' = [q \in ShProcs |->
                  IF q # p THEN Orphan(q)
                  ELSE IF sh[p].parent = 0 THEN NoProc
                  ELSE [NoProc EXCEPT !.state = "zombie", !.parent = sh[p].parent]]
      /\ UNCHANGED <<bytes, lines>>

CloseCall(p) ==
  /\ Makes(p, "close")
  /\ sh' = [sh EXCEPT ![p] = [Continue(p, <<>>) EXCEPT !.fd[With(p)[2]] = Closed]]
  /\ UNCHANGED <<bytes, lines>>

\* dup() and open() take the lowest descriptor; open() of a file that is not there fails.
DupCall(p) ==
  /\ Makes(p, "dup")
  /\ sh' = [sh EXCEPT ![p] = [Continue(p, <<>>) EXCEPT !.fd[Min(UnusedFd(p))] = sh[p].fd[With(p)[2]]]]
  /\ UNCHANGED <<bytes, lines>>

OpenCall(p) ==
  /\ Makes(p, "open")
  /\ IF With(p)[2] = "missing" THEN Goto(p, Quit)
     ELSE sh' = [sh EXCEPT ![p] = [Continue(p, <<>>) EXCEPT !.fd[Min(UnusedFd(p))] = File]]
  /\ UNCHANGED <<bytes, lines>>

(* The programs: a console or file takes everything and is at its end *)

WriteCall(p) ==
  LET f == sh[p].fd[1]
  IN  /\ Makes(p, "write")
      /\ \/ (\A i \in ShPipes : f # WriteEnd(i)) /\ sh' = [sh EXCEPT ![p] = Continue(p, <<>>)] /\ UNCHANGED bytes
         \/ \E i \in ShPipes :
              /\ f = WriteEnd(i)
              /\ \/ ReadEnd(i) \notin Refers(i) /\ Goto(p, Quit) /\ UNCHANGED bytes
                 \/ /\ ReadEnd(i) \in Refers(i) /\ bytes[i] = 0
                    /\ sh' = [sh EXCEPT ![p] = Continue(p, <<>>)]
                    /\ bytes' = [bytes EXCEPT ![i] = 1]
      /\ UNCHANGED lines

CatRead(p) ==
  LET f == sh[p].fd[0]
  IN  /\ Makes(p, "cat")
      /\ \/ (\A i \in ShPipes : f # ReadEnd(i)) /\ Goto(p, Quit) /\ UNCHANGED bytes
         \/ \E i \in ShPipes :
              /\ f = ReadEnd(i)
              /\ \/ /\ bytes[i] = 1
                    /\ Goto(p, << <<"write">>, <<"cat">> >>)
                    /\ bytes' = [bytes EXCEPT ![i] = 0]
                 \/ bytes[i] = 0 /\ WriteEnd(i) \notin Refers(i) /\ Goto(p, Quit) /\ UNCHANGED bytes
      /\ UNCHANGED lines

ShellStep(p) ==
  \/ Getcmd(p) \/ Parse(p) \/ Runcmd(p) \/ PipeCmd(p) \/ Fork1(p) \/ Wait(p) \/ ExitCall(p)
  \/ CloseCall(p) \/ DupCall(p) \/ OpenCall(p) \/ WriteCall(p) \/ CatRead(p)

ShellNext == \E p \in ShProcs : ShellStep(p)
-----------------------------------------------------------------------------
(* What a command is when it is written out, with parentheses where the    *)
(* precedence of redirection, |, & and ; asks for them                     *)

RECURSIVE Written(_)
Within(cmd, kinds) == IF cmd.type \in kinds THEN Written(cmd) ELSE <<"(">> \o Written(cmd) \o <<")">>
Written(cmd) ==
  CASE cmd.type = "EXEC"  -> cmd.argv
    [] cmd.type = "REDIR" -> Within(cmd.cmd, {"EXEC", "REDIR"}) \o <<IF cmd.fd = 0 THEN "<" ELSE ">", cmd.file>>
    [] cmd.type = "PIPE"  -> Within(cmd.left, {"EXEC", "REDIR"}) \o <<"|">>
                             \o Within(cmd.right, {"EXEC", "REDIR", "PIPE"})
    [] cmd.type = "BACK"  -> Within(cmd.cmd, {"EXEC", "REDIR", "PIPE", "BACK"}) \o <<"&">>
    [] cmd.type = "LIST"  -> Within(cmd.left, {"EXEC", "REDIR", "PIPE", "BACK"}) \o <<";">> \o Written(cmd.right)

\* The commands one level over the given ones; leaf is the other side of what has two.
Over(cmds, leaf) ==
  cmds \cup {Redir(c, op, "f") : c \in cmds, op \in {"<", ">"}} \cup {Back(c) : c \in cmds}
       \cup {PipeOf(c, leaf) : c \in cmds} \cup {PipeOf(leaf, c) : c \in cmds}
       \cup {ListOf(c, leaf) : c \in cmds} \cup {ListOf(leaf, c) : c \in cmds}

WrittenAs == [cmd \in Commands |-> Written(cmd)]

\* A line that writes out a command is parsed, by parsecmd() in the process that is to run it,
\* to that very command: |, & and ; group as their precedence says, parentheses override it, and
\* every redirection, of a command or of a block, is kept.
ParsesBack ==
  \A p \in ShProcs : Makes(p, "parse") =>
    \A cmd \in Commands : WrittenAs[cmd] = With(p)[2] => Trees[With(p)[2]] = Parsed(<<>>, cmd)

\* Once a line is being run, whatever it is, and also when fork() or pipe() fails on the way,
\* every process runcmd() makes of it ends, and so does the shell at the end of its input: no
\* process waits for ever for a child, or for the end of a pipe somebody forgot to close.
ShellEnds ==
  (\E p \in ShProcs \ {1} : sh[p].state # "unused") ~> (\A p \in ShProcs : sh[p].state = "unused")
=============================================================================
