----------------------------- MODULE MCServices -----------------------------
(***************************************************************************)
(* The services around the process table and the disk, in one run: files,  *)
(* a pipe, the console, the spin locks, memory, and a user's heap and      *)
(* shell.  The modules share no state here, so a behaviour is one of one   *)
(* part: the others stay as they were booted.                              *)
(***************************************************************************)
EXTENDS MCFiles, Pipe, Console, Spinlock, Vm, Umalloc, Shell

VARIABLE part

Parts == {"files", "pipe", "console", "spinlock", "memory", "heap", "shell"}

\* One processor running two processes, and two processors with one.
MCMachines == {<<CPUs, {"t1"}>>, <<{"c1"}, Kthreads>>}

\* A program header, and programs: no ELF file; one that fits; one too large; arguments
\* that reach the guard page; a file that ends early; a segment that is not aligned.
Segment(va, memsz, filesz, complete) ==
  [va |-> va, memsz |-> memsz, filesz |-> filesz, complete |-> complete]
Program(segs, args) == [elf |-> TRUE, segs |-> segs, args |-> args]
MCImages ==
  {[elf |-> FALSE, segs |-> <<>>, args |-> 0],
   Program(<<Segment(0, 1, 1, TRUE)>>, 1),
   Program(<<Segment(0, 1, 1, TRUE), Segment(4, 13, 0, TRUE)>>, 1),
   Program(<<Segment(0, 1, 1, TRUE)>>, 3),
   Program(<<Segment(0, 1, 1, FALSE)>>, 1),
   Program(<<Segment(0, 3, 2, TRUE), Segment(1, 1, 1, TRUE)>>, 1)}
MCIncrements == {-3, 3}
MCBufs == {<<1, 0, 2>>}

\* What is typed: commands two levels deep over one that is not there; pipelines with
\* programs that write and read, one of them in the background, more processes than there
\* are or pipes, and one that does not read what is written to it; and lines that are no commands.
gen == ExecOf(<<"gen">>)
cat == ExecOf(<<"cat">>)
absent == ExecOf(<<"x">>)
MCCommands == Over(Over({absent}, absent), absent)
MCScripts ==
  {<<Written(c)>> : c \in MCCommands} \cup
  {<<Written(PipeOf(gen, PipeOf(cat, cat)))>>,
   <<Written(PipeOf(PipeOf(absent, absent), PipeOf(absent, absent)))>>,
   <<Written(PipeOf(Back(gen), cat)), <<"cd", "d">>, <<"gen">> >>,
   <<Written(PipeOf(cat, gen)), Written(PipeOf(gen, gen)), <<>>, <<"gen", "gen">>, <<"(", "gen">>,
     <<"gen", ">">>, <<"gen", ")">>, <<"gen", "(">>, <<"cat", "<", "missing">> >>}

ServicesInit ==
  /\ part \in Parts
  /\ Init /\ (part # "files" => prog = CHOOSE e \in Programs : TRUE)
  /\ PipeInit /\ ConsoleInit
  /\ SpinInit /\ (part # "spinlock" => calls["t2"] # Forkret)
  /\ VmInit /\ UmallocInit
  /\ ShellInit /\ (part # "shell" => lines = CHOOSE ls \in Scripts : TRUE)

ServicesNext ==
  /\ UNCHANGED part
  /\ \/ part = "files" /\ Next
     \/ part # "files" /\ UNCHANGED vars
  /\ \/ part = "pipe" /\ PipeNext
     \/ part # "pipe" /\ UNCHANGED pipevars
  /\ \/ part = "console" /\ ConsoleNext
     \/ part # "console" /\ UNCHANGED consvars
  /\ \/ part = "spinlock" /\ SpinNext
     \/ part # "spinlock" /\ UNCHANGED spinvars
  /\ \/ part = "memory" /\ VmNext
     \/ part # "memory" /\ UNCHANGED vmvars
  /\ \/ part = "heap" /\ UmallocNext
     \/ part # "heap" /\ UNCHANGED heapvars
  /\ \/ part = "shell" /\ ShellNext
     \/ part # "shell" /\ UNCHANGED shvars

\* A process inside pipewrite() or piperead() goes on, and so does one the shell made.
ServicesSpec ==
  /\ ServicesInit /\ [][ServicesNext]_<<part, vars, pipevars, consvars, spinvars, vmvars, heapvars, shvars>>
  /\ \A t \in Users : WF_pipevars(part = "pipe" /\ PipeStep(t))
  /\ \A p \in ShProcs : WF_shvars(part = "shell" /\ ShellStep(p))
=============================================================================
