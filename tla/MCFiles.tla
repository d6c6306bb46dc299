------------------------------ MODULE MCFiles -------------------------------
(***************************************************************************)
(* Instances of Files: what the processes do, in pairs that meet on the    *)
(* same inode, directory or open file.                                     *)
(***************************************************************************)
EXTENDS FilesProps

a == <<"a">>
b == <<"b">>
d == <<"d">>
x == <<"x">>
dx == <<"d", "/", "x">>
rootA == <<"/", "/", "a", "/">>
long == <<"b", "b", "b">>               \* cut to bb

\* mkfs's files: one, with an indirect block.
MCImage == << [name |-> a, data |-> <<Zero, Zero, Zero>>] >>

Create(path) == << <<"open", path, {"CREATE", "RDWR"}>>, <<"write", 0, 2>> >>
Look == << <<"open", rootA, {}>>, <<"read", 0>>, <<"fstat", 0>>, <<"close", 0>> >>
Unlink(path) == << <<"unlink", path>> >>
Link(old, new) == << <<"link", old, new>> >>
Mkdir(path) == << <<"mkdir", path>> >>
Visit == << <<"chdir", d>>, <<"open", x, {"CREATE"}>>, <<"chdir", a>> >>
Exec == << <<"exec", a>>, <<"open", d, {"RDWR"}>> >>
Device == << <<"mknod", long>>, <<"open", long, {"RDWR"}>>, <<"write", 0, 1>>, <<"read", 0>> >>
Pipes == << <<"pipe">>, <<"fork">>, <<"close", 0>>, <<"pipe">> >>
Shared == << <<"open", b, {"CREATE", "WRONLY"}>>, <<"dup", 0>>, <<"fork">>, <<"write", 1, 1>> >>

\* On the file a and its other names, on the directory d, and on open files.
OnFile == {Create(a), Create(b), Look, Unlink(a), Link(a, b), Link(a, b) \o Unlink(a), Exec}
OnDir == {Visit, Mkdir(dx), Create(dx), Link(a, dx), Unlink(dx), Unlink(d), Mkdir(d)}
MCPrograms ==
  {<<p, q, <<>> >> : p \in OnFile, q \in {Unlink(a), Link(a, b), Link(a, a)}}
  \union {<<Mkdir(d) \o Unlink(d), q, <<>> >> : q \in OnDir}
  \union {<<Device, Unlink(long), <<>> >>, <<Pipes, <<>>, <<>> >>, <<Shared, <<>>, <<>> >>}

\* Two processes that open and unlink one name, as usertests' linkunlink() does.
MCCross == {<<Create(x), Unlink(x), <<>> >>}
=============================================================================
