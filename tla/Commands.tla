------------------------------ MODULE Commands ------------------------------
(***************************************************************************)
(* The commands clients and server exchange, <tag> or <tag>argument<\>,    *)
(* and what parse() of parse.h makes of a buffer that begins and ends      *)
(* anywhere in a stream of commands.  Parser.tla checks these operators    *)
(* against the code of parse().                                            *)
(***************************************************************************)
EXTENDS Integers, Sequences

CONSTANT None      \* no argument, no name

Tag(t)            == [tag |-> t]
Command(t, x)     == [tag |-> t, arg |-> x]
FileData(f, k, x) == [tag |-> "filedata", arg |-> x, file |-> f, seg |-> k]

\* tag_only[]: parse() reads no argument after these.
TagOnly == {"signup", "fail", "ok", "login", "logout"}

HasArgument(cmd) == cmd.tag \notin TagOnly

\* What a cut inside a command leaves of it: letters that parse() skips, or,
\* if the <\> after the argument is whole, a Rest that opens with a tag
\* named \ as far as parse() can see.
Rest == Tag("rest")

RestOf(cmd) == IF HasArgument(cmd) THEN {<<>>, <<Rest>>} ELSE {<<>>}

\* The commands parse() finds in a buffer: the argument of the tag named \
\* is everything through the next command that has an argument.
Parsed(s) ==
  IF s = <<>> \/ s[1] # Rest THEN s
  ELSE LET ends == {k \in 2 .. Len(s) : HasArgument(s[k])}
       IN  IF ends = {} THEN <<>>
           ELSE LET k == CHOOSE k \in ends : \A l \in ends : k <= l
                IN  <<Command("\\", None)>> \o SubSeq(s, k + 1, Len(s))
=============================================================================
